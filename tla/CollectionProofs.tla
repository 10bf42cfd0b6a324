-------------------------- MODULE CollectionProofs --------------------------
(***************************************************************************)
(* What the collection of mutations keeps for any attack, any number of    *)
(* candidates and any size of a batch, however the goroutines of a batch   *)
(* interleave on the one jump tracer.                                      *)
(***************************************************************************)
EXTENDS MutationCollection, SequenceTheorems, FiniteSetTheorems, WellFoundedInduction, TLAPS

\* A sequence of whatever it has for elements.
Elements(s) == {s[i] : i \in 1..Len(s)}
IsSeq(s) == s \in Seq(Elements(s))

IsTracer(t) ==
    /\ DOMAIN t = {"active", "target", "recording", "targetDepth", "depth", "path"}
    /\ t.target \in {NoContract, Protected, Router}
    /\ t.targetDepth \in -1..1 /\ t.depth \in 0..1
    /\ t.path \in 0..(TotalCandidates + 1)
Fields == {"at", "hook", "path", "similarity", "success"}
Places ==
    {"idle", "forked", "targeted", "started", "running", "returned", "stopped", "measured"}
HookCount == 3 * Len(attack.calls) + 3

\* Types, where the data has any: what is in an input or a path is left open.
TypeInv ==
    /\ attack \in Attacks
    /\ stage \in {"fetch", "original", "generate", "batch", "done", "sent", "failed"}
    /\ IsTracer(tracer)
    /\ DOMAIN paths = 0..(TotalCandidates + 1)
    /\ DOMAIN runs = Executions
    /\ \A r \in Executions :
          /\ DOMAIN runs[r] = Fields /\ runs[r].at \in Places
          /\ runs[r].path \in 0..(TotalCandidates + 1)
          /\ runs[r].at = "running" => runs[r].hook \in 1..HookCount
    /\ mixed \subseteq Executions
    /\ IsSeq(mutations) /\ IsSeq(candidates)

\* A batch is no larger than what is missing.
CountInv ==
    /\ Len(candidates) <= BatchSize
    /\ Len(mutations) + Len(candidates) <= TotalCandidates
    /\ stage # "batch" => candidates = <<>>
    /\ successful \subseteq 1..Len(mutations)
    /\ stage \in {"done", "sent"} => Len(mutations) = TotalCandidates

\* The original runs alone, and after it only the candidates of a batch.
StageInv ==
    \A r \in Executions : runs[r].at # "idle" =>
        \/ stage = "original" /\ r = Original
        \/ stage = "batch" /\ r \in 1..Len(candidates)

\* While a candidate is traced the tracer is on the path of some candidate.
TracerInv ==
    \A r \in Executions : runs[r].at \in {"started", "running", "returned"} =>
        tracer.path # 0 /\ (r # Original => tracer.path # 1)

\* What a goroutine has to show for itself.
ResultInv ==
    \A r \in Executions :
        /\ stage = "fetch" => runs[r].path = 0 /\ runs[r].success = FALSE
        /\ runs[r].at \in {"forked", "targeted", "started", "running", "returned"} =>
              runs[r].path = 0 /\ runs[r].success = FALSE
        /\ runs[r].at = "stopped" => runs[r].path # 0
        /\ runs[r].at = "measured" => (runs[r].success <=> runs[r].path # 0)

\* What has been collected.
MutationsInv ==
    \A i \in 1..Len(mutations) :
        /\ mutations[i].success <=> mutations[i].path # 0
        /\ i \in successful <=>
             /\ mutations[i].success
             /\ 100 * mutations[i].similarity.num >= Threshold * mutations[i].similarity.den

CollectInv == TypeInv /\ CountInv /\ StageInv /\ TracerInv /\ ResultInv /\ MutationsInv

-----------------------------------------------------------------------------
(* Sequences                                                               *)

\* Induction: a set of numbers that is not empty has a least one.
LEMMA LeastNumber ==
    ASSUME NEW T \in SUBSET Nat, T # {}
    PROVE  \E n \in T : \A m \in T : n <= m
<1>1. PICK n \in T : \A m \in T : ~(<<m, n>> \in OpToRel(<, Nat))
    BY WFMin, NatLessThanWellFounded
<1>2. \A m \in T : ~(m < n)
    BY <1>1 DEF OpToRel
<1> QED
    BY <1>2

LEMMA SeqOfElements ==
    ASSUME NEW S, NEW s \in Seq(S)
    PROVE  IsSeq(s) /\ Len(s) \in Nat /\ Elements(s) \subseteq S
<1>1. Len(s) \in Nat /\ s \in [1..Len(s) -> S]
    OBVIOUS
<1>2. s \in [1..Len(s) -> Elements(s)]
    BY <1>1 DEF Elements
<1>3. Elements(s) \subseteq S
    BY <1>1 DEF Elements
<1>4. s \in Seq(Elements(s))
    BY <1>1, <1>2
<1> QED
    BY <1>1, <1>3, <1>4 DEF IsSeq

LEMMA Concatenated ==
    ASSUME NEW s, NEW t, IsSeq(s), IsSeq(t)
    PROVE  /\ IsSeq(s \o t) /\ Len(s \o t) = Len(s) + Len(t)
           /\ Len(s) \in Nat /\ Len(t) \in Nat
           /\ \A i \in 1..Len(s) : (s \o t)[i] = s[i]
           /\ \A i \in 1..Len(t) : (s \o t)[Len(s) + i] = t[i]
<1> DEFINE S == Elements(s) \cup Elements(t)
<1>1. s \in Seq(S) /\ t \in Seq(S)
    BY DEF IsSeq
<1> HIDE DEF S
<1>2. s \o t \in Seq(S)
    BY <1>1
<1>3. IsSeq(s \o t)
    BY <1>2, SeqOfElements
<1> QED
    BY <1>1, <1>3, ConcatProperties

\* Sequences put together; the hooks of an execution come in threes.
LEMMA Flattened ==
    ASSUME NEW S, NEW s \in Seq(Seq(S))
    PROVE  /\ FlattenSeq(s) \in Seq(S)
           /\ (\A i \in 1..Len(s) : Len(s[i]) = 3)
                => /\ Len(FlattenSeq(s)) = 3 * Len(s)
                   /\ \A i \in 1..Len(s), j \in 1..3 : FlattenSeq(s)[3 * (i - 1) + j] = s[i][j]
<1> DEFINE n == Len(s)
           Unrolled(f, m) == [i \in 1..m |-> IF i = 1 THEN s[i] ELSE f[i - 1] \o s[i]]
           flatten == CHOOSE f : f = Unrolled(f, n)
<1>1. n \in Nat /\ \A i \in 1..n : s[i] \in Seq(S)
    OBVIOUS
<1>2. CASE n = 0
    <2>1. FlattenSeq(s) = s /\ s = <<>>
        BY <1>2 DEF FlattenSeq
    <2> QED
        BY <1>2, <2>1
<1>3. CASE n > 0
    <2>1. FlattenSeq(s) = flatten[n]
        BY <1>1, <1>3 DEF FlattenSeq
    <2> DEFINE Good(f, m) == f = Unrolled(f, m)
               Bad == {m \in Nat : m <= n /\ ~(\E f : Good(f, m))}
    <2> HIDE DEF Good
    <2>2. Bad = {}
        <3> SUFFICES ASSUME Bad # {} PROVE FALSE
            OBVIOUS
        <3>1. PICK m \in Bad : \A k \in Bad : m <= k
            BY LeastNumber
        <3>2. m \in Nat /\ m <= n /\ ~(\E f : Good(f, m))
            BY <3>1
        <3>3. m # 0
            <4>1. Good(<<>>, 0)
                BY DEF Good
            <4> QED
                BY <3>2, <4>1
        <3>4. m - 1 \in Nat /\ m - 1 <= n /\ ~(m <= m - 1)
            BY <1>1, <3>2, <3>3
        <3>5. m - 1 \notin Bad
            BY <3>1, <3>4
        <3>6. PICK f : Good(f, m - 1)
            BY <3>4, <3>5
        <3> DEFINE g == [i \in 1..m |-> IF i = 1 THEN s[i] ELSE f[i - 1] \o s[i]]
        <3>7. ASSUME NEW i \in 1..m, i # 1 PROVE g[i - 1] = f[i - 1]
            <4>1. i - 1 \in 1..(m - 1) /\ i - 1 \in 1..m
                BY <3>2, <3>7
            <4>2. f = [j \in 1..(m - 1) |-> IF j = 1 THEN s[j] ELSE f[j - 1] \o s[j]]
                BY <3>6 DEF Good
            <4>3. f[i - 1] = IF i - 1 = 1 THEN s[i - 1] ELSE f[(i - 1) - 1] \o s[i - 1]
                BY <4>1, <4>2
            <4> QED
                BY <4>1, <4>3
        <3>8. g = Unrolled(g, m)
            BY <3>7
        <3> HIDE DEF g
        <3>9. Good(g, m)
            BY <3>8 DEF Good
        <3> QED
            BY <3>2, <3>9
    <2>3. \E f : f = Unrolled(f, n)
        <3>1. \E f : Good(f, n)
            BY <1>1, <2>2
        <3> QED
            BY <3>1 DEF Good
    <2>4. flatten = Unrolled(flatten, n)
        BY <2>3
    <2> HIDE DEF flatten
    <2>5. \A i \in 1..n : flatten[i] = IF i = 1 THEN s[i] ELSE flatten[i - 1] \o s[i]
        BY <2>4
    <2> DEFINE Wrong == {i \in Nat : i \in 1..n /\ flatten[i] \notin Seq(S)}
    <2>6. Wrong = {}
        <3> SUFFICES ASSUME Wrong # {} PROVE FALSE
            OBVIOUS
        <3>1. PICK i \in Wrong : \A k \in Wrong : i <= k
            BY LeastNumber
        <3>2. i \in 1..n /\ i # 1
            BY <1>1, <2>5, <3>1
        <3>3. i - 1 \in 1..n /\ i - 1 \notin Wrong
            BY <1>1, <3>1, <3>2
        <3>4. flatten[i - 1] \in Seq(S) /\ s[i] \in Seq(S)
            BY <1>1, <3>2, <3>3
        <3>5. flatten[i] = flatten[i - 1] \o s[i]
            BY <2>5, <3>2
        <3>6. flatten[i] \in Seq(S)
            BY <3>4, <3>5
        <3> QED
            BY <3>1, <3>6
    <2>7. \A i \in 1..n : flatten[i] \in Seq(S)
        BY <2>6
    <2>8. ASSUME \A i \in 1..n : Len(s[i]) = 3 PROVE \A i \in 1..n : Len(flatten[i]) = 3 * i
        <3> DEFINE Long == {i \in Nat : i \in 1..n /\ Len(flatten[i]) # 3 * i}
        <3>1. Long = {}
            <4> SUFFICES ASSUME Long # {} PROVE FALSE
                OBVIOUS
            <4>1. PICK i \in Long : \A k \in Long : i <= k
                BY LeastNumber
            <4>2. i \in 1..n /\ i # 1
                <5>1. i \in 1..n /\ Len(flatten[i]) # 3 * i
                    BY <4>1
                <5>2. i = 1 => flatten[i] = s[i]
                    BY <2>5, <5>1
                <5>3. i = 1 => Len(flatten[i]) = 3
                    BY <2>8, <5>1, <5>2
                <5>4. i = 1 => 3 * i = 3
                    OBVIOUS
                <5> QED
                    BY <5>1, <5>3, <5>4, Zenon
            <4>3. i - 1 \in 1..n /\ ~(i <= i - 1)
                BY <1>1, <4>2
            <4>4. Len(flatten[i - 1]) = 3 * (i - 1) /\ Len(s[i]) = 3
                BY <2>8, <4>1, <4>2, <4>3
            <4>5. flatten[i] = flatten[i - 1] \o s[i]
                BY <2>5, <4>2
            <4>6. flatten[i - 1] \in Seq(S) /\ s[i] \in Seq(S)
                BY <1>1, <2>7, <4>2, <4>3
            <4>7. Len(flatten[i]) = Len(flatten[i - 1]) + Len(s[i])
                <5>1. \A a, b \in Seq(S) : Len(a \o b) = Len(a) + Len(b)
                    BY ConcatProperties
                <5> QED
                    BY <4>5, <4>6, <5>1
            <4>8. Len(flatten[i]) = 3 * i
                BY <4>2, <4>4, <4>7
            <4> QED
                BY <4>1, <4>8
        <3> QED
            BY <3>1
    <2>9. ASSUME \A i \in 1..n : Len(s[i]) = 3
          PROVE  \A i \in 1..n : \A q \in 1..i, j \in 1..3 : flatten[i][3 * (q - 1) + j] = s[q][j]
        <3> DEFINE Agrees(i) == \A q \in 1..i, j \in 1..3 : flatten[i][3 * (q - 1) + j] = s[q][j]
                   Off == {i \in Nat : i \in 1..n /\ ~Agrees(i)}
        <3>1. Off = {}
            <4> SUFFICES ASSUME Off # {} PROVE FALSE
                OBVIOUS
            <4> HIDE DEF Agrees
            <4>1. PICK i \in Off : \A k \in Off : i <= k
                BY LeastNumber
            <4>2. i \in 1..n /\ ~Agrees(i)
                BY <4>1
            <4>3. CASE i = 1
                <5>1. flatten[i] = s[i]
                    BY <2>5, <4>2, <4>3
                <5>2. \A q \in 1..i, j \in 1..3 : q = i /\ 3 * (q - 1) + j = j
                    BY <4>3
                <5> QED
                    BY <4>2, <5>1, <5>2 DEF Agrees
            <4>4. CASE i # 1
                <5>1. i - 1 \in 1..n /\ ~(i <= i - 1) /\ i - 1 \in Nat
                    BY <1>1, <4>2, <4>4
                <5>2. Agrees(i - 1)
                    BY <4>1, <5>1
                <5>3. /\ flatten[i] = flatten[i - 1] \o s[i] /\ flatten[i - 1] \in Seq(S)
                      /\ s[i] \in Seq(S) /\ Len(flatten[i - 1]) = 3 * (i - 1) /\ Len(s[i]) = 3
                    BY <1>1, <2>5, <2>7, <2>8, <2>9, <4>2, <4>4, <5>1
                <5>4. /\ \A p \in 1..(3 * (i - 1)) : flatten[i][p] = flatten[i - 1][p]
                      /\ \A j \in 1..3 : flatten[i][3 * (i - 1) + j] = s[i][j]
                    <6> DEFINE done == flatten[i - 1]
                               next == s[i]
                    <6>1. IsSeq(done) /\ IsSeq(next)
                        BY <5>3, SeqOfElements
                    <6>2. flatten[i] = done \o next /\ Len(done) = 3 * (i - 1) /\ Len(next) = 3
                        BY <5>3
                    <6> HIDE DEF done, next
                    <6>3. /\ \A p \in 1..Len(done) : (done \o next)[p] = done[p]
                          /\ \A j \in 1..Len(next) : (done \o next)[Len(done) + j] = next[j]
                        BY <6>1, Concatenated
                    <6>4. /\ \A p \in 1..(3 * (i - 1)) : flatten[i][p] = done[p]
                          /\ \A j \in 1..3 : flatten[i][3 * (i - 1) + j] = next[j]
                        BY <6>2, <6>3, Zenon
                    <6> QED
                        BY <6>4, Zenon DEF done, next
                <5>5. ASSUME NEW q \in 1..i, NEW j \in 1..3
                      PROVE  flatten[i][3 * (q - 1) + j] = s[q][j]
                    <6>1. CASE q = i
                        BY <5>4, <6>1
                    <6>2. CASE q # i
                        <7>1. q \in 1..(i - 1) /\ 3 * (q - 1) + j \in 1..(3 * (i - 1))
                            BY <4>2, <6>2
                        <7>2. flatten[i - 1][3 * (q - 1) + j] = s[q][j]
                            BY <5>2, <7>1 DEF Agrees
                        <7> QED
                            BY <5>4, <7>1, <7>2
                    <6> QED
                        BY <6>1, <6>2
                <5> QED
                    BY <4>2, <5>5 DEF Agrees
            <4> QED
                BY <4>3, <4>4
        <3>2. \A i \in 1..n : Agrees(i)
            <4> HIDE DEF Agrees
            <4> QED
                BY <1>1, <3>1
        <3> QED
            BY <3>2
    <2>10. n \in 1..n
        BY <1>1, <1>3
    <2> QED
        BY <1>1, <1>3, <2>1, <2>7, <2>8, <2>9, <2>10
<1>4. n = 0 \/ n > 0
    BY <1>1
<1> QED
    BY <1>2, <1>3, <1>4, Zenon
-----------------------------------------------------------------------------
(* The hooks of an execution and the tracer's methods                      *)

\* An execution calls three hooks for every frame, no deeper than the calls of
\* the top one.
LEMMA HooksOf ==
    ASSUME NEW a, Len(a.calls) \in Nat, NEW input
    PROVE  /\ Len(Hooks(a, input)) = 3 * Len(a.calls) + 3
           /\ \A k \in 1..(3 * Len(a.calls) + 3) :
                 /\ Hooks(a, input)[k].hook \in {"enter", "exit", "jump"}
                 /\ Hooks(a, input)[k].hook # "jump" => Hooks(a, input)[k].depth \in {0, 1}
<1> DEFINE n == Len(a.calls)
           C == {a.calls[k] : k \in 1..n}
           S == {Enter(a.to, 0), Leave(0), Leave(1), Jump(a.to, input, 1)}
                  \cup {Enter(c.to, 1) : c \in C} \cup {Jump(c.to, c.input, 2) : c \in C}
           nested(c) == <<Enter(c.to, 1), Jump(c.to, c.input, 2), Leave(1)>>
           s == [k \in 1..n |-> nested(a.calls[k])]
<1>1. \A h \in S : h.hook \in {"enter", "exit", "jump"} /\ (h.hook # "jump" => h.depth \in {0, 1})
    BY DEF Enter, Leave, Jump
<1>2. \A k \in 1..n : nested(a.calls[k]) \in Seq(S) /\ Len(nested(a.calls[k])) = 3
    <2> SUFFICES ASSUME NEW k \in 1..n
                 PROVE  nested(a.calls[k]) \in Seq(S) /\ Len(nested(a.calls[k])) = 3
        OBVIOUS
    <2>1. /\ Enter(a.calls[k].to, 1) \in S /\ Leave(1) \in S
          /\ Jump(a.calls[k].to, a.calls[k].input, 2) \in S
        OBVIOUS
    <2> HIDE DEF S
    <2> QED
        BY <2>1
<1>3. <<Enter(a.to, 0)>> \in Seq(S) /\ <<Jump(a.to, input, 1), Leave(0)>> \in Seq(S)
    <2>1. Enter(a.to, 0) \in S /\ Jump(a.to, input, 1) \in S /\ Leave(0) \in S
        OBVIOUS
    <2> HIDE DEF S
    <2> QED
        BY <2>1
<1> HIDE DEF S, nested
<1>4. s \in Seq(Seq(S)) /\ Len(s) = n /\ \A k \in 1..Len(s) : Len(s[k]) = 3
    BY <1>2
<1> HIDE DEF s
<1>5. FlattenSeq(s) \in Seq(S) /\ Len(FlattenSeq(s)) = 3 * n
    BY <1>4, Flattened
<1> DEFINE hooks == <<Enter(a.to, 0)>> \o FlattenSeq(s) \o <<Jump(a.to, input, 1), Leave(0)>>
<1>6. hooks \in Seq(S) /\ Len(hooks) = 3 * n + 3
    <2> DEFINE front == <<Enter(a.to, 0)>> \o FlattenSeq(s)
    <2>1. front \in Seq(S) /\ Len(front) = 1 + 3 * n
        BY <1>3, <1>5, ConcatProperties
    <2> HIDE DEF front
    <2>2. front \o <<Jump(a.to, input, 1), Leave(0)>> \in Seq(S)
          /\ Len(front \o <<Jump(a.to, input, 1), Leave(0)>>) = 1 + 3 * n + 2
        BY <1>3, <2>1, ConcatProperties
    <2> QED
        BY <2>2 DEF front
<1>7. Hooks(a, input) = hooks
    BY DEF Hooks, s, nested
<1> HIDE DEF hooks
<1>8. \A k \in 1..(3 * n + 3) : hooks[k] \in S
    BY <1>6
<1> QED
    BY <1>1, <1>6, <1>7, <1>8

\* What each hook is, by its number: the top frame's are the first and the last
\* two, and call j has the hooks around 3 * j.
LEMMA HookNumber ==
    ASSUME NEW a, Len(a.calls) \in Nat, NEW input
    PROVE  LET n == Len(a.calls)
               hooks == Hooks(a, input)
           IN  /\ hooks[1] = Enter(a.to, 0)
               /\ \A j \in 1..n : /\ hooks[3 * j - 1] = Enter(a.calls[j].to, 1)
                                   /\ hooks[3 * j] = Jump(a.calls[j].to, a.calls[j].input, 2)
                                   /\ hooks[3 * j + 1] = Leave(1)
               /\ hooks[3 * n + 2] = Jump(a.to, input, 1) /\ hooks[3 * n + 3] = Leave(0)
<1> DEFINE n == Len(a.calls)
           hooks == Hooks(a, input)
           nested(c) == <<Enter(c.to, 1), Jump(c.to, c.input, 2), Leave(1)>>
           s == [k \in 1..n |-> nested(a.calls[k])]
           S == UNION {{nested(a.calls[k])[j] : j \in 1..3} : k \in 1..n}
           top == <<Enter(a.to, 0)>>
           last == <<Jump(a.to, input, 1), Leave(0)>>
<1>1. \A k \in 1..n : nested(a.calls[k]) \in Seq(S) /\ Len(nested(a.calls[k])) = 3
    <2> SUFFICES ASSUME NEW k \in 1..n
                 PROVE  nested(a.calls[k]) \in Seq(S) /\ Len(nested(a.calls[k])) = 3
        OBVIOUS
    <2> DEFINE t == nested(a.calls[k])
    <2>1. t[1] \in S /\ t[2] \in S /\ t[3] \in S
        <3>1. 1 \in 1..3 /\ 2 \in 1..3 /\ 3 \in 1..3
            OBVIOUS
        <3> HIDE DEF t
        <3> QED
            BY <3>1 DEF t
    <2>2. t = <<t[1], t[2], t[3]>> /\ Len(t) = 3
        OBVIOUS
    <2> HIDE DEF t, S
    <2> QED
        BY <2>1, <2>2 DEF t
<1> HIDE DEF S
<1>2. s \in Seq(Seq(S)) /\ Len(s) = n /\ \A k \in 1..Len(s) : Len(s[k]) = 3
    <2> HIDE DEF nested
    <2> QED
        BY <1>1
<1>3. /\ FlattenSeq(s) \in Seq(S) /\ Len(FlattenSeq(s)) = 3 * n
      /\ \A k \in 1..n, j \in 1..3 : FlattenSeq(s)[3 * (k - 1) + j] = s[k][j]
    <2> HIDE DEF s
    <2> QED
        BY <1>2, Flattened
<1>4. \A k \in 1..n : /\ s[k][1] = Enter(a.calls[k].to, 1) /\ s[k][3] = Leave(1)
                      /\ s[k][2] = Jump(a.calls[k].to, a.calls[k].input, 2)
    OBVIOUS
<1>5. hooks = (top \o FlattenSeq(s)) \o last
    BY DEF Hooks
<1>6. /\ IsSeq(top) /\ Len(top) = 1 /\ top[1] = Enter(a.to, 0)
      /\ IsSeq(last) /\ Len(last) = 2 /\ last[1] = Jump(a.to, input, 1) /\ last[2] = Leave(0)
    BY DEF IsSeq, Elements
<1>7. IsSeq(FlattenSeq(s))
    BY <1>3, SeqOfElements
<1> HIDE DEF hooks, s, nested, top, last
<1> DEFINE front == top \o FlattenSeq(s)
<1>8. /\ IsSeq(front) /\ Len(front) = 1 + 3 * n /\ front[1] = Enter(a.to, 0)
      /\ \A i \in 1..(3 * n) : front[1 + i] = FlattenSeq(s)[i]
    <2> DEFINE mid == FlattenSeq(s)
    <2>1. IsSeq(mid) /\ Len(mid) = 3 * n /\ 1 \in 1..1
        BY <1>3, <1>7
    <2> HIDE DEF mid
    <2>2. /\ IsSeq(top \o mid) /\ Len(top \o mid) = Len(top) + Len(mid)
          /\ \A i \in 1..Len(top) : (top \o mid)[i] = top[i]
          /\ \A i \in 1..Len(mid) : (top \o mid)[Len(top) + i] = mid[i]
        <3>1. IsSeq(top) /\ IsSeq(mid)
            BY <1>6, <2>1
        <3> QED
            BY <3>1, Concatenated
    <2>3. /\ IsSeq(top \o mid) /\ Len(top \o mid) = 1 + 3 * n /\ (top \o mid)[1] = Enter(a.to, 0)
          /\ \A i \in 1..(3 * n) : (top \o mid)[1 + i] = mid[i]
        BY <1>6, <2>1, <2>2, Zenon
    <2> QED
        BY <2>3, Zenon DEF mid
<1>9. /\ \A i \in 1..(1 + 3 * n) : hooks[i] = front[i]
      /\ \A i \in 1..2 : hooks[1 + 3 * n + i] = last[i]
    <2> HIDE DEF front
    <2>1. hooks = front \o last
        BY <1>5 DEF front
    <2>2. /\ \A i \in 1..Len(front) : (front \o last)[i] = front[i]
          /\ \A i \in 1..Len(last) : (front \o last)[Len(front) + i] = last[i]
        <3>1. IsSeq(front) /\ IsSeq(last)
            BY <1>6, <1>8
        <3> QED
            BY <3>1, Concatenated
    <2> QED
        BY <1>6, <1>8, <2>1, <2>2, Zenon
<1> HIDE DEF front
<1>10. hooks[1] = Enter(a.to, 0)
    BY <1>8, <1>9
<1>11. ASSUME NEW j \in 1..n
       PROVE  /\ hooks[3 * j - 1] = Enter(a.calls[j].to, 1)
              /\ hooks[3 * j] = Jump(a.calls[j].to, a.calls[j].input, 2)
              /\ hooks[3 * j + 1] = Leave(1)
    <2>1. ASSUME NEW i \in 1..3 PROVE hooks[3 * j - 2 + i] = s[j][i]
        <3>1. /\ 3 * (j - 1) + i \in 1..(3 * n) /\ 3 * j - 2 + i \in 1..(1 + 3 * n)
              /\ 3 * j - 2 + i = 1 + (3 * (j - 1) + i)
            OBVIOUS
        <3>2. front[1 + (3 * (j - 1) + i)] = FlattenSeq(s)[3 * (j - 1) + i]
            BY <1>8, <3>1
        <3> QED
            BY <1>3, <1>9, <3>1, <3>2
    <2>2. 3 * j - 2 + 1 = 3 * j - 1 /\ 3 * j - 2 + 2 = 3 * j /\ 3 * j - 2 + 3 = 3 * j + 1
        OBVIOUS
    <2>3. hooks[3 * j - 1] = s[j][1] /\ hooks[3 * j] = s[j][2] /\ hooks[3 * j + 1] = s[j][3]
        BY <2>1, <2>2
    <2> QED
        BY <1>4, <2>3
<1>12. hooks[3 * n + 2] = Jump(a.to, input, 1) /\ hooks[3 * n + 3] = Leave(0)
    <2>1. 1 + 3 * n + 1 = 3 * n + 2 /\ 1 + 3 * n + 2 = 3 * n + 3
        OBVIOUS
    <2>2. hooks[1 + 3 * n + 1] = last[1] /\ hooks[1 + 3 * n + 2] = last[2]
        BY <1>9
    <2> QED
        BY <1>6, <2>1, <2>2
<1> QED
    BY <1>10, <1>11, <1>12 DEF hooks

\* Every number of a hook is one of those.
LEMMA HookPlaces ==
    ASSUME NEW n \in Nat, NEW k \in 1..(3 * n + 3)
    PROVE  \/ k = 1 \/ k = 3 * n + 2 \/ k = 3 * n + 3
           \/ \E j \in 1..n : k = 3 * j - 1 \/ k = 3 * j \/ k = 3 * j + 1
<1> DEFINE j == (k + 1) \div 3
<1>1. j \in Int /\ 3 * j <= k + 1 /\ k + 1 <= 3 * j + 2
    OBVIOUS
<1> HIDE DEF j
<1>2. j \in 1..n \/ k = 1 \/ k = 3 * n + 2 \/ k = 3 * n + 3
    BY <1>1
<1>3. k = 3 * j - 1 \/ k = 3 * j \/ k = 3 * j + 1
    BY <1>1
<1> QED
    BY <1>2, <1>3

LEMMA TracerMethods ==
    ASSUME NEW t, IsTracer(t)
    PROVE  /\ \A c \in {Protected, Router} :
                  /\ IsTracer(SetTargetContract(t, c))
                  /\ SetTargetContract(t, c).path = t.path
           /\ \A p \in 0..(TotalCandidates + 1) :
                  IsTracer(StartTrace(t, p)) /\ StartTrace(t, p).path = p
           /\ IsTracer(StopTrace(t)) /\ StopTrace(t).path = t.path
           /\ \A c : /\ IsTracer(OnTargetContractCalled(t, c))
                     /\ OnTargetContractCalled(t, c).path = t.path
           /\ \A d \in {0, 1} :
                  /\ \A c : IsTracer(OnEnter(t, c, d)) /\ OnEnter(t, c, d).path = t.path
                  /\ IsTracer(OnExit(t, d)) /\ OnExit(t, d).path = t.path
<1>1. ASSUME NEW c \in {Protected, Router}
      PROVE  IsTracer(SetTargetContract(t, c)) /\ SetTargetContract(t, c).path = t.path
    BY <1>1 DEF SetTargetContract, IsTracer
<1>2. ASSUME NEW p \in 0..(TotalCandidates + 1)
      PROVE  IsTracer(StartTrace(t, p)) /\ StartTrace(t, p).path = p
    BY <1>2 DEF StartTrace, IsTracer
<1>3. IsTracer(StopTrace(t)) /\ StopTrace(t).path = t.path
    BY DEF StopTrace, IsTracer
<1>4. ASSUME NEW c
      PROVE  IsTracer(OnTargetContractCalled(t, c)) /\ OnTargetContractCalled(t, c).path = t.path
    BY DEF OnTargetContractCalled, IsTracer
<1>5. ASSUME NEW d \in {0, 1}, NEW c
      PROVE  IsTracer(OnEnter(t, c, d)) /\ OnEnter(t, c, d).path = t.path
    BY <1>5 DEF OnEnter, IsTracer
<1>6. ASSUME NEW d \in {0, 1}
      PROVE  IsTracer(OnExit(t, d)) /\ OnExit(t, d).path = t.path
    BY <1>6 DEF OnExit, IsTracer
<1> QED
    BY <1>1, <1>2, <1>3, <1>4, <1>5, <1>6

LEMMA InitCollectInv == CollectInit => CollectInv
<1> SUFFICES ASSUME CollectInit PROVE CollectInv
    OBVIOUS
<1> USE CollectionAssumption
<1>1. IsTracer(tracer)
    BY DEF CollectInit, NewJumpTracer, IsTracer
<1>2. DOMAIN runs = Executions /\ \A r \in Executions : runs[r] = Idle
    BY DEF CollectInit
<1>3. /\ DOMAIN Idle = Fields /\ Idle.at = "idle" /\ Idle.path = 0 /\ Idle.success = FALSE
    BY DEF Idle, Fields
<1>4. IsSeq(mutations) /\ IsSeq(candidates) /\ Len(mutations) = 0 /\ Len(candidates) = 0
    BY DEF CollectInit, IsSeq, Elements
<1>5. TypeInv
    BY <1>1, <1>2, <1>3, <1>4 DEF CollectInit, TypeInv, Places
<1>6. CountInv /\ MutationsInv
    BY <1>4 DEF CollectInit, CountInv, MutationsInv
<1>7. StageInv /\ TracerInv /\ ResultInv
    BY <1>2, <1>3 DEF StageInv, TracerInv, ResultInv
<1> QED
    BY <1>5, <1>6, <1>7 DEF CollectInv
-----------------------------------------------------------------------------
(* The steps of one execution                                              *)

Live == {"started", "running", "returned"}

\* The other executions stay where they are, and this one shows what it should.
OnlyRun(r) ==
    /\ DOMAIN runs' = Executions
    /\ \A q \in Executions \ {r} : runs'[q] = runs[q]
    /\ DOMAIN runs'[r] = Fields /\ runs'[r].at \in Places \ {"idle"}
    /\ runs'[r].path \in 0..(TotalCandidates + 1)
    /\ runs'[r].at = "running" => runs'[r].hook \in 1..HookCount
    /\ runs'[r].at \in {"forked", "targeted", "started", "running", "returned"} =>
          runs'[r].path = 0 /\ runs'[r].success = FALSE
    /\ runs'[r].at = "stopped" => runs'[r].path # 0
    /\ runs'[r].at = "measured" => (runs'[r].success <=> runs'[r].path # 0)

LEMMA OneRun ==
    ASSUME CollectInv, NEW r \in Executions, runs[r].at # "idle", OnlyRun(r), KeepCollection,
           IsTracer(tracer'), DOMAIN paths' = DOMAIN paths, mixed' \subseteq Executions,
           TracerInv'
    PROVE  CollectInv'
<1>0. TypeInv /\ CountInv /\ StageInv /\ ResultInv /\ MutationsInv
    BY DEF CollectInv
<1>1. attack' = attack /\ stage' = stage /\ candidates' = candidates /\ mutations' = mutations
      /\ successful' = successful
    BY DEF KeepCollection
<1>2. TypeInv'
    <2>1. IsSeq(mutations') /\ IsSeq(candidates')
        BY <1>0, <1>1 DEF TypeInv
    <2>2. \A q \in Executions :
              /\ DOMAIN runs'[q] = Fields /\ runs'[q].at \in Places
              /\ runs'[q].path \in 0..(TotalCandidates + 1)
              /\ runs'[q].at = "running" => runs'[q].hook \in 1..HookCount
        BY <1>0 DEF TypeInv, OnlyRun
    <2>3. HookCount' = HookCount
        BY <1>1 DEF HookCount
    <2> QED
        BY <1>0, <1>1, <2>1, <2>2, <2>3 DEF TypeInv, OnlyRun
<1>3. CountInv' /\ MutationsInv'
    BY <1>0, <1>1 DEF CountInv, MutationsInv
<1>4. StageInv'
    BY <1>0, <1>1 DEF StageInv, OnlyRun
<1>5. ResultInv'
    <2>1. stage # "fetch"
        BY <1>0 DEF StageInv
    <2> QED
        BY <1>0, <1>1, <2>1 DEF ResultInv, OnlyRun
<1> QED
    BY <1>2, <1>3, <1>4, <1>5 DEF CollectInv

\* An execution that only moves on.
LEMMA Moved ==
    ASSUME TypeInv, NEW r \in Executions, NEW from, NEW to \in Places \ {"running", "idle"},
           Step(r, from, to)
    PROVE  /\ DOMAIN runs' = Executions /\ \A q \in Executions \ {r} : runs'[q] = runs[q]
           /\ runs[r].at = from /\ runs'[r].at = to
           /\ runs'[r].path = runs[r].path /\ runs'[r].success = runs[r].success
           /\ DOMAIN runs'[r] = Fields /\ runs'[r].path \in 0..(TotalCandidates + 1)
<1>1. /\ runs' = [runs EXCEPT ![r].at = to] /\ runs[r].at = from
      /\ DOMAIN runs = Executions /\ DOMAIN runs[r] = Fields
      /\ runs[r].path \in 0..(TotalCandidates + 1)
    BY DEF Step, TypeInv
<1>2. /\ DOMAIN runs' = Executions /\ \A q \in Executions \ {r} : runs'[q] = runs[q]
      /\ runs'[r] = [runs[r] EXCEPT !.at = to]
    BY <1>1
<1>3. /\ [runs[r] EXCEPT !.at = to].at = to
      /\ [runs[r] EXCEPT !.at = to].path = runs[r].path
      /\ [runs[r] EXCEPT !.at = to].success = runs[r].success
      /\ DOMAIN [runs[r] EXCEPT !.at = to] = Fields
    BY <1>1 DEF Fields
<1> QED
    BY <1>1, <1>2, <1>3

\* The target of an execution's calls is one of the two contracts.
LEMMA TargetOf ==
    ASSUME TypeInv, NEW r, TargetCalls(r) # <<>>
    PROVE  (CHOOSE c \in DOMAIN TargetCalls(r) : TRUE) \in {Protected, Router}
<1> DEFINE D == DOMAIN TargetCalls(r)
<1>0. attack.to \in {Protected, Router}
    BY CollectionAssumption DEF TypeInv
<1>1. D = {Protected} \/ D = {attack.to}
    <2>1. CASE r = Original
        <3>1. TargetCalls(r) = [c \in {Protected} |-> NoInput]
            BY <2>1 DEF TargetCalls
        <3> QED
            BY <3>1
    <2>2. CASE r # Original
        <3>1. candidates[r].input # NoInput
            BY <2>2 DEF TargetCalls
        <3>2. CASE ExtractedCall # NoInput
            <4>1. TargetCalls(r) = [c \in {Protected} |-> candidates[r].input]
                BY <2>2, <3>1, <3>2 DEF TargetCalls
            <4> QED
                BY <4>1
        <3>3. CASE ExtractedCall = NoInput
            <4>1. TargetCalls(r) = [c \in {attack.to} |-> candidates[r].input]
                BY <2>2, <3>1, <3>3 DEF TargetCalls
            <4> QED
                BY <4>1
        <3> QED
            BY <3>2, <3>3
    <2> QED
        BY <2>1, <2>2
<1> HIDE DEF D
<1>2. (CHOOSE c \in D : TRUE) \in D
    BY <1>1
<1>3. (CHOOSE c \in D : TRUE) \in {Protected, Router}
    BY <1>0, <1>1, <1>2
<1> QED
    BY <1>3 DEF D

LEMMA SetTargetStep == ASSUME CollectInv, NEW r \in Executions, SetTarget(r) PROVE CollectInv'
<1>0. TypeInv /\ ResultInv /\ TracerInv /\ IsTracer(tracer)
    BY DEF CollectInv, TypeInv
<1>1. Step(r, "forked", "targeted") /\ KeepCollection /\ paths' = paths
    BY DEF SetTarget
<1>2. OnlyRun(r) /\ runs[r].at = "forked" /\ runs'[r].at = "targeted"
    BY <1>0, <1>1, Moved DEF OnlyRun, Places, ResultInv
<1>3. IsTracer(tracer') /\ tracer'.path = tracer.path
    <2>1. CASE TargetCalls(r) = <<>>
        BY <1>0, <2>1 DEF SetTarget
    <2>2. CASE TargetCalls(r) # <<>>
        <3> DEFINE target == CHOOSE c \in DOMAIN TargetCalls(r) : TRUE
        <3>1. tracer' = SetTargetContract(tracer, target)
            BY <2>2 DEF SetTarget
        <3>2. target \in {Protected, Router}
            BY <1>0, <2>2, TargetOf
        <3> HIDE DEF target
        <3> QED
            BY <1>0, <3>1, <3>2, TracerMethods, Zenon
    <2> QED
        BY <2>1, <2>2
<1>4. mixed' \subseteq Executions
    BY <1>0 DEF SetTarget, TypeInv
<1>5. TracerInv'
    BY <1>0, <1>2, <1>3 DEF TracerInv, OnlyRun
<1> QED
    BY <1>1, <1>2, <1>3, <1>4, <1>5, OneRun

LEMMA TraceStep == ASSUME CollectInv, NEW r \in Executions, Trace(r) PROVE CollectInv'
<1> USE CollectionAssumption
<1>0. TypeInv /\ CountInv /\ ResultInv /\ StageInv /\ TracerInv /\ IsTracer(tracer)
    BY DEF CollectInv, TypeInv
<1>1. Step(r, "targeted", "started") /\ KeepCollection /\ paths' = paths /\ mixed' = mixed
    BY DEF Trace
<1>2. OnlyRun(r) /\ runs[r].at = "targeted" /\ runs'[r].at = "started"
    BY <1>0, <1>1, Moved DEF OnlyRun, Places, ResultInv
<1>3. Len(mutations) \in Nat /\ Len(candidates) \in Nat
    BY <1>0, SeqOfElements DEF TypeInv, IsSeq
<1>4. CASE r = Original
    <2>1. IsTracer(tracer') /\ tracer'.path = 1
        <3>1. tracer' = StartTrace(tracer, 1) /\ 1 \in 0..(TotalCandidates + 1)
            BY <1>4 DEF Trace
        <3> QED
            BY <1>0, <3>1, TracerMethods, Zenon
    <2>2. \A q \in Executions : runs'[q].at \in Live => q = Original
        BY <1>0, <1>2, <1>4 DEF StageInv, OnlyRun, Live, Original
    <2>3. TracerInv'
        BY <2>1, <2>2 DEF TracerInv, Live
    <2> QED
        BY <1>0, <1>1, <1>2, <2>1, <2>3, OneRun DEF TypeInv
<1>5. CASE r # Original
    <2>1. r \in 1..Len(candidates)
        BY <1>0, <1>2, <1>5 DEF StageInv
    <2>2. Len(mutations) + r + 1 \in 2..(TotalCandidates + 1)
        BY <1>0, <1>3, <2>1 DEF CountInv
    <2>3. IsTracer(tracer') /\ tracer'.path = Len(mutations) + r + 1
        <3> DEFINE p == Len(mutations) + r + 1
        <3>1. tracer' = StartTrace(tracer, p)
            BY <1>5 DEF Trace
        <3>2. p \in 0..(TotalCandidates + 1)
            BY <2>2
        <3> HIDE DEF p
        <3>3. IsTracer(tracer') /\ tracer'.path = p
            BY <1>0, <3>1, <3>2, TracerMethods, Zenon
        <3> QED
            BY <3>3 DEF p
    <2>4. TracerInv'
        BY <2>2, <2>3 DEF TracerInv
    <2> QED
        BY <1>0, <1>1, <1>2, <2>3, <2>4, OneRun DEF TypeInv
<1> QED
    BY <1>4, <1>5

LEMMA CallStep == ASSUME CollectInv, NEW r \in Executions, Call(r) PROVE CollectInv'
<1>0. TypeInv /\ ResultInv /\ TracerInv /\ IsTracer(tracer)
    BY DEF CollectInv, TypeInv
<1>1. /\ runs[r].at = "started" /\ KeepCollection /\ paths' = paths /\ mixed' = mixed
      /\ runs' = [runs EXCEPT ![r].at = "running", ![r].hook = 1]
    BY DEF Call
<1>2. /\ DOMAIN runs' = Executions /\ \A q \in Executions \ {r} : runs'[q] = runs[q]
      /\ runs'[r] = [runs[r] EXCEPT !.at = "running", !.hook = 1]
    BY <1>0, <1>1 DEF TypeInv
<1>3. /\ DOMAIN runs'[r] = Fields /\ runs'[r].at = "running" /\ runs'[r].hook = 1
      /\ runs'[r].path = runs[r].path /\ runs'[r].success = runs[r].success
    BY <1>0, <1>2 DEF TypeInv, Fields
<1>4. Len(attack.calls) \in Nat
    BY <1>0, CollectionAssumption DEF TypeInv
<1>5. OnlyRun(r)
    BY <1>0, <1>1, <1>2, <1>3, <1>4 DEF OnlyRun, Places, ResultInv, TypeInv, HookCount
<1>6. IsTracer(tracer') /\ tracer'.path = tracer.path
    BY <1>0, TracerMethods DEF Call
<1>7. TracerInv'
    BY <1>0, <1>1, <1>2, <1>6 DEF TracerInv
<1> QED
    BY <1>0, <1>1, <1>5, <1>6, <1>7, OneRun DEF TypeInv

\* The hook that is next is one of the execution's, and the tracer acts on it.
LEMMA HookTaken ==
    ASSUME TypeInv, NEW r \in Executions, EVMStep(r)
    PROVE  LET hooks == Hooks(attack, EffectiveInput(r))
               k == runs[r].hook
               h == hooks[k]
           IN  /\ k \in 1..HookCount /\ Len(hooks) = HookCount /\ HookCount \in Nat
               /\ h.hook # "jump" => h.depth \in {0, 1}
               /\ \/ tracer' = OnEnter(tracer, h.to, h.depth) /\ h.hook = "enter" /\ UNCHANGED paths
                  \/ tracer' = OnExit(tracer, h.depth) /\ h.hook = "exit" /\ UNCHANGED paths
                  \/ tracer' = tracer /\ (paths' \in Appended(r, h.jump) \/ UNCHANGED paths)
<1> DEFINE hooks == Hooks(attack, EffectiveInput(r))
           k == runs[r].hook
           h == hooks[k]
<1>1. /\ Len(attack.calls) \in Nat /\ k \in 1..HookCount /\ Len(hooks) = HookCount
      /\ h.hook \in {"enter", "exit", "jump"} /\ (h.hook # "jump" => h.depth \in {0, 1})
    BY HooksOf, CollectionAssumption DEF EVMStep, TypeInv, HookCount
<1>2. (/\ h.hook = "enter" /\ tracer' = OnEnter(tracer, h.to, h.depth) /\ UNCHANGED paths)
      \/ (h.hook = "exit" /\ tracer' = OnExit(tracer, h.depth) /\ UNCHANGED paths)
      \/ (/\ h.hook = "jump" /\ UNCHANGED tracer
          /\ (paths' \in Appended(r, h.jump) \/ UNCHANGED paths))
    BY <1>1 DEF EVMStep
<1>3. HookCount \in Nat
    BY <1>1 DEF HookCount
<1> HIDE DEF h, hooks, k
<1>4. /\ k \in 1..HookCount /\ Len(hooks) = HookCount /\ HookCount \in Nat
      /\ h.hook # "jump" => h.depth \in {0, 1}
      /\ \/ tracer' = OnEnter(tracer, h.to, h.depth) /\ h.hook = "enter" /\ UNCHANGED paths
         \/ tracer' = OnExit(tracer, h.depth) /\ h.hook = "exit" /\ UNCHANGED paths
         \/ tracer' = tracer /\ (paths' \in Appended(r, h.jump) \/ UNCHANGED paths)
    BY <1>1, <1>2, <1>3
<1> QED
    BY <1>4 DEF h, hooks, k

LEMMA EVMStepStep == ASSUME CollectInv, NEW r \in Executions, EVMStep(r) PROVE CollectInv'
<1>0. TypeInv /\ ResultInv /\ TracerInv /\ IsTracer(tracer)
    BY DEF CollectInv, TypeInv
<1> DEFINE hooks == Hooks(attack, EffectiveInput(r))
           k == runs[r].hook
           h == hooks[k]
           to == IF k = Len(hooks) THEN "returned" ELSE "running"
<1>1. /\ runs[r].at = "running" /\ KeepCollection /\ mixed' = mixed
      /\ runs' = [runs EXCEPT ![r].at = IF k = Len(hooks) THEN "returned" ELSE @, ![r].hook = @ + 1]
    BY DEF EVMStep
<1>2. /\ DOMAIN runs' = Executions /\ \A q \in Executions \ {r} : runs'[q] = runs[q]
      /\ runs'[r] = [runs[r] EXCEPT !.at = to, !.hook = k + 1]
    BY <1>0, <1>1 DEF TypeInv
<1>3. /\ DOMAIN runs'[r] = Fields /\ runs'[r].at = to /\ runs'[r].hook = k + 1
      /\ runs'[r].path = runs[r].path /\ runs'[r].success = runs[r].success
    BY <1>0, <1>2 DEF TypeInv, Fields
<1>4. /\ k \in 1..HookCount /\ Len(hooks) = HookCount /\ HookCount \in Nat
      /\ h.hook # "jump" => h.depth \in {0, 1}
      /\ \/ tracer' = OnEnter(tracer, h.to, h.depth) /\ h.hook = "enter" /\ UNCHANGED paths
         \/ tracer' = OnExit(tracer, h.depth) /\ h.hook = "exit" /\ UNCHANGED paths
         \/ tracer' = tracer /\ (paths' \in Appended(r, h.jump) \/ UNCHANGED paths)
    BY <1>0, HookTaken
<1> HIDE DEF h, hooks, k
<1>6. OnlyRun(r)
    <2>1. to \in {"running", "returned"} /\ (to = "running" => k + 1 \in 1..HookCount)
        BY <1>4
    <2> HIDE DEF to
    <2>2. runs'[r].at \in {"running", "returned"}
        BY <1>3, <2>1
    <2>3. runs'[r].at = "running" => runs'[r].hook \in 1..HookCount
        BY <1>3, <2>1
    <2>4. runs[r].path = 0 /\ runs[r].success = FALSE
        BY <1>0, <1>1 DEF ResultInv
    <2>5. runs'[r].path = 0 /\ runs'[r].success = FALSE
        BY <1>3, <2>4
    <2>6. 0 \in 0..(TotalCandidates + 1)
        BY CollectionAssumption
    <2> QED
        BY <1>2, <1>3, <2>2, <2>3, <2>5, <2>6 DEF OnlyRun, Places
<1>7. IsTracer(tracer') /\ tracer'.path = tracer.path
    <2> DEFINE d == h.depth
    <2>1. CASE h.hook = "enter" /\ tracer' = OnEnter(tracer, h.to, d)
        <3>1. d \in {0, 1}
            BY <1>4, <2>1
        <3> HIDE DEF d
        <3> QED
            BY <1>0, <2>1, <3>1, TracerMethods, Zenon
    <2>2. CASE h.hook = "exit" /\ tracer' = OnExit(tracer, d)
        <3>1. d \in {0, 1}
            BY <1>4, <2>2
        <3> HIDE DEF d
        <3> QED
            BY <1>0, <2>2, <3>1, TracerMethods, Zenon
    <2>3. CASE tracer' = tracer
        BY <1>0, <2>3
    <2> QED
        BY <1>4, <2>1, <2>2, <2>3
<1>8. DOMAIN paths' = DOMAIN paths
    BY <1>4 DEF Appended
<1>9. TracerInv'
    BY <1>0, <1>1, <1>2, <1>7 DEF TracerInv
<1> QED
    BY <1>0, <1>1, <1>6, <1>7, <1>8, <1>9, OneRun DEF TypeInv

LEMMA ReturnPathStep == ASSUME CollectInv, NEW r \in Executions, ReturnPath(r) PROVE CollectInv'
<1>0. TypeInv /\ ResultInv /\ TracerInv /\ IsTracer(tracer)
    BY DEF CollectInv, TypeInv
<1>1. /\ runs[r].at = "returned" /\ KeepCollection /\ paths' = paths /\ mixed' = mixed
      /\ runs' = [runs EXCEPT ![r].at = "stopped", ![r].path = tracer.path]
      /\ tracer' = StopTrace(tracer)
    BY DEF ReturnPath
<1>2. /\ DOMAIN runs' = Executions /\ \A q \in Executions \ {r} : runs'[q] = runs[q]
      /\ runs'[r] = [runs[r] EXCEPT !.at = "stopped", !.path = tracer.path]
    BY <1>0, <1>1 DEF TypeInv
<1>3. DOMAIN runs'[r] = Fields /\ runs'[r].at = "stopped" /\ runs'[r].path = tracer.path
    BY <1>0, <1>2 DEF TypeInv, Fields
<1>4. tracer.path # 0 /\ tracer.path \in 0..(TotalCandidates + 1)
    BY <1>0, <1>1 DEF TracerInv, IsTracer
<1>5. OnlyRun(r)
    BY <1>2, <1>3, <1>4 DEF OnlyRun, Places
<1>6. IsTracer(tracer') /\ tracer'.path = tracer.path
    BY <1>0, <1>1, TracerMethods
<1>7. TracerInv'
    BY <1>0, <1>2, <1>3, <1>6 DEF TracerInv
<1> QED
    BY <1>0, <1>1, <1>5, <1>6, <1>7, OneRun DEF TypeInv

LEMMA MeasureStep == ASSUME CollectInv, NEW r \in 1..BatchSize, Measure(r) PROVE CollectInv'
<1> USE CollectionAssumption
<1>0. TypeInv /\ ResultInv /\ TracerInv /\ IsTracer(tracer) /\ r \in Executions
    BY DEF CollectInv, TypeInv, Executions
<1>1. /\ runs[r].at = "stopped" /\ KeepCollection /\ UNCHANGED <<tracer, paths, mixed>>
      /\ \E s : runs' = [runs EXCEPT ![r].at = "measured", ![r].success = TRUE, ![r].similarity = s]
    BY DEF Measure, KeepCollection
<1>2. PICK s : runs' = [runs EXCEPT ![r].at = "measured", ![r].success = TRUE, ![r].similarity = s]
    BY <1>1
<1>3. /\ DOMAIN runs' = Executions /\ \A q \in Executions \ {r} : runs'[q] = runs[q]
      /\ runs'[r] = [runs[r] EXCEPT !.at = "measured", !.success = TRUE, !.similarity = s]
    BY <1>0, <1>2 DEF TypeInv
<1>4. DOMAIN runs'[r] = Fields /\ runs'[r].at = "measured" /\ runs'[r].path = runs[r].path
    BY <1>0, <1>3 DEF TypeInv, Fields
<1>5. runs'[r].success = TRUE
    BY <1>0, <1>3 DEF TypeInv, Fields
<1>6. OnlyRun(r)
    BY <1>0, <1>1, <1>3, <1>4, <1>5 DEF OnlyRun, Places, ResultInv, TypeInv
<1>7. TracerInv'
    BY <1>0, <1>1, <1>3, <1>4 DEF TracerInv
<1> QED
    BY <1>0, <1>1, <1>6, <1>7, OneRun DEF TypeInv

\* An execution that cannot start counts as measured, and the original's failure
\* ends the call.
LEMMA ExecutionFailsStep ==
    ASSUME CollectInv, NEW r \in Executions, ExecutionFails(r) PROVE CollectInv'
<1>0. TypeInv /\ CountInv /\ ResultInv /\ StageInv /\ TracerInv /\ MutationsInv
    BY DEF CollectInv
<1>1. CASE r # Original
    <2>1. /\ Step(r, "forked", "measured") /\ KeepCollection
          /\ UNCHANGED <<tracer, paths, mixed>>
        BY <1>1 DEF ExecutionFails, Step, KeepCollection
    <2>2. OnlyRun(r) /\ runs[r].at = "forked" /\ runs'[r].at = "measured"
        BY <1>0, <2>1, Moved DEF OnlyRun, Places, ResultInv
    <2>3. TracerInv'
        BY <1>0, <2>1, <2>2 DEF TracerInv, OnlyRun
    <2> QED
        BY <1>0, <2>1, <2>2, <2>3, OneRun DEF TypeInv
<1>2. CASE r = Original
    <2>1. /\ runs[r].at = "forked" /\ stage' = "failed"
          /\ runs' = [runs EXCEPT ![r].at = "idle"]
          /\ UNCHANGED <<attack, tracer, paths, candidates, mutations, successful, mixed>>
        BY <1>2 DEF ExecutionFails
    <2>2. /\ DOMAIN runs' = Executions /\ \A q \in Executions \ {r} : runs'[q] = runs[q]
          /\ runs'[r] = [runs[r] EXCEPT !.at = "idle"]
        BY <1>0, <2>1 DEF TypeInv
    <2>3. DOMAIN runs'[r] = Fields /\ runs'[r].at = "idle" /\ runs'[r].path = runs[r].path
        BY <1>0, <2>2 DEF TypeInv, Fields
    <2>4. stage = "original" /\ candidates = <<>>
        BY <1>0, <1>2, <2>1 DEF StageInv, CountInv, Original
    <2>5. \A q \in Executions : runs'[q].at = "idle"
        BY <1>0, <1>2, <2>2, <2>3, <2>4 DEF StageInv
    <2>6. TypeInv'
        BY <1>0, <2>1, <2>2, <2>3, <2>5 DEF TypeInv, Places, HookCount, IsSeq, Elements
    <2>7. CountInv' /\ MutationsInv'
        BY <1>0, <2>1, <2>4 DEF CountInv, MutationsInv
    <2>8. StageInv' /\ TracerInv' /\ ResultInv'
        BY <2>1, <2>5 DEF StageInv, TracerInv, ResultInv
    <2> QED
        BY <2>6, <2>7, <2>8 DEF CollectInv
<1> QED
    BY <1>1, <1>2
-----------------------------------------------------------------------------
(* The steps of the collection                                             *)

LEMMA FunctionIsSeq ==
    ASSUME NEW n \in Nat, NEW f, f = [i \in 1..n |-> f[i]]
    PROVE  IsSeq(f) /\ Len(f) = n
<1> DEFINE S == {f[i] : i \in 1..n}
<1>1. f \in [1..n -> S]
    OBVIOUS
<1> HIDE DEF S
<1>2. f \in Seq(S) /\ Len(f) = n
    BY <1>1
<1> QED
    BY <1>2, SeqOfElements

\* What stays when the executions are all idle and nothing is collected.
LEMMA AllIdle ==
    ASSUME CollectInv, stage' \in {"original", "generate", "failed", "done", "sent"},
           UNCHANGED <<attack, paths, candidates, mutations, successful, mixed>>, tracer' = tracer,
           candidates = <<>>, stage' \in {"done", "sent"} => Len(mutations) = TotalCandidates,
           DOMAIN runs' = Executions,
           \A r \in Executions :
              /\ DOMAIN runs'[r] = Fields
              /\ runs'[r].at = "idle"
              /\ runs'[r].path \in 0..(TotalCandidates + 1)
    PROVE  CollectInv'
<1>0. TypeInv /\ CountInv /\ MutationsInv
    BY DEF CollectInv
<1>1. /\ attack' = attack /\ paths' = paths /\ candidates' = candidates
      /\ mutations' = mutations /\ successful' = successful /\ mixed' = mixed
    OBVIOUS
<1>2. TypeInv'
    BY <1>0, <1>1 DEF TypeInv, Places, HookCount, IsSeq, Elements, IsTracer
<1>3. CountInv' /\ MutationsInv'
    BY <1>0, <1>1 DEF CountInv, MutationsInv
<1>4. StageInv' /\ TracerInv' /\ ResultInv'
    BY DEF StageInv, TracerInv, ResultInv
<1> QED
    BY <1>2, <1>3, <1>4 DEF CollectInv

LEMMA FetchStep == ASSUME CollectInv, Fetch PROVE CollectInv'
<1>0. TypeInv /\ CountInv /\ StageInv /\ ResultInv /\ MutationsInv
    BY DEF CollectInv
<1>1. /\ stage = "fetch" /\ stage' = "original"
      /\ runs' = [runs EXCEPT ![Original].at = "forked"]
      /\ attack' = attack /\ tracer' = tracer /\ paths' = paths /\ candidates' = candidates
      /\ mutations' = mutations /\ successful' = successful /\ mixed' = mixed
    BY DEF Fetch
<1>2. Original \in Executions
    BY CollectionAssumption DEF Original, Executions
<1>3. /\ DOMAIN runs' = Executions /\ \A q \in Executions \ {Original} : runs'[q] = runs[q]
      /\ runs'[Original] = [runs[Original] EXCEPT !.at = "forked"]
    BY <1>0, <1>1, <1>2 DEF TypeInv
<1>4. /\ DOMAIN runs'[Original] = Fields /\ runs'[Original].at = "forked"
      /\ runs'[Original].path = runs[Original].path
      /\ runs'[Original].success = runs[Original].success
    BY <1>0, <1>2, <1>3 DEF TypeInv, Fields
<1>5. \A q \in Executions : runs[q].at = "idle"
    BY <1>0, <1>1 DEF StageInv
<1>6. \A q \in Executions :
          /\ DOMAIN runs'[q] = Fields /\ runs'[q].at \in Places
          /\ runs'[q].path \in 0..(TotalCandidates + 1)
          /\ runs'[q].at \in {"idle", "forked"} /\ (q # Original => runs'[q].at = "idle")
    BY <1>0, <1>2, <1>3, <1>4, <1>5 DEF TypeInv, Places
<1>7. TypeInv'
    BY <1>0, <1>1, <1>3, <1>6 DEF TypeInv, HookCount, IsSeq, Elements, IsTracer
<1>8. CountInv' /\ MutationsInv'
    BY <1>0, <1>1 DEF CountInv, MutationsInv
<1>9. StageInv' /\ TracerInv'
    BY <1>1, <1>6 DEF StageInv, TracerInv
<1>10. ResultInv'
    <2>1. runs'[Original].path = 0 /\ runs'[Original].success = FALSE
        BY <1>0, <1>1, <1>2, <1>4 DEF ResultInv
    <2> QED
        BY <1>1, <1>6, <2>1 DEF ResultInv
<1> QED
    BY <1>7, <1>8, <1>9, <1>10 DEF CollectInv

LEMMA StageOnlySteps ==
    ASSUME CollectInv, FetchFails \/ CollectionDone PROVE CollectInv'
<1>0. TypeInv /\ CountInv /\ StageInv
    BY DEF CollectInv
<1>1. /\ stage \in {"fetch", "generate"} /\ stage' \in {"failed", "done", "sent"}
      /\ stage' \in {"done", "sent"} => Len(mutations) = TotalCandidates
      /\ UNCHANGED <<attack, paths, candidates, mutations, successful, mixed>>
      /\ tracer' = tracer /\ runs' = runs
    BY DEF FetchFails, CollectionDone
<1>2. candidates = <<>> /\ \A r \in Executions : runs[r].at = "idle"
    BY <1>0, <1>1 DEF CountInv, StageInv
<1>3. /\ DOMAIN runs' = Executions
      /\ \A r \in Executions :
            /\ DOMAIN runs'[r] = Fields
            /\ runs'[r].at = "idle"
            /\ runs'[r].path \in 0..(TotalCandidates + 1)
    BY <1>0, <1>1, <1>2 DEF TypeInv
<1> QED
    BY <1>1, <1>2, <1>3, AllIdle

LEMMA OriginalDoneStep == ASSUME CollectInv, OriginalDone PROVE CollectInv'
<1>0. TypeInv /\ CountInv /\ StageInv
    BY DEF CollectInv
<1>1. /\ Step(Original, "stopped", "idle") /\ stage' = "generate"
      /\ UNCHANGED <<attack, paths, candidates, mutations, successful, mixed>>
      /\ tracer' = tracer
    BY DEF OriginalDone
<1>2. /\ runs[Original].at = "stopped" /\ runs' = [runs EXCEPT ![Original].at = "idle"]
      /\ Original \in Executions
    BY <1>1, CollectionAssumption DEF Step, Original, Executions
<1>3. /\ DOMAIN runs' = Executions /\ \A q \in Executions \ {Original} : runs'[q] = runs[q]
      /\ runs'[Original] = [runs[Original] EXCEPT !.at = "idle"]
    BY <1>0, <1>2 DEF TypeInv
<1>4. /\ DOMAIN runs'[Original] = Fields /\ runs'[Original].at = "idle"
      /\ runs'[Original].path = runs[Original].path
    BY <1>0, <1>2, <1>3 DEF TypeInv, Fields
<1>5. stage = "original" /\ candidates = <<>>
    BY <1>0, <1>2 DEF StageInv, CountInv, Original
<1>6. \A q \in Executions \ {Original} : runs[q].at = "idle"
    BY <1>0, <1>5 DEF StageInv
<1>7. \A q \in Executions :
          /\ DOMAIN runs'[q] = Fields
          /\ runs'[q].at = "idle"
          /\ runs'[q].path \in 0..(TotalCandidates + 1)
    BY <1>0, <1>2, <1>3, <1>4, <1>6 DEF TypeInv
<1> QED
    BY <1>1, <1>3, <1>5, <1>7, AllIdle

LEMMA GenerateBatchStep == ASSUME CollectInv, GenerateBatch PROVE CollectInv'
<1> USE CollectionAssumption
<1> DEFINE size == Least(BatchSize, TotalCandidates - Len(mutations))
<1>0. TypeInv /\ CountInv /\ StageInv /\ MutationsInv
    BY DEF CollectInv
<1>1. /\ stage = "generate" /\ size > 0 /\ stage' = "batch" /\ mixed' = {}
      /\ attack' = attack /\ tracer' = tracer /\ paths' = paths /\ mutations' = mutations
      /\ successful' = successful
      /\ runs' = [r \in Executions |->
                     IF r \in 1..size THEN [Idle EXCEPT !.at = "forked"] ELSE Idle]
    BY DEF GenerateBatch
<1>2. Len(mutations) \in Nat
    BY <1>0, SeqOfElements DEF TypeInv, IsSeq
<1>3. size \in Nat /\ size <= BatchSize /\ Len(mutations) + size <= TotalCandidates
    BY <1>1, <1>2 DEF Least
<1>4. PICK order : candidates' = BatchCandidates(order, Len(mutations), size)
    BY DEF GenerateBatch
<1> HIDE DEF size
<1>5. IsSeq(candidates') /\ Len(candidates') = size
    <2>1. candidates' = [i \in 1..size |-> candidates'[i]]
        BY <1>4 DEF BatchCandidates
    <2> QED
        BY <1>3, <2>1, FunctionIsSeq
<1>6. /\ DOMAIN Idle = Fields /\ Idle.at = "idle" /\ Idle.path = 0 /\ Idle.success = FALSE
      /\ DOMAIN [Idle EXCEPT !.at = "forked"] = Fields
      /\ [Idle EXCEPT !.at = "forked"].at = "forked" /\ [Idle EXCEPT !.at = "forked"].path = 0
      /\ [Idle EXCEPT !.at = "forked"].success = FALSE
    BY DEF Idle, Fields
<1>7. \A r \in Executions : runs'[r] = IF r \in 1..size THEN [Idle EXCEPT !.at = "forked"] ELSE Idle
    BY <1>1
<1>8. /\ DOMAIN runs' = Executions
      /\ \A r \in Executions :
            /\ DOMAIN runs'[r] = Fields
            /\ runs'[r].at \in {"idle", "forked"} /\ (runs'[r].at = "forked" => r \in 1..size)
            /\ runs'[r].path = 0 /\ runs'[r].success = FALSE
    BY <1>1, <1>6, <1>7
<1>9. TypeInv'
    BY <1>0, <1>1, <1>5, <1>8 DEF TypeInv, Places, IsSeq, Elements, IsTracer
<1>10. CountInv' /\ MutationsInv'
    BY <1>0, <1>1, <1>2, <1>3, <1>5 DEF CountInv, MutationsInv
<1>11. StageInv' /\ TracerInv' /\ ResultInv'
    BY <1>1, <1>5, <1>8 DEF StageInv, TracerInv, ResultInv
<1> QED
    BY <1>9, <1>10, <1>11 DEF CollectInv

\* wg.Wait: every candidate's result is in its goroutine's element.
LEMMA CollectBatchStep == ASSUME CollectInv, CollectBatch PROVE CollectInv'
<1> USE CollectionAssumption
<1> DEFINE n == Len(candidates)
           m == Len(mutations)
           result(r) == [input |-> candidates[r].input, storage |-> candidates[r].storage,
                         success |-> runs[r].success, similarity |-> runs[r].similarity,
                         path |-> runs[r].path, mixed |-> r \in mixed]
           batch == [r \in 1..n |-> result(r)]
<1>0. TypeInv /\ CountInv /\ ResultInv /\ MutationsInv
    BY DEF CollectInv
<1>1. /\ stage = "batch" /\ stage' = "generate" /\ mixed' = {} /\ candidates' = <<>>
      /\ \A r \in 1..n : runs[r].at = "measured"
      /\ mutations' = mutations \o batch
      /\ successful' = successful \cup {m + r : r \in {q \in 1..n : Succeeds(batch[q])}}
      /\ runs' = [r \in Executions |-> Idle]
      /\ attack' = attack /\ tracer' = tracer /\ paths' = paths
    BY DEF CollectBatch
<1>2. m \in Nat /\ n \in Nat /\ n <= BatchSize /\ m + n <= TotalCandidates
    BY <1>0, SeqOfElements DEF TypeInv, CountInv, IsSeq
<1>3. IsSeq(batch) /\ Len(batch) = n
    <2>1. batch = [i \in 1..n |-> batch[i]]
        OBVIOUS
    <2> HIDE DEF batch
    <2> QED
        BY <1>2, <2>1, FunctionIsSeq
<1>4. ASSUME NEW r \in 1..n
      PROVE  /\ batch[r].success <=> batch[r].path # 0
             /\ Succeeds(batch[r]) <=>
                  /\ batch[r].success
                  /\ 100 * batch[r].similarity.num >= Threshold * batch[r].similarity.den
    <2>1. batch[r].success = runs[r].success /\ batch[r].path = runs[r].path
        OBVIOUS
    <2>2. r \in Executions /\ runs[r].at = "measured"
        BY <1>1, <1>2 DEF Executions
    <2>3. runs[r].success <=> runs[r].path # 0
        BY <1>0, <2>2 DEF ResultInv
    <2>4. batch[r].success <=> batch[r].path # 0
        BY <2>1, <2>3
    <2> HIDE DEF batch
    <2> QED
        BY <2>4 DEF Succeeds, AtLeast
<1> HIDE DEF batch
<1>5. /\ IsSeq(mutations') /\ Len(mutations') = m + n
      /\ \A i \in 1..m : mutations'[i] = mutations[i]
      /\ \A r \in 1..n : mutations'[m + r] = batch[r]
    <2>1. IsSeq(mutations) /\ IsSeq(batch)
        BY <1>0, <1>3 DEF TypeInv
    <2>2. /\ IsSeq(mutations \o batch) /\ Len(mutations \o batch) = m + Len(batch)
          /\ \A i \in 1..m : (mutations \o batch)[i] = mutations[i]
          /\ \A r \in 1..Len(batch) : (mutations \o batch)[m + r] = batch[r]
        BY <2>1, Concatenated
    <2> HIDE DEF m, n
    <2>3. mutations' = mutations \o batch /\ Len(batch) = n
        BY <1>1, <1>3
    <2> QED
        BY <2>2, <2>3, Zenon
<1>6. /\ \A i \in 1..m : i \in successful' <=> i \in successful
      /\ \A r \in 1..n : m + r \in successful' <=> Succeeds(batch[r])
      /\ successful' \subseteq 1..(m + n)
    <2> DEFINE new == {m + r : r \in {q \in 1..n : Succeeds(batch[q])}}
    <2>1. successful \subseteq 1..m /\ successful' = successful \cup new
        BY <1>0, <1>1 DEF CountInv
    <2> HIDE DEF m, n
    <2>2. \A i \in new : i \in (m + 1)..(m + n)
        BY <1>2
    <2>3. \A r \in 1..n : m + r \in new <=> Succeeds(batch[r])
        BY <1>2
    <2> HIDE DEF new
    <2>4. \A r \in 1..n : m + r \notin 1..m
        BY <1>2
    <2>5. \A i \in 1..m : i \notin (m + 1)..(m + n)
        BY <1>2
    <2>6. \A i : i \in 1..m \/ i \in (m + 1)..(m + n) => i \in 1..(m + n)
        BY <1>2
    <2> QED
        BY <2>1, <2>2, <2>3, <2>4, <2>5, <2>6
<1>7. MutationsInv'
    <2> SUFFICES ASSUME NEW i \in 1..(m + n)
                 PROVE  /\ mutations'[i].success <=> mutations'[i].path # 0
                        /\ i \in successful' <=>
                             /\ mutations'[i].success
                             /\ 100 * mutations'[i].similarity.num
                                  >= Threshold * mutations'[i].similarity.den
        BY <1>5 DEF MutationsInv
    <2>1. CASE i \in 1..m
        BY <1>0, <1>5, <1>6, <2>1 DEF MutationsInv
    <2>2. CASE i \notin 1..m
        <3>1. i - m \in 1..n /\ m + (i - m) = i
            BY <1>2, <2>2
        <3>2. mutations'[i] = batch[i - m] /\ (i \in successful' <=> Succeeds(batch[i - m]))
            BY <1>5, <1>6, <3>1
        <3> QED
            BY <1>4, <3>1, <3>2
    <2> QED
        BY <2>1, <2>2
<1>8. /\ DOMAIN runs' = Executions /\ \A r \in Executions : runs'[r] = Idle
      /\ DOMAIN Idle = Fields /\ Idle.at = "idle" /\ Idle.path = 0
    BY <1>1 DEF Idle, Fields
<1>9. IsSeq(candidates') /\ Len(candidates') = 0
    BY <1>1 DEF IsSeq, Elements
<1>10. TypeInv'
    BY <1>0, <1>1, <1>5, <1>8, <1>9 DEF TypeInv, Places, IsTracer
<1>11. CountInv'
    BY <1>0, <1>1, <1>2, <1>5, <1>6, <1>9 DEF CountInv
<1>12. StageInv' /\ TracerInv' /\ ResultInv'
    BY <1>1, <1>8 DEF StageInv, TracerInv, ResultInv
<1> QED
    BY <1>7, <1>10, <1>11, <1>12 DEF CollectInv

LEMMA NextCollectInv == CollectInv /\ [CollectNext]_collectVars => CollectInv'
<1> SUFFICES ASSUME CollectInv, [CollectNext]_collectVars PROVE CollectInv'
    OBVIOUS
<1>1. CASE Fetch
    BY <1>1, FetchStep
<1>2. CASE FetchFails \/ CollectionDone
    BY <1>2, StageOnlySteps
<1>3. CASE OriginalDone
    BY <1>3, OriginalDoneStep
<1>4. CASE GenerateBatch
    BY <1>4, GenerateBatchStep
<1>5. CASE CollectBatch
    BY <1>5, CollectBatchStep
<1>6. ASSUME NEW r \in Executions, Execution(r) PROVE CollectInv'
    BY <1>6, SetTargetStep, ExecutionFailsStep, TraceStep, CallStep, EVMStepStep, ReturnPathStep
       DEF Execution
<1>7. ASSUME NEW r \in 1..BatchSize, Measure(r) PROVE CollectInv'
    BY <1>7, MeasureStep
<1>8. CASE UNCHANGED collectVars
    <2>1. /\ attack' = attack /\ stage' = stage /\ tracer' = tracer /\ paths' = paths
          /\ candidates' = candidates /\ runs' = runs /\ mutations' = mutations
          /\ successful' = successful /\ mixed' = mixed
        BY <1>8 DEF collectVars
    <2>2. TypeInv' <=> TypeInv
        BY <2>1 DEF TypeInv, IsTracer, IsSeq, Elements, HookCount
    <2>3. (CountInv' <=> CountInv) /\ (StageInv' <=> StageInv) /\ (TracerInv' <=> TracerInv)
        BY <2>1 DEF CountInv, StageInv, TracerInv
    <2>4. ResultInv' <=> ResultInv
        BY <2>1 DEF ResultInv
    <2>5. MutationsInv' <=> MutationsInv
        BY <2>1 DEF MutationsInv
    <2> QED
        BY <2>2, <2>3, <2>4, <2>5 DEF CollectInv
<1> QED
    BY <1>1, <1>2, <1>3, <1>4, <1>5, <1>6, <1>7, <1>8 DEF CollectNext, CollectEnds
-----------------------------------------------------------------------------
(* The inputs of the candidates                                            *)

LEMMA Quotient ==
    ASSUME NEW B \in Nat \ {0}, NEW x \in Nat, x % B = 0
    PROVE  \E q \in Int : x = B * q
    BY SMTT(30)

LEMMA Multiple ==
    ASSUME NEW B \in Nat \ {0}, NEW q \in Int, NEW x \in Int, x = B * q
    PROVE  x % B = 0
    OBVIOUS

\* The remainders that count the candidates of a batch.
LEMMA Remainders ==
    ASSUME NEW B \in Nat \ {0}, NEW x \in Nat
    PROVE  /\ x % B \in 0..(B - 1) /\ x % B <= x
           /\ x < B => x % B = x
           /\ x % B = 0 => \A r \in 0..(B - 1) : (x + r) % B = r
           /\ x % B = 0 => (x + B) % B = 0
<1>1. x % B \in 0..(B - 1)
    OBVIOUS
<1>2. x % B <= x
    OBVIOUS
<1>3. x < B => x % B = x
    OBVIOUS
<1>4. ASSUME x % B = 0, NEW r \in 0..(B - 1) PROVE (x + r) % B = r
    BY <1>4
<1>5. ASSUME x % B = 0 PROVE (x + B) % B = 0
    <2>1. PICK q \in Int : x = B * q
        BY <1>5, Quotient
    <2>2. x + B = B * (q + 1) /\ q + 1 \in Int /\ x + B \in Int
        BY <2>1
    <2> QED
        BY <2>2, Multiple
<1> QED
    BY <1>1, <1>2, <1>3, <1>4, <1>5

\* What is found differs from the original.
LEMMA Differs ==
    ASSUME NEW original, NEW attempts, DOMAIN attempts \in SUBSET Nat, NEW otherwise,
           otherwise # original
    PROVE  FirstDifferent(original, attempts, otherwise) # original
<1> DEFINE different == {k \in DOMAIN attempts : attempts[k] # original}
           first == Min(different)
<1>1. CASE different = {}
    BY <1>1 DEF FirstDifferent
<1>2. CASE different # {}
    <2>1. \E k \in different : \A j \in different : k <= j
        <3>1. different \in SUBSET Nat
            OBVIOUS
        <3> HIDE DEF different
        <3> QED
            BY <1>2, <3>1, LeastNumber
    <2>2. first \in different
        <3> HIDE DEF different
        <3> QED
            BY <2>1 DEF Min
    <2>3. FirstDifferent(original, attempts, otherwise) = attempts[first]
        BY <1>2 DEF FirstDifferent
    <2> QED
        BY <2>2, <2>3
<1> QED
    BY <1>1, <1>2

\* Of a call's candidate an odd variant changes no slot and an even one changes
\* some slot, if there is one, in whatever order the map gives them.
LEMMA ChangesFromCall ==
    ASSUME NEW storage, NEW order, Len(order) \in Nat, NEW variant \in Nat
    PROVE  GenerateStepBasedStorageChangesFromCall(storage, order, variant) = <<>>
             <=> Len(order) = 0 \/ variant % 2 # 0
<1> DEFINE n == Len(order)
           value(slot) ==
               FirstDifferent(storage[slot],
                   <<GenerateStepBasedStorageValueFromCall(
                         storage[slot], Pick(StorageSteps, variant), variant)>>,
                   ForceStorageValueChange(storage[slot], variant))
           taken(before, slot) ==
               LET count == Cardinality(DOMAIN before)
               IN  IF /\ count < MaxMutations
                      /\ (variant + count) % 2 = 0
                      /\ value(slot) # storage[slot]
                   THEN [s \in DOMAIN before \cup {slot} |->
                            IF s = slot THEN value(slot) ELSE before[s]]
                   ELSE before
           Unrolled(f, m) == [k \in 0..m |-> IF k = 0 THEN <<>> ELSE taken(f[k - 1], order[k])]
           changes == CHOOSE f : f = Unrolled(f, n)
<1>1. \A slot : value(slot) # storage[slot]
    <2> SUFFICES ASSUME NEW slot PROVE value(slot) # storage[slot]
        OBVIOUS
    <2> DEFINE v == ForceStorageValueChange(storage[slot], variant)
               new == GenerateStepBasedStorageValueFromCall(
                          storage[slot], Pick(StorageSteps, variant), variant)
               attempts == <<BigToHash(storage[slot] + variant + 1),
                             BigToHash(storage[slot] - (variant + 1)),
                             Xor(storage[slot], variant + 1), BigToHash(variant + 42)>>
               otherwise == IF storage[slot] = 0 THEN 1 ELSE 0
    <2>1. DOMAIN attempts \in SUBSET Nat /\ otherwise # storage[slot]
        OBVIOUS
    <2>2. v = FirstDifferent(storage[slot], attempts, otherwise)
        BY DEF ForceStorageValueChange
    <2> HIDE DEF attempts, otherwise
    <2>3. v # storage[slot]
        BY <2>1, <2>2, Differs
    <2>4. DOMAIN <<new>> \in SUBSET Nat
        OBVIOUS
    <2> HIDE DEF v, new
    <2>5. FirstDifferent(storage[slot], <<new>>, v) # storage[slot]
        BY <2>3, <2>4, Differs
    <2> QED
        BY <2>5 DEF v, new
<1>2. GenerateStepBasedStorageChangesFromCall(storage, order, variant) = changes[n]
    BY DEF GenerateStepBasedStorageChangesFromCall
<1> HIDE DEF value
<1>3. changes = Unrolled(changes, n)
    <2> DEFINE Good(f, m) == f = Unrolled(f, m)
               Bad == {m \in Nat : m <= n /\ ~(\E f : Good(f, m))}
    <2> HIDE DEF Good
    <2>1. Bad = {}
        <3> SUFFICES ASSUME Bad # {} PROVE FALSE
            OBVIOUS
        <3>1. PICK m \in Bad : \A k \in Bad : m <= k
            BY LeastNumber
        <3>2. m \in Nat /\ m <= n /\ ~(\E f : Good(f, m))
            BY <3>1
        <3>3. m # 0
            <4> DEFINE e == [k \in {0} |-> <<>>]
            <4> HIDE DEF taken
            <4>1. e = Unrolled(e, 0)
                OBVIOUS
            <4>2. Good(e, 0)
                BY <4>1 DEF Good
            <4> QED
                BY <3>2, <4>2
        <3>4. m - 1 \in Nat /\ m - 1 <= n /\ ~(m <= m - 1)
            BY <3>2, <3>3
        <3>5. m - 1 \notin Bad
            BY <3>1, <3>4
        <3>6. PICK f : Good(f, m - 1)
            BY <3>4, <3>5
        <3> DEFINE g == [k \in 0..m |-> IF k = 0 THEN <<>> ELSE taken(f[k - 1], order[k])]
        <3> HIDE DEF taken
        <3>7. ASSUME NEW k \in 0..m, k # 0 PROVE g[k - 1] = f[k - 1]
            <4>1. k - 1 \in 0..(m - 1) /\ k - 1 \in 0..m
                BY <3>2, <3>7
            <4>2. f = [j \in 0..(m - 1) |-> IF j = 0 THEN <<>> ELSE taken(f[j - 1], order[j])]
                BY <3>6 DEF Good
            <4>3. f[k - 1] = IF k - 1 = 0 THEN <<>> ELSE taken(f[(k - 1) - 1], order[k - 1])
                BY <4>1, <4>2
            <4> QED
                BY <4>1, <4>3
        <3>8. g = Unrolled(g, m)
            BY <3>7
        <3> HIDE DEF g
        <3>9. Good(g, m)
            BY <3>8 DEF Good
        <3> QED
            BY <3>2, <3>9
    <2>2. \E f : Good(f, n)
        BY <2>1
    <2>3. \E f : f = Unrolled(f, n)
        BY <2>2 DEF Good
    <2> HIDE DEF taken
    <2> QED
        BY <2>3
<1> HIDE DEF changes
<1>4. \A before, slot :
          /\ DOMAIN before = {} => (taken(before, slot) = before <=> variant % 2 # 0)
          /\ DOMAIN before # {} => DOMAIN taken(before, slot) # {}
          /\ variant % 2 = 0 => DOMAIN taken(before, slot) # {}
    <2> SUFFICES ASSUME NEW before, NEW slot
                 PROVE  /\ DOMAIN before = {} => (taken(before, slot) = before <=> variant % 2 # 0)
                        /\ DOMAIN before # {} => DOMAIN taken(before, slot) # {}
                        /\ variant % 2 = 0 => DOMAIN taken(before, slot) # {}
        OBVIOUS
    <2> DEFINE more == [s \in DOMAIN before \cup {slot} |->
                          IF s = slot THEN value(slot) ELSE before[s]]
    <2>1. DOMAIN more = DOMAIN before \cup {slot}
        OBVIOUS
    <2>2. taken(before, slot) = more \/ taken(before, slot) = before
        OBVIOUS
    <2>3. CASE DOMAIN before # {}
        BY <2>1, <2>2, <2>3
    <2>4. CASE DOMAIN before = {}
        <3>1. Cardinality(DOMAIN before) = 0
            BY <2>4, FS_EmptySet
        <3>2. taken(before, slot) = IF variant % 2 = 0 THEN more ELSE before
            BY <1>1, <3>1 DEF MaxMutations
        <3> QED
            BY <2>1, <2>4, <3>2
    <2> QED
        BY <2>3, <2>4
<1> HIDE DEF taken
<1>5. CASE n = 0
    BY <1>2, <1>3, <1>5
<1>6. CASE n # 0 /\ variant % 2 = 0
    <2>0. n \in 0..n
        OBVIOUS
    <2>1. changes[n] = taken(changes[n - 1], order[n])
        <3> HIDE DEF n
        <3> QED
            BY <1>3, <1>6, <2>0
    <2>2. DOMAIN changes[n] # {}
        BY <1>4, <1>6, <2>1
    <2>3. DOMAIN <<>> = {}
        OBVIOUS
    <2> QED
        BY <1>2, <1>6, <2>2, <2>3
<1>7. CASE n # 0 /\ variant % 2 # 0
    <2> DEFINE Full == {k \in Nat : k <= n /\ changes[k] # <<>>}
    <2>1. Full = {}
        <3> SUFFICES ASSUME Full # {} PROVE FALSE
            OBVIOUS
        <3>1. PICK k \in Full : \A j \in Full : k <= j
            BY LeastNumber
        <3>2. k \in 0..n
            BY <3>1
        <3>3. k # 0
            BY <1>3, <3>1, <3>2
        <3>4. k - 1 \notin Full /\ k - 1 \in 0..n
            BY <3>1, <3>2, <3>3
        <3>5. changes[k - 1] = <<>>
            BY <3>4
        <3>6. changes[k] = taken(changes[k - 1], order[k])
            BY <1>3, <3>2, <3>3
        <3>7. DOMAIN <<>> = {}
            OBVIOUS
        <3> QED
            BY <1>4, <1>7, <3>1, <3>5, <3>6, <3>7
    <2>2. changes[n] = <<>>
        BY <2>1
    <2> QED
        BY <1>2, <1>7, <2>2
<1> QED
    BY <1>5, <1>6, <1>7

\* The input of a candidate: of the storage it matters only if any slot changes.
LEMMA StepCandidateInput ==
    ASSUME NEW input, NEW newInput, NEW variant, NEW s1, NEW s2, NEW f1, NEW f2,
           s1 = <<>> <=> s2 = <<>>, f1.input = f2.input
    PROVE  StepCandidate(input, newInput, s1, variant, f1).input
             = StepCandidate(input, newInput, s2, variant, f2).input
<1> DEFINE inputPart == IF variant % 3 = 1 \/ newInput = input THEN NoInput ELSE newInput
           type == <<"input_step", "storage_step", "both_step">>[(variant % 3) + 1]
<1>1. ASSUME NEW s, NEW f
      PROVE  StepCandidate(input, newInput, s, variant, f).input =
                 IF inputPart = NoInput /\ (variant % 3 = 0 \/ s = <<>>)
                 THEN f.input ELSE inputPart
    <2> DEFINE storagePart == IF variant % 3 = 0 THEN <<>> ELSE s
    <2>1. StepCandidate(input, newInput, s, variant, f) =
              IF inputPart = NoInput /\ storagePart = <<>> THEN f
              ELSE Candidate(inputPart, storagePart, type)
        BY DEF StepCandidate
    <2> HIDE DEF inputPart, type
    <2>2. Candidate(inputPart, storagePart, type).input = inputPart
        BY DEF Candidate
    <2>3. storagePart = <<>> <=> variant % 3 = 0 \/ s = <<>>
        OBVIOUS
    <2> QED
        BY <2>1, <2>2, <2>3
<1> HIDE DEF inputPart
<1> QED
    BY <1>1

LEMMA ForcedInput ==
    ASSUME NEW input, NEW newInput, NEW s1, NEW s2, NEW v1, NEW v2
    PROVE  Forced(input, newInput, s1, v1).input = Forced(input, newInput, s2, v2).input
<1>1. ASSUME NEW s, NEW v
      PROVE  Forced(input, newInput, s, v).input = IF newInput # input THEN newInput ELSE NoInput
    <2>1. CASE newInput # input
        BY <2>1 DEF Forced, Candidate
    <2>2. CASE newInput = input /\ s # <<>>
        BY <2>2 DEF Forced, Candidate
    <2>3. CASE newInput = input /\ s = <<>>
        BY <2>3 DEF Forced, Candidate
    <2> QED
        BY <2>1, <2>2, <2>3
<1> QED
    BY <1>1

\* Neither the order in which the map gives the slots nor the batch shows in a
\* candidate's input.
LEMMA OrderIrrelevant ==
    ASSUME attack \in Attacks, NEW o1 \in Orders(attack.storage),
           NEW o2 \in Orders(attack.storage), NEW first1, NEW first2,
           NEW size1 \in Nat, NEW size2 \in Nat, NEW i \in 1..size1, i \in 1..size2
    PROVE  BatchCandidates(o1, first1, size1)[i].input = BatchCandidates(o2, first2, size2)[i].input
<1> DEFINE storage == attack.storage
           n == Cardinality(DOMAIN storage)
           variant == i - 1
<1>0. IsFiniteSet(DOMAIN storage)
    BY CollectionAssumption
<1>1. n \in Nat /\ variant \in Nat
    BY <1>0, FS_CardinalityType
<1>2. o1 \in [1..n -> DOMAIN storage] /\ o2 \in [1..n -> DOMAIN storage]
    BY DEF Orders, SetToSeqs
<1> HIDE DEF n, variant
<1>3. Len(o1) = n /\ Len(o2) = n
    BY <1>1, <1>2
<1>4. CASE ExtractedCall # NoInput
    <2> DEFINE call == ExtractedCall
               changed(o) == GenerateStepBasedStorageChangesFromCall(storage, o, variant)
               forced(o) == ForceValidModificationFromCall(call, storage, o, variant)
               new == GenerateStepBasedInputDataFromCall(call, variant)
    <2>1. changed(o1) = <<>> <=> changed(o2) = <<>>
        BY <1>1, <1>3, ChangesFromCall
    <2>2. forced(o1).input = forced(o2).input
        BY ForcedInput DEF ForceValidModificationFromCall
    <2>3. /\ BatchCandidates(o1, first1, size1)[i] =
                StepCandidate(call, new, changed(o1), variant, forced(o1))
          /\ BatchCandidates(o2, first2, size2)[i] =
                StepCandidate(call, new, changed(o2), variant, forced(o2))
        BY <1>4 DEF BatchCandidates, CandidateFromCall, variant
    <2> HIDE DEF call, changed, forced, new
    <2> QED
        BY <2>1, <2>2, <2>3, StepCandidateInput
<1>5. CASE ExtractedCall = NoInput
    <2> DEFINE call == attack.input
               changed(o) == GenerateStepBasedStorageChanges(storage, o, variant)
               forced(o) == ForceValidModification(call, storage, o, variant)
               new == GenerateStepBasedInputData(call, variant)
    <2>1. changed(o1) = <<>> <=> changed(o2) = <<>>
        <3>1. ASSUME NEW o PROVE changed(o) = <<>> <=> DOMAIN storage = {}
            <4>1. DOMAIN changed(o) = DOMAIN storage
                BY DEF GenerateStepBasedStorageChanges
            <4>2. \E e : changed(o) = [slot \in DOMAIN storage |-> e[slot]]
                <5>1. changed(o) = [slot \in DOMAIN storage |-> changed(o)[slot]]
                    BY DEF GenerateStepBasedStorageChanges
                <5> HIDE DEF changed
                <5> QED
                    BY <5>1
            <4> HIDE DEF changed
            <4>3. DOMAIN <<>> = {}
                OBVIOUS
            <4>4. CASE DOMAIN storage = {}
                BY <4>2, <4>4
            <4>5. CASE DOMAIN storage # {}
                BY <4>1, <4>3, <4>5
            <4> QED
                BY <4>4, <4>5
        <3> HIDE DEF changed
        <3> QED
            BY <3>1
    <2>2. forced(o1).input = forced(o2).input
        BY ForcedInput DEF ForceValidModification
    <2>3. /\ BatchCandidates(o1, first1, size1)[i] =
                StepCandidate(call, new, changed(o1), variant, forced(o1))
          /\ BatchCandidates(o2, first2, size2)[i] =
                StepCandidate(call, new, changed(o2), variant, forced(o2))
        BY <1>5 DEF BatchCandidates, CandidateFromTransaction, variant
    <2> HIDE DEF call, changed, forced, new
    <2> QED
        BY <2>1, <2>2, <2>3, StepCandidateInput
<1> QED
    BY <1>4, <1>5

\* The input of candidate i of any batch.
BatchInput(i) ==
    BatchCandidates(CHOOSE order \in Orders(attack.storage) : TRUE, 0, BatchSize)[i].input

\* A batch is as large as it can be and starts at a multiple of the batch size.
RepeatInv ==
    /\ Len(mutations) # TotalCandidates => Len(mutations) % BatchSize = 0
    /\ stage = "batch" => Len(candidates) = Least(BatchSize, TotalCandidates - Len(mutations))
    /\ \A i \in 1..Len(candidates) : candidates[i].input = BatchInput(i)
    /\ \A i \in 1..Len(mutations) : mutations[i].input = BatchInput(((i - 1) % BatchSize) + 1)

LEMMA BatchInputStays ==
    ASSUME attack' = attack
    PROVE  \A i : BatchInput(i)' = BatchInput(i)
<1>1. ExtractedCall' = ExtractedCall
    BY DEF ExtractedCall
<1>2. \A o, f, n : BatchCandidates(o, f, n)' = BatchCandidates(o, f, n)
    BY <1>1 DEF BatchCandidates
<1> QED
    BY <1>2 DEF BatchInput

LEMMA InitRepeatInv == CollectInit => RepeatInv
<1> SUFFICES ASSUME CollectInit PROVE RepeatInv
    OBVIOUS
<1>1. Len(mutations) = 0 /\ Len(candidates) = 0 /\ stage = "fetch"
    BY DEF CollectInit
<1>2. 0 % BatchSize = 0
    BY Remainders, CollectionAssumption
<1> QED
    BY <1>1, <1>2 DEF RepeatInv

LEMMA GenerateRepeats == ASSUME CollectInv, RepeatInv, GenerateBatch PROVE RepeatInv'
<1>0. BatchSize \in Nat \ {0} /\ TotalCandidates \in Nat
    BY CollectionAssumption
<1> DEFINE size == Least(BatchSize, TotalCandidates - Len(mutations))
<1>1. /\ attack' = attack /\ mutations' = mutations /\ size > 0
      /\ \E order \in Orders(attack.storage) :
            candidates' = BatchCandidates(order, Len(mutations), size)
    BY DEF GenerateBatch
<1>2. PICK order \in Orders(attack.storage) :
          candidates' = BatchCandidates(order, Len(mutations), size)
    BY <1>1
<1>3. attack \in Attacks /\ Len(mutations) \in Nat
    BY SeqOfElements DEF CollectInv, TypeInv, IsSeq
<1>4. size \in Nat /\ size <= BatchSize
    BY <1>0, <1>1, <1>3 DEF Least
<1> HIDE DEF size
<1>5. Len(candidates') = size
    <2>1. candidates' = [i \in 1..size |-> candidates'[i]]
        BY <1>2 DEF BatchCandidates
    <2> QED
        BY <1>4, <2>1, FunctionIsSeq
<1>6. (CHOOSE o \in Orders(attack.storage) : TRUE) \in Orders(attack.storage)
    BY <1>2
<1>7. \A i \in 1..size : candidates'[i].input = BatchInput(i)
    <2> SUFFICES ASSUME NEW i \in 1..size PROVE candidates'[i].input = BatchInput(i)
        OBVIOUS
    <2>1. i \in 1..BatchSize
        BY <1>0, <1>4
    <2> DEFINE other == CHOOSE o \in Orders(attack.storage) : TRUE
    <2>2. other \in Orders(attack.storage)
        BY <1>6
    <2>3. BatchInput(i) = BatchCandidates(other, 0, BatchSize)[i].input
        BY DEF BatchInput
    <2> HIDE DEF other
    <2>4. BatchCandidates(order, Len(mutations), size)[i].input
            = BatchCandidates(other, 0, BatchSize)[i].input
        BY <1>0, <1>3, <1>4, <2>1, <2>2, OrderIrrelevant
    <2> QED
        BY <1>2, <2>3, <2>4
<1>8. \A i : BatchInput(i)' = BatchInput(i)
    BY <1>1, BatchInputStays
<1>9. size' = size
    BY <1>1 DEF size
<1> QED
    BY <1>1, <1>5, <1>7, <1>8, <1>9 DEF RepeatInv, size

LEMMA CollectRepeats == ASSUME CollectInv, RepeatInv, CollectBatch PROVE RepeatInv'
<1> USE CollectionAssumption
<1> DEFINE n == Len(candidates)
           m == Len(mutations)
           result(r) == [input |-> candidates[r].input, storage |-> candidates[r].storage,
                         success |-> runs[r].success, similarity |-> runs[r].similarity,
                         path |-> runs[r].path, mixed |-> r \in mixed]
           batch == [r \in 1..n |-> result(r)]
<1>1. /\ stage = "batch" /\ stage' = "generate" /\ candidates' = <<>>
      /\ mutations' = mutations \o batch /\ attack' = attack
    BY DEF CollectBatch
<1>2. /\ IsSeq(mutations) /\ m \in Nat /\ n \in Nat /\ n <= BatchSize
      /\ m + n <= TotalCandidates /\ n = Least(BatchSize, TotalCandidates - m)
    BY <1>1, SeqOfElements DEF CollectInv, TypeInv, CountInv, RepeatInv, IsSeq
<1>3. \A r \in 1..n : batch[r].input = BatchInput(r)
    BY DEF RepeatInv
<1>4. IsSeq(batch) /\ Len(batch) = n
    <2>1. batch = [i \in 1..n |-> batch[i]]
        OBVIOUS
    <2> HIDE DEF batch
    <2> QED
        BY <1>2, <2>1, FunctionIsSeq
<1> HIDE DEF batch
<1>5. /\ Len(mutations') = m + n
      /\ \A i \in 1..m : mutations'[i] = mutations[i]
      /\ \A r \in 1..n : mutations'[m + r] = batch[r]
    <2>1. /\ Len(mutations \o batch) = m + Len(batch)
          /\ \A i \in 1..m : (mutations \o batch)[i] = mutations[i]
          /\ \A r \in 1..Len(batch) : (mutations \o batch)[m + r] = batch[r]
        BY <1>2, <1>4, Concatenated
    <2> HIDE DEF m, n
    <2> QED
        BY <1>1, <1>4, <2>1, Zenon
<1>6. m # TotalCandidates => m % BatchSize = 0
    BY DEF RepeatInv
<1>7. \A i \in 1..m : mutations[i].input = BatchInput(((i - 1) % BatchSize) + 1)
    BY DEF RepeatInv
<1>8. \A i : BatchInput(i)' = BatchInput(i)
    BY <1>1, BatchInputStays
<1> HIDE DEF m, n
<1>9. m + n # TotalCandidates => (m + n) % BatchSize = 0
    <2>1. m + n # TotalCandidates => n = BatchSize /\ m # TotalCandidates
        BY <1>2 DEF Least
    <2> QED
        BY <1>2, <1>6, <2>1, Remainders
<1>10. \A i \in 1..(m + n) : mutations'[i].input = BatchInput(((i - 1) % BatchSize) + 1)
    <2> SUFFICES ASSUME NEW i \in 1..(m + n)
                 PROVE  mutations'[i].input = BatchInput(((i - 1) % BatchSize) + 1)
        OBVIOUS
    <2>1. CASE i \in 1..m
        BY <1>5, <1>7, <2>1
    <2>2. CASE i \notin 1..m
        <3>1. PICK r \in 1..n : i = m + r
            <4>1. i - m \in 1..n /\ i = m + (i - m)
                BY <1>2, <2>2
            <4> QED
                BY <4>1
        <3>2. m % BatchSize = 0 /\ r - 1 \in 0..(BatchSize - 1) /\ i - 1 = m + (r - 1)
            <4>1. m # TotalCandidates
                BY <1>2, <3>1
            <4> QED
                BY <1>2, <1>6, <3>1, <4>1
        <3>3. (i - 1) % BatchSize = r - 1
            <4>1. \A q \in 0..(BatchSize - 1) : (m + q) % BatchSize = q
                BY <1>2, <3>2, Remainders, Zenon
            <4> QED
                BY <3>2, <4>1, Zenon
        <3>4. mutations'[i].input = BatchInput(r)
            BY <1>3, <1>5, <3>1
        <3>5. ((i - 1) % BatchSize) + 1 = r
            BY <3>1, <3>3
        <3> QED
            BY <3>4, <3>5
    <2> QED
        BY <2>1, <2>2
<1>11. Len(candidates') = 0
    BY <1>1
<1> QED
    BY <1>1, <1>5, <1>8, <1>9, <1>10, <1>11 DEF RepeatInv

LEMMA NextRepeatInv == CollectInv /\ RepeatInv /\ [CollectNext]_collectVars => RepeatInv'
<1> SUFFICES ASSUME CollectInv, RepeatInv, [CollectNext]_collectVars PROVE RepeatInv'
    OBVIOUS
<1>1. CASE GenerateBatch
    BY <1>1, GenerateRepeats
<1>2. CASE CollectBatch
    BY <1>2, CollectRepeats
<1>3. CASE ~GenerateBatch /\ ~CollectBatch
    <2>1. /\ attack' = attack /\ candidates' = candidates /\ mutations' = mutations
          /\ stage' = "batch" => stage = "batch"
        BY <1>3
           DEF CollectNext, Fetch, FetchFails, OriginalDone, CollectionDone, Execution, SetTarget,
               ExecutionFails, Trace, Call, EVMStep, ReturnPath, Measure, CollectEnds,
               collectVars, KeepCollection
    <2>2. \A i : BatchInput(i)' = BatchInput(i)
        BY <2>1, BatchInputStays
    <2> QED
        BY <2>1, <2>2 DEF RepeatInv
<1> QED
    BY <1>1, <1>2, <1>3
-----------------------------------------------------------------------------
(* What a lone execution records                                           *)

\* What an execution that overlaps no other records of a candidate.  Without
\* input data there is no target call, so the tracer keeps the target it had
\* and the depth it was entered at, and records nothing; and in a transaction
\* that reaches the protected contract through another one, the mutated input
\* never runs, and the first call to the contract is recorded even if it is not
\* the extracted one.
LonePath(m) ==
    LET jump(c) == <<c.to, Branch(c.input)>>
        reached == {k \in DOMAIN attack.calls : attack.calls[k].to = Protected}
    IN  IF m.input = NoInput THEN <<>>
        ELSE IF ExtractedCall = NoInput \/ attack.to = Protected
        THEN [k \in 1..Len(attack.calls) |-> jump(attack.calls[k])]
               \o <<jump([to |-> attack.to, input |-> m.input])>>
        ELSE <<jump(attack.calls[Min(reached)])>>

\* Whether the top call of a candidate goes to the contract its target is.
Direct == ExtractedCall = NoInput \/ attack.to = Protected
Own(r) == Len(mutations) + r + 1
Begun == {"started", "running", "returned", "stopped", "measured"}
CallsTo(contract) == {j \in 1..Len(attack.calls) : attack.calls[j].to = contract}

\* Executions that overlap are known to.
OverlapInv ==
    \A r, q \in Executions : r # q /\ Inside(r) /\ Inside(q) => r \in mixed

\* An execution that has its target's frame before it.
Ahead(r) ==
    /\ TargetCalls(r) # <<>>
    /\ \/ runs[r].at \in {"targeted", "started"}
       \/ /\ runs[r].at = "running"
          /\ \/ runs[r].hook = 1 /\ attack.to = tracer.target
             \/ \E j \in CallsTo(tracer.target) : runs[r].hook <= 3 * j - 1

\* The transaction calls the tracer's target.
ReachesTarget ==
    /\ tracer.target # NoContract
    /\ attack.to = tracer.target \/ CallsTo(tracer.target) # {}

\* The tracer between executions: it records nothing, and a target that can be
\* reached was.
RestInv ==
    /\ tracer.recording => tracer.targetDepth # -1
    /\ (\A r \in Executions : runs[r].at # "running") => ~tracer.recording /\ tracer.depth = 0
    /\ stage \in {"generate", "batch"} => tracer.target # NoContract
    /\ runs[Original].at \in {"targeted", "started", "running", "returned", "stopped"}
          => tracer.target # NoContract
    /\ tracer.targetDepth = -1 /\ ReachesTarget => \E r \in Executions : Ahead(r)

\* A path that no execution of the batch has started on is empty, and the tracer
\* is on none that was collected.
PathInv ==
    /\ stage \in {"fetch", "original"} => Len(mutations) = 0
    /\ \A p \in 0..(TotalCandidates + 1) : p > Len(mutations) + 1 =>
          \/ paths[p] = <<>> /\ tracer.path # p
          \/ \E r \in 1..Len(candidates) : p = Own(r) /\ runs[r].at \in Begun
    /\ stage = "batch" /\ (\E r \in Executions : runs[r].at \in Live)
          => tracer.path > Len(mutations) + 1

\* The jumps of all frames that come before hook number k are n.
TakenBefore(k, n) ==
    \/ k < HookCount /\ 3 * n < k /\ k <= 3 * n + 3
    \/ k = HookCount /\ n = Len(attack.calls) + 1
IsFront(s, t) == Len(s) <= Len(t) /\ \A i \in 1..Len(s) : s[i] = t[i]

\* What an execution that overlaps no other has recorded, and what the tracer is
\* about to record of it: without input nothing, ...
RecordsNothing(r) ==
    /\ ~tracer.recording
    /\ runs[r].at \in Live => paths[Own(r)] = <<>>

\* ... every frame if the top call goes to the target, ...
RecordsAll(r) ==
    /\ runs[r].at \in {"targeted", "started"} =>
          tracer.target = attack.to /\ tracer.targetDepth = -1 /\ ~tracer.recording
    /\ runs[r].at = "started" => paths[Own(r)] = <<>>
    /\ runs[r].at = "running" =>
          /\ tracer.recording /\ tracer.targetDepth = 0
          /\ IsSeq(paths[Own(r)]) /\ TakenBefore(runs[r].hook, Len(paths[Own(r)]))
          /\ IsFront(paths[Own(r)], LonePath(candidates[r]))
    /\ runs[r].at = "returned" => paths[Own(r)] = LonePath(candidates[r])

\* ... and else the first frame of the protected contract.
FirstEnter == 3 * Min(CallsTo(Protected)) - 1
Untouched == tracer.target = Protected /\ tracer.targetDepth = -1 /\ ~tracer.recording
RecordsFirst(r) ==
    /\ runs[r].at = "targeted" => Untouched
    /\ runs[r].at = "started" => Untouched /\ paths[Own(r)] = <<>>
    /\ runs[r].at = "running" =>
          \/ runs[r].hook <= FirstEnter /\ Untouched /\ paths[Own(r)] = <<>>
          \/ /\ runs[r].hook = FirstEnter + 1 /\ paths[Own(r)] = <<>>
             /\ tracer.recording /\ tracer.targetDepth = 1
          \/ /\ runs[r].hook = FirstEnter + 2 /\ paths[Own(r)] = LonePath(candidates[r])
             /\ tracer.recording /\ tracer.targetDepth = 1
          \/ /\ runs[r].hook > FirstEnter + 2 /\ paths[Own(r)] = LonePath(candidates[r])
             /\ ~tracer.recording /\ tracer.targetDepth = 1
    /\ runs[r].at = "returned" => paths[Own(r)] = LonePath(candidates[r])

Records(r) ==
    /\ runs[r].at \in Live => tracer.active /\ tracer.path = Own(r)
    /\ candidates[r].input = NoInput => RecordsNothing(r)
    /\ candidates[r].input # NoInput /\ Direct => RecordsAll(r)
    /\ candidates[r].input # NoInput /\ ~Direct => RecordsFirst(r)
LoneInv == \A r \in 1..Len(candidates) : Inside(r) /\ r \notin mixed => Records(r)

\* The path of an execution that overlapped no other stays what it recorded.
Done(r) ==
    /\ runs[r].path = Own(r) /\ paths[Own(r)] = LonePath(candidates[r])
    /\ \A q \in Executions : runs[q].at \in Live => tracer.path # Own(r)
DoneInv ==
    /\ \A r \in 1..Len(candidates) :
          runs[r].at \in {"stopped", "measured"} /\ runs[r].path # 0 /\ r \notin mixed => Done(r)
    /\ \A i \in 1..Len(mutations) : mutations[i].success /\ ~mutations[i].mixed =>
          mutations[i].path = i + 1 /\ paths[i + 1] = LonePath(mutations[i])

MeasureInv == OverlapInv /\ RestInv /\ PathInv /\ LoneInv /\ DoneInv

\* What is said of the attack and the batch does not change with an execution.
LEMMA BatchStays ==
    ASSUME attack' = attack, candidates' = candidates, mutations' = mutations
    PROVE  /\ Direct' <=> Direct
           /\ HookCount' = HookCount /\ FirstEnter' = FirstEnter
           /\ \A r : Own(r)' = Own(r)
           /\ \A c : CallsTo(c)' = CallsTo(c)
           /\ \A r : TargetCalls(r)' = TargetCalls(r)
           /\ \A m : LonePath(m)' = LonePath(m)
<1>1. ExtractedCall' = ExtractedCall
    BY DEF ExtractedCall
<1>2. (Direct' <=> Direct) /\ HookCount' = HookCount /\ \A r : Own(r)' = Own(r)
    BY <1>1 DEF Direct, HookCount, Own
<1>3. \A c : CallsTo(c)' = CallsTo(c)
    BY DEF CallsTo
<1>4. FirstEnter' = FirstEnter
    BY <1>3 DEF FirstEnter
<1>5. \A r : TargetCalls(r)' = TargetCalls(r)
    BY <1>1 DEF TargetCalls
<1>6. \A m : LonePath(m)' = LonePath(m)
    BY <1>1 DEF LonePath
<1> QED
    BY <1>2, <1>3, <1>4, <1>5, <1>6

\* Which call of a candidate is intercepted, and with which input it runs.
LEMMA CandidateCalls ==
    ASSUME NEW r \in Nat \ {0}
    PROVE  /\ candidates[r].input = NoInput => TargetCalls(r) = <<>> /\ ~Intercepted(r)
           /\ candidates[r].input # NoInput => TargetCalls(r) # <<>>
           /\ candidates[r].input # NoInput /\ Direct =>
                 /\ DOMAIN TargetCalls(r) = {attack.to} /\ Intercepted(r)
                 /\ EffectiveInput(r) = candidates[r].input
           /\ candidates[r].input # NoInput /\ ~Direct =>
                 DOMAIN TargetCalls(r) = {Protected} /\ ~Intercepted(r)
<1>0. r # Original /\ DOMAIN <<>> = {}
    BY DEF Original
<1> DEFINE input == candidates[r].input
           target == IF ExtractedCall # NoInput THEN Protected ELSE attack.to
<1>1. CASE input = NoInput
    <2>1. TargetCalls(r) = <<>>
        BY <1>0, <1>1 DEF TargetCalls
    <2> QED
        BY <1>0, <1>1, <2>1 DEF Intercepted
<1>2. CASE input # NoInput
    <2>1. TargetCalls(r) = [c \in {target} |-> input]
        BY <1>0, <1>2 DEF TargetCalls
    <2>2. Direct => target = attack.to
        BY DEF Direct
    <2>3. ~Direct => target = Protected /\ attack.to # Protected
        BY DEF Direct
    <2> HIDE DEF target, input
    <2>4. DOMAIN TargetCalls(r) = {target} /\ TargetCalls(r)[target] = input
        BY <2>1
    <2>5. TargetCalls(r) # <<>>
        BY <1>0, <2>4
    <2>6. Direct => Intercepted(r) /\ EffectiveInput(r) = input
        BY <1>2, <2>2, <2>4 DEF Intercepted, EffectiveInput
    <2>7. ~Direct => DOMAIN TargetCalls(r) = {Protected} /\ ~Intercepted(r)
        BY <2>3, <2>4 DEF Intercepted
    <2> QED
        BY <1>2, <2>2, <2>4, <2>5, <2>6, <2>7 DEF input
<1> QED
    BY <1>1, <1>2

\* A set of numbers has the least one that Min names.
LEMMA LeastIs ==
    ASSUME NEW T \in SUBSET Nat, T # {}
    PROVE  Min(T) \in T /\ \A i \in T : Min(T) <= i
<1>1. \E i \in T : \A k \in T : i <= k
    BY LeastNumber
<1> QED
    BY <1>1 DEF Min

\* A transaction from which a call was extracted, and that does not go to the
\* protected contract itself, calls it.
LEMMA FirstCall ==
    ASSUME attack \in Attacks, ~Direct
    PROVE  /\ Min(CallsTo(Protected)) \in 1..Len(attack.calls)
           /\ attack.calls[Min(CallsTo(Protected))].to = Protected
           /\ \A j \in CallsTo(Protected) : Min(CallsTo(Protected)) <= j
           /\ attack.to # Protected
<1> DEFINE calls == attack.calls
           top == <<[to |-> attack.to, input |-> attack.input]>>
           frames == top \o calls
           found == {k \in DOMAIN frames : frames[k].to = Protected /\ frames[k].input # <<>>}
<1>1. calls \in Seq({calls[k] : k \in 1..Len(calls)})
    BY CollectionAssumption
<1>2. IsSeq(calls) /\ Len(calls) \in Nat
    BY <1>1, SeqOfElements
<1>3. IsSeq(top) /\ Len(top) = 1 /\ top[1].to = attack.to
    BY DEF IsSeq, Elements
<1>4. attack.to # Protected /\ found # {}
    BY DEF Direct, ExtractedCall
<1> HIDE DEF calls, top
<1>5. /\ IsSeq(frames) /\ Len(frames) = 1 + Len(calls) /\ frames[1].to = attack.to
      /\ \A j \in 1..Len(calls) : frames[1 + j] = calls[j]
    <2>1. /\ IsSeq(top \o calls) /\ Len(top \o calls) = Len(top) + Len(calls)
          /\ \A i \in 1..Len(top) : (top \o calls)[i] = top[i]
          /\ \A j \in 1..Len(calls) : (top \o calls)[Len(top) + j] = calls[j]
        <3>1. IsSeq(top) /\ IsSeq(calls)
            BY <1>2, <1>3
        <3> QED
            BY <3>1, Concatenated
    <2>2. (top \o calls)[1] = top[1]
        BY <1>3, <2>1
    <2> QED
        BY <1>3, <2>1, <2>2
<1>6. PICK k \in DOMAIN frames : frames[k].to = Protected
    BY <1>4
<1> HIDE DEF frames
<1>7. k \in 1..(1 + Len(calls)) /\ k # 1
    <2>1. DOMAIN frames = 1..Len(frames)
        BY <1>5 DEF IsSeq
    <2> QED
        BY <1>4, <1>5, <1>6, <2>1
<1>8. k - 1 \in 1..Len(calls) /\ calls[k - 1].to = Protected
    <2>1. k - 1 \in 1..Len(calls) /\ 1 + (k - 1) = k
        BY <1>2, <1>7
    <2> QED
        BY <1>5, <1>6, <2>1
<1>9. CallsTo(Protected) \in SUBSET Nat /\ CallsTo(Protected) # {}
    BY <1>2, <1>8 DEF CallsTo, calls
<1>10. /\ Min(CallsTo(Protected)) \in CallsTo(Protected)
       /\ \A j \in CallsTo(Protected) : Min(CallsTo(Protected)) <= j
    BY <1>9, LeastIs
<1> QED
    BY <1>4, <1>10 DEF CallsTo

\* The path of a lone execution, jump by jump.
LEMMA LonePathIs ==
    ASSUME attack \in Attacks, NEW m
    PROVE  LET n == Len(attack.calls)
               jump(c) == <<c.to, Branch(c.input)>>
           IN  /\ m.input = NoInput => LonePath(m) = <<>>
               /\ m.input # NoInput /\ Direct =>
                     /\ IsSeq(LonePath(m)) /\ Len(LonePath(m)) = n + 1
                     /\ \A j \in 1..n : LonePath(m)[j] = jump(attack.calls[j])
                     /\ LonePath(m)[n + 1] = <<attack.to, Branch(m.input)>>
               /\ m.input # NoInput /\ ~Direct =>
                     LonePath(m) = <<jump(attack.calls[Min(CallsTo(Protected))])>>
<1> DEFINE n == Len(attack.calls)
           jump(c) == <<c.to, Branch(c.input)>>
           frames == [j \in 1..n |-> jump(attack.calls[j])]
           last == <<<<attack.to, Branch(m.input)>>>>
<1>1. /\ n \in Nat /\ DOMAIN attack.calls = 1..n
    <2>1. attack.calls \in Seq({attack.calls[k] : k \in 1..Len(attack.calls)})
        BY CollectionAssumption
    <2> QED
        BY <2>1
<1>2. m.input = NoInput => LonePath(m) = <<>>
    BY DEF LonePath
<1>3. ASSUME m.input # NoInput, Direct
      PROVE  /\ IsSeq(LonePath(m)) /\ Len(LonePath(m)) = n + 1
             /\ \A j \in 1..n : LonePath(m)[j] = jump(attack.calls[j])
             /\ LonePath(m)[n + 1] = <<attack.to, Branch(m.input)>>
    <2>1. LonePath(m) = frames \o last
        BY <1>3 DEF LonePath, Direct
    <2>2. IsSeq(frames) /\ Len(frames) = n
        <3>1. frames = [j \in 1..n |-> frames[j]]
            OBVIOUS
        <3> HIDE DEF frames, n
        <3> QED
            BY <1>1, <3>1, FunctionIsSeq
    <2>3. IsSeq(last) /\ Len(last) = 1 /\ last[1] = <<attack.to, Branch(m.input)>>
        BY DEF IsSeq, Elements
    <2>4. \A j \in 1..n : frames[j] = jump(attack.calls[j])
        OBVIOUS
    <2> HIDE DEF frames, last
    <2>5. /\ IsSeq(frames \o last) /\ Len(frames \o last) = Len(frames) + Len(last)
          /\ \A i \in 1..Len(frames) : (frames \o last)[i] = frames[i]
          /\ \A i \in 1..Len(last) : (frames \o last)[Len(frames) + i] = last[i]
        <3>1. IsSeq(frames) /\ IsSeq(last)
            BY <2>2, <2>3
        <3> QED
            BY <3>1, Concatenated
    <2>6. 1 \in 1..Len(last)
        BY <2>3
    <2> HIDE DEF n
    <2> QED
        BY <2>1, <2>2, <2>3, <2>4, <2>5, <2>6
<1>4. m.input # NoInput /\ ~Direct
        => LonePath(m) = <<jump(attack.calls[Min(CallsTo(Protected))])>>
    BY <1>1 DEF LonePath, Direct, CallsTo
<1> QED
    BY <1>2, <1>3, <1>4

\* What each hook does, by its number.
LEMMA HookActs ==
    ASSUME TypeInv, NEW r \in Executions, EVMStep(r)
    PROVE  LET n == Len(attack.calls)
               k == runs[r].hook
               Takes(contract, input, depth) ==
                   /\ tracer' = tracer
                   /\ IF RecordsJump(tracer, depth)
                      THEN paths' \in Appended(r, <<contract, Branch(input)>>) ELSE paths' = paths
           IN  /\ n \in Nat /\ HookCount = 3 * n + 3 /\ k \in 1..(3 * n + 3)
               /\ runs[r].at = "running" /\ \A q \in Executions \ {r} : runs'[q] = runs[q]
               /\ runs'[r].hook = k + 1
               /\ runs'[r].at = IF k = 3 * n + 3 THEN "returned" ELSE "running"
               /\ KeepCollection /\ mixed' = mixed
               /\ k = 1 => tracer' = OnEnter(tracer, attack.to, 0) /\ paths' = paths
               /\ \A j \in 1..n :
                     /\ k = 3 * j - 1 =>
                           tracer' = OnEnter(tracer, attack.calls[j].to, 1) /\ paths' = paths
                     /\ k = 3 * j => Takes(attack.calls[j].to, attack.calls[j].input, 2)
                     /\ k = 3 * j + 1 => tracer' = OnExit(tracer, 1) /\ paths' = paths
               /\ k = 3 * n + 2 => Takes(attack.to, EffectiveInput(r), 1)
               /\ k = 3 * n + 3 => tracer' = OnExit(tracer, 0) /\ paths' = paths
<1> DEFINE n == Len(attack.calls)
           k == runs[r].hook
           input == EffectiveInput(r)
           hooks == Hooks(attack, input)
           h == hooks[k]
           at == IF k = Len(hooks) THEN "returned" ELSE "running"
           Takes(contract, i, depth) ==
               /\ tracer' = tracer
               /\ IF RecordsJump(tracer, depth)
                  THEN paths' \in Appended(r, <<contract, Branch(i)>>) ELSE paths' = paths
<1>1. attack.calls \in Seq({attack.calls[i] : i \in 1..n})
    BY CollectionAssumption DEF TypeInv
<1>2. n \in Nat
    BY <1>1, SeqOfElements
<1>3. /\ Len(hooks) = 3 * n + 3 /\ hooks[1] = Enter(attack.to, 0)
      /\ \A j \in 1..n : /\ hooks[3 * j - 1] = Enter(attack.calls[j].to, 1)
                          /\ hooks[3 * j] = Jump(attack.calls[j].to, attack.calls[j].input, 2)
                          /\ hooks[3 * j + 1] = Leave(1)
      /\ hooks[3 * n + 2] = Jump(attack.to, input, 1) /\ hooks[3 * n + 3] = Leave(0)
    BY <1>2, HooksOf, HookNumber
<1>4. /\ runs[r].at = "running" /\ KeepCollection /\ mixed' = mixed
      /\ runs' = [runs EXCEPT ![r].at = IF k = Len(hooks) THEN "returned" ELSE @, ![r].hook = @ + 1]
      /\ CASE h.hook = "enter" -> tracer' = OnEnter(tracer, h.to, h.depth) /\ UNCHANGED paths
           [] h.hook = "exit" -> tracer' = OnExit(tracer, h.depth) /\ UNCHANGED paths
           [] h.hook = "jump" ->
                /\ UNCHANGED tracer
                /\ IF RecordsJump(tracer, h.depth)
                   THEN paths' \in Appended(r, h.jump) ELSE UNCHANGED paths
    BY DEF EVMStep
<1>5. HookCount = 3 * n + 3 /\ k \in 1..(3 * n + 3)
    BY <1>4 DEF HookCount, TypeInv
<1>6. /\ \A q \in Executions \ {r} : runs'[q] = runs[q]
      /\ runs'[r] = [runs[r] EXCEPT !.at = at, !.hook = k + 1]
    BY <1>4 DEF TypeInv
<1>7. runs'[r].at = at /\ runs'[r].hook = k + 1
    <2> HIDE DEF at
    <2> QED
        BY <1>6 DEF TypeInv, Fields
<1> HIDE DEF h, hooks, input
<1>8. ASSUME NEW to, NEW depth, h = Enter(to, depth)
      PROVE  tracer' = OnEnter(tracer, to, depth) /\ paths' = paths
    <2>1. h.hook = "enter" /\ h.to = to /\ h.depth = depth
        BY <1>8 DEF Enter
    <2> QED
        BY <1>4, <2>1
<1>9. ASSUME NEW depth, h = Leave(depth)
      PROVE  tracer' = OnExit(tracer, depth) /\ paths' = paths
    <2>1. h.hook = "exit" /\ h.depth = depth
        BY <1>9 DEF Leave
    <2> QED
        BY <1>4, <2>1
<1>10. ASSUME NEW to, NEW i, NEW depth, h = Jump(to, i, depth) PROVE Takes(to, i, depth)
    <2>1. h.hook = "jump" /\ h.jump = <<to, Branch(i)>> /\ h.depth = depth
        BY <1>10 DEF Jump
    <2> QED
        BY <1>4, <2>1
<1> HIDE DEF Takes
<1>11. k = 1 => tracer' = OnEnter(tracer, attack.to, 0) /\ paths' = paths
    BY <1>3, <1>8 DEF h
<1>12. ASSUME NEW j \in 1..n
       PROVE  /\ k = 3 * j - 1 =>
                    tracer' = OnEnter(tracer, attack.calls[j].to, 1) /\ paths' = paths
              /\ k = 3 * j => Takes(attack.calls[j].to, attack.calls[j].input, 2)
              /\ k = 3 * j + 1 => tracer' = OnExit(tracer, 1) /\ paths' = paths
    <2>1. k = 3 * j - 1 => h = Enter(attack.calls[j].to, 1)
        BY <1>3 DEF h
    <2>2. k = 3 * j => h = Jump(attack.calls[j].to, attack.calls[j].input, 2)
        BY <1>3 DEF h
    <2>3. k = 3 * j + 1 => h = Leave(1)
        BY <1>3 DEF h
    <2> HIDE DEF k, n
    <2> QED
        BY <1>8, <1>9, <1>10, <2>1, <2>2, <2>3
<1>13. k = 3 * n + 2 => Takes(attack.to, input, 1)
    BY <1>3, <1>10 DEF h
<1>14. k = 3 * n + 3 => tracer' = OnExit(tracer, 0) /\ paths' = paths
    BY <1>3, <1>9 DEF h
<1>15. runs'[r].at = IF k = 3 * n + 3 THEN "returned" ELSE "running"
    BY <1>3, <1>7
<1> QED
    BY <1>2, <1>4, <1>5, <1>6, <1>7, <1>11, <1>12, <1>13, <1>14, <1>15 DEF Takes, input

\* Nobody else executes beside an execution that is not known to overlap.
LEMMA Alone ==
    ASSUME OverlapInv, NEW r \in Executions, Inside(r), r \notin mixed
    PROVE  \A q \in Executions \ {r} :
               runs[q].at \notin {"targeted", "started", "running", "returned"}
BY DEF OverlapInv, Inside

LEMMA SetTargetRecords ==
    ASSUME CollectInv, MeasureInv, NEW r \in 1..Len(candidates), r \in Executions, SetTarget(r),
           r \notin mixed'
    PROVE  Records(r)'
<1>1. /\ runs[r].at = "forked" /\ runs'[r].at = "targeted" /\ KeepCollection /\ paths' = paths
      /\ TypeInv
    BY Moved DEF SetTarget, CollectInv, Places
<1>2. \A q \in Executions : runs[q].at # "running"
    <2>1. \A q \in Executions \ {r} : ~Inside(q)
        BY DEF SetTarget
    <2> QED
        BY <1>1, <2>1 DEF Inside
<1>3. ~tracer.recording
    BY <1>2 DEF MeasureInv, RestInv
<1>4. Len(candidates) \in Nat /\ r \in Nat \ {0}
    BY SeqOfElements DEF CollectInv, TypeInv, IsSeq
<1>5. candidates' = candidates /\ (Direct' <=> Direct) /\ attack' = attack
    BY <1>1, BatchStays DEF KeepCollection
<1>6. CASE candidates[r].input = NoInput
    <2>1. tracer' = tracer
        BY <1>4, <1>6, CandidateCalls DEF SetTarget
    <2> QED
        BY <1>1, <1>3, <1>5, <1>6, <2>1 DEF Records, RecordsNothing, Live
<1>7. ASSUME candidates[r].input # NoInput, NEW target, DOMAIN TargetCalls(r) = {target}
      PROVE  tracer'.target = target /\ tracer'.targetDepth = -1 /\ ~tracer'.recording
    <2>1. (CHOOSE c \in {target} : TRUE) = target
        OBVIOUS
    <2>2. tracer' = SetTargetContract(tracer, target)
        BY <1>4, <1>7, <2>1, CandidateCalls DEF SetTarget
    <2> QED
        BY <1>1, <2>2 DEF SetTargetContract, TypeInv, IsTracer
<1>8. CASE candidates[r].input # NoInput /\ Direct
    <2>1. tracer'.target = attack.to /\ tracer'.targetDepth = -1 /\ ~tracer'.recording
        BY <1>4, <1>7, <1>8, CandidateCalls
    <2> QED
        BY <1>1, <1>5, <1>8, <2>1 DEF Records, RecordsAll, Live
<1>9. CASE candidates[r].input # NoInput /\ ~Direct
    <2>1. tracer'.target = Protected /\ tracer'.targetDepth = -1 /\ ~tracer'.recording
        BY <1>4, <1>7, <1>9, CandidateCalls
    <2> QED
        BY <1>1, <1>5, <1>9, <2>1 DEF Records, RecordsFirst, Untouched, Live
<1> QED
    BY <1>6, <1>8, <1>9

LEMMA TraceRecords ==
    ASSUME CollectInv, MeasureInv, NEW r \in 1..Len(candidates), r \in Executions, Trace(r),
           r \notin mixed
    PROVE  Records(r)'
<1>1. /\ runs[r].at = "targeted" /\ runs'[r].at = "started" /\ KeepCollection /\ paths' = paths
      /\ TypeInv
    BY Moved DEF Trace, CollectInv, Places
<1>2. Len(candidates) \in Nat /\ Len(mutations) \in Nat /\ r \in Nat \ {0}
    BY SeqOfElements DEF CollectInv, TypeInv, IsSeq
<1>3. candidates' = candidates /\ (Direct' <=> Direct) /\ attack' = attack /\ Own(r)' = Own(r)
    BY <1>1, BatchStays DEF KeepCollection
<1>4. tracer' = StartTrace(tracer, Own(r))
    BY <1>2 DEF Trace, Own, Original
<1>5. /\ tracer'.active /\ tracer'.path = Own(r) /\ tracer'.target = tracer.target
      /\ tracer'.recording = tracer.recording /\ tracer'.targetDepth = tracer.targetDepth
    <2> HIDE DEF Own
    <2> QED
        BY <1>1, <1>4 DEF StartTrace, TypeInv, IsTracer
<1>6. Records(r)
    BY <1>1 DEF MeasureInv, LoneInv, Inside
<1>7. paths[Own(r)] = <<>>
    <2>1. Own(r) \in 0..(TotalCandidates + 1) /\ Own(r) > Len(mutations) + 1
        BY <1>2, CollectionAssumption DEF Own, CollectInv, CountInv
    <2>2. \A q \in 1..Len(candidates) : Own(r) = Own(q) => q = r
        BY <1>2 DEF Own
    <2>3. runs[r].at \notin Begun
        BY <1>1 DEF Begun
    <2> QED
        BY <2>1, <2>2, <2>3 DEF MeasureInv, PathInv
<1> HIDE DEF Own
<1>8. CASE candidates[r].input = NoInput
    BY <1>1, <1>3, <1>5, <1>6, <1>7, <1>8 DEF Records, RecordsNothing, Live
<1>9. CASE candidates[r].input # NoInput /\ Direct
    BY <1>1, <1>3, <1>5, <1>6, <1>7, <1>9 DEF Records, RecordsAll, Live
<1>10. CASE candidates[r].input # NoInput /\ ~Direct
    BY <1>1, <1>3, <1>5, <1>6, <1>7, <1>10 DEF Records, RecordsFirst, Untouched, Live
<1> QED
    BY <1>8, <1>9, <1>10

LEMMA CallRecords ==
    ASSUME CollectInv, MeasureInv, NEW r \in 1..Len(candidates), r \in Executions, Call(r),
           r \notin mixed
    PROVE  Records(r)'
<1>1. /\ runs[r].at = "started" /\ KeepCollection /\ paths' = paths /\ TypeInv
      /\ runs' = [runs EXCEPT ![r].at = "running", ![r].hook = 1]
    BY DEF Call, CollectInv
<1>2. runs'[r].at = "running" /\ runs'[r].hook = 1
    BY <1>1 DEF TypeInv, Fields
<1>3. Len(candidates) \in Nat /\ Len(mutations) \in Nat /\ r \in Nat \ {0}
    BY SeqOfElements DEF CollectInv, TypeInv, IsSeq
<1>4. /\ candidates' = candidates /\ (Direct' <=> Direct) /\ attack' = attack
      /\ Own(r)' = Own(r) /\ HookCount' = HookCount /\ FirstEnter' = FirstEnter
      /\ LonePath(candidates[r])' = LonePath(candidates[r])
    BY <1>1, BatchStays DEF KeepCollection
<1>5. Records(r) /\ tracer.active /\ tracer.path = Own(r)
    BY <1>1 DEF MeasureInv, LoneInv, Inside, Records, Live
<1>6. tracer.depth = 0
    <2>1. \A q \in Executions \ {r} : runs[q].at # "running"
        BY <1>1, Alone DEF MeasureInv, Inside
    <2> QED
        BY <1>1, <2>1 DEF MeasureInv, RestInv
<1>7. tracer' = IF Intercepted(r) THEN OnTargetContractCalled(tracer, attack.to) ELSE tracer
    BY DEF Call
<1> HIDE DEF Own
<1>8. CASE candidates[r].input = NoInput
    <2>1. tracer' = tracer
        BY <1>3, <1>7, <1>8, CandidateCalls
    <2> QED
        BY <1>1, <1>2, <1>4, <1>5, <1>8, <2>1 DEF Records, RecordsNothing, Live
<1>9. CASE candidates[r].input # NoInput /\ Direct
    <2>1. RecordsAll(r)
        BY <1>5, <1>9 DEF Records
    <2>2. tracer' = OnTargetContractCalled(tracer, attack.to)
        BY <1>3, <1>7, <1>9, CandidateCalls
    <2>3. tracer.target = attack.to /\ ~tracer.recording /\ paths[Own(r)] = <<>>
        BY <1>1, <2>1 DEF RecordsAll
    <2>4. /\ tracer'.recording /\ tracer'.targetDepth = 0 /\ tracer'.active
          /\ tracer'.path = Own(r)
        BY <1>1, <1>5, <1>6, <2>2, <2>3 DEF OnTargetContractCalled, TypeInv, IsTracer
    <2>5. Len(attack.calls) \in Nat
        <3>1. attack.calls \in Seq({attack.calls[i] : i \in 1..Len(attack.calls)})
            BY <1>1, CollectionAssumption DEF TypeInv
        <3> QED
            BY <3>1, SeqOfElements
    <2>6. TakenBefore(1, 0)' /\ Len(<<>>) = 0 /\ IsSeq(<<>>)
        BY <1>4, <2>5 DEF TakenBefore, HookCount, IsSeq, Elements
    <2>7. IsFront(<<>>, LonePath(candidates[r]))
        <3>1. IsSeq(LonePath(candidates[r])) /\ Len(LonePath(candidates[r])) = Len(attack.calls) + 1
            BY <1>1, <1>9, LonePathIs DEF TypeInv
        <3> QED
            BY <2>5, <2>6, <3>1 DEF IsFront
    <2>8. RecordsAll(r)'
        BY <1>1, <1>2, <1>4, <2>3, <2>4, <2>6, <2>7
           DEF RecordsAll, TakenBefore, IsFront, IsSeq, Elements
    <2> QED
        BY <1>4, <1>9, <2>4, <2>8 DEF Records
<1>10. CASE candidates[r].input # NoInput /\ ~Direct
    <2>1. tracer' = tracer
        BY <1>3, <1>7, <1>10, CandidateCalls
    <2>2. 1 <= FirstEnter
        BY <1>1, <1>10, FirstCall DEF FirstEnter, TypeInv
    <2> QED
        BY <1>1, <1>2, <1>4, <1>5, <1>10, <2>1, <2>2 DEF Records, RecordsFirst, Untouched, Live
<1> QED
    BY <1>8, <1>9, <1>10

LEMMA ReturnRecords ==
    ASSUME CollectInv, MeasureInv, NEW r \in 1..Len(candidates), r \in Executions, ReturnPath(r),
           r \notin mixed
    PROVE  runs'[r].path = Own(r) /\ paths'[Own(r)] = LonePath(candidates[r])
<1>1. runs[r].at = "returned" /\ runs'[r].path = tracer.path /\ paths' = paths /\ TypeInv
    BY DEF ReturnPath, CollectInv, TypeInv, Fields
<1>2. Records(r)
    BY <1>1 DEF MeasureInv, LoneInv, Inside
<1>3. candidates[r].input = NoInput => LonePath(candidates[r]) = <<>>
    BY <1>1, LonePathIs DEF TypeInv
<1> QED
    BY <1>1, <1>2, <1>3 DEF Records, RecordsNothing, RecordsAll, RecordsFirst, Live

\* What the steps below use of a lone execution that is running.
LoneStep(r) ==
    /\ r \in 1..Len(candidates) /\ r \in Executions /\ EVMStep(r) /\ r \notin mixed

LEMMA LoneRuns ==
    ASSUME CollectInv, MeasureInv, NEW r, LoneStep(r)
    PROVE  /\ TypeInv /\ Records(r) /\ tracer.active /\ tracer.path = Own(r)
           /\ r \in Nat \ {0} /\ runs[r].at = "running"
           /\ Own(r) \in DOMAIN paths /\ tracer.target # NoContract
           /\ \A q \in Executions \ {r} : ~Inside(q)
           /\ candidates' = candidates /\ attack' = attack /\ Own(r)' = Own(r)
           /\ (Direct' <=> Direct) /\ HookCount' = HookCount /\ FirstEnter' = FirstEnter
           /\ LonePath(candidates[r])' = LonePath(candidates[r])
           /\ \A jump : paths' \in Appended(r, jump) =>
                 paths' = [paths EXCEPT ![Own(r)] = Append(@, jump)]
<1>1. /\ TypeInv /\ r \in Executions /\ EVMStep(r) /\ runs[r].at = "running"
      /\ r \in 1..Len(candidates) /\ r \notin mixed /\ KeepCollection
    BY DEF LoneStep, EVMStep, CollectInv
<1>2. Len(candidates) \in Nat /\ Len(mutations) \in Nat /\ r \in Nat \ {0}
    BY <1>1, SeqOfElements DEF TypeInv, IsSeq
<1>3. Inside(r) /\ Records(r)
    BY <1>1 DEF MeasureInv, LoneInv, Inside
<1>4. tracer.active /\ tracer.path = Own(r)
    BY <1>1, <1>3 DEF Records, Live
<1>5. Own(r) \in DOMAIN paths
    BY <1>1, <1>4 DEF TypeInv, IsTracer
<1>6. stage = "batch"
    BY <1>1, <1>2 DEF CollectInv, StageInv, Original
<1>7. tracer.target # NoContract
    BY <1>6 DEF MeasureInv, RestInv
<1>8. \A q \in Executions \ {r} : ~Inside(q)
    BY <1>1, <1>3, Alone DEF MeasureInv, Inside
<1>9. ASSUME NEW jump, paths' \in Appended(r, jump)
      PROVE  paths' = [paths EXCEPT ![Own(r)] = Append(@, jump)]
    BY <1>4, <1>8, <1>9 DEF Appended
<1>10. /\ candidates' = candidates /\ attack' = attack /\ Own(r)' = Own(r)
       /\ (Direct' <=> Direct) /\ HookCount' = HookCount /\ FirstEnter' = FirstEnter
       /\ LonePath(candidates[r])' = LonePath(candidates[r])
    BY <1>1, BatchStays DEF KeepCollection
<1> QED
    BY <1>1, <1>2, <1>3, <1>4, <1>5, <1>7, <1>8, <1>9, <1>10

\* What the hooks and the interception of the top call leave in the tracer.
LEMMA TracerActs ==
    ASSUME NEW t, IsTracer(t)
    PROVE  /\ \A to, depth :
                 LET u == OnEnter(t, to, depth)
                     hit == to = t.target /\ ~t.recording /\ t.targetDepth = -1
                 IN  /\ u.target = t.target /\ u.path = t.path /\ u.active = t.active
                     /\ u.depth = depth
                     /\ hit => u.recording /\ u.targetDepth = depth
                     /\ ~hit => u.recording = t.recording /\ u.targetDepth = t.targetDepth
           /\ \A depth :
                 LET u == OnExit(t, depth)
                 IN  /\ u.target = t.target /\ u.path = t.path /\ u.active = t.active
                     /\ u.depth = depth /\ u.targetDepth = t.targetDepth
                     /\ u.recording <=> t.recording /\ depth > t.targetDepth
           /\ \A to :
                 LET u == OnTargetContractCalled(t, to)
                     hit == to = t.target /\ ~t.recording
                 IN  /\ u.target = t.target /\ u.path = t.path /\ u.active = t.active
                     /\ u.depth = t.depth
                     /\ hit => u.recording /\ u.targetDepth = t.depth
                     /\ ~hit => u = t
<1>1. ASSUME NEW to, NEW depth
      PROVE  LET u == OnEnter(t, to, depth)
                 hit == to = t.target /\ ~t.recording /\ t.targetDepth = -1
             IN  /\ u.target = t.target /\ u.path = t.path /\ u.active = t.active
                 /\ u.depth = depth
                 /\ hit => u.recording /\ u.targetDepth = depth
                 /\ ~hit => u.recording = t.recording /\ u.targetDepth = t.targetDepth
    BY DEF OnEnter, IsTracer
<1>2. ASSUME NEW depth
      PROVE  LET u == OnExit(t, depth)
             IN  /\ u.target = t.target /\ u.path = t.path /\ u.active = t.active
                 /\ u.depth = depth /\ u.targetDepth = t.targetDepth
                 /\ u.recording <=> t.recording /\ depth > t.targetDepth
    BY DEF OnExit, IsTracer
<1>3. ASSUME NEW to
      PROVE  LET u == OnTargetContractCalled(t, to)
                 hit == to = t.target /\ ~t.recording
             IN  /\ u.target = t.target /\ u.path = t.path /\ u.active = t.active
                 /\ u.depth = t.depth
                 /\ hit => u.recording /\ u.targetDepth = t.depth
                 /\ ~hit => u = t
    BY DEF OnTargetContractCalled, IsTracer
<1> QED
    BY <1>1, <1>2, <1>3

\* What each hook of a lone execution does to its own path.
LEMMA LoneActs ==
    ASSUME CollectInv, MeasureInv, NEW r, LoneStep(r)
    PROVE  LET n == Len(attack.calls)
               k == runs[r].hook
               path == paths[Own(r)]
               new == paths'[Own(r)]
               Takes(contract, input, depth) ==
                   /\ tracer' = tracer
                   /\ RecordsJump(tracer, depth) => new = Append(path, <<contract, Branch(input)>>)
                   /\ ~RecordsJump(tracer, depth) => new = path
           IN  /\ n \in Nat /\ HookCount = 3 * n + 3 /\ k \in 1..(3 * n + 3)
               /\ k = 1 => tracer' = OnEnter(tracer, attack.to, 0) /\ new = path
               /\ \A j \in 1..n :
                     /\ k = 3 * j - 1 =>
                           tracer' = OnEnter(tracer, attack.calls[j].to, 1) /\ new = path
                     /\ k = 3 * j => Takes(attack.calls[j].to, attack.calls[j].input, 2)
                     /\ k = 3 * j + 1 => tracer' = OnExit(tracer, 1) /\ new = path
               /\ k = 3 * n + 2 => Takes(attack.to, EffectiveInput(r), 1)
               /\ k = 3 * n + 3 => tracer' = OnExit(tracer, 0) /\ new = path
<1> DEFINE Takes(contract, input, depth) ==
               /\ tracer' = tracer
               /\ IF RecordsJump(tracer, depth)
                  THEN paths' \in Appended(r, <<contract, Branch(input)>>) ELSE paths' = paths
           Records1(contract, input, depth) ==
               /\ tracer' = tracer
               /\ RecordsJump(tracer, depth) =>
                     paths'[Own(r)] = Append(paths[Own(r)], <<contract, Branch(input)>>)
               /\ ~RecordsJump(tracer, depth) => paths'[Own(r)] = paths[Own(r)]
<1>1. TypeInv /\ r \in Executions /\ EVMStep(r) /\ Own(r) \in DOMAIN paths
    BY LoneRuns DEF LoneStep
<1>2. ASSUME NEW contract, NEW input, NEW depth, Takes(contract, input, depth)
      PROVE  Records1(contract, input, depth)
    <2>1. CASE RecordsJump(tracer, depth)
        <3>1. paths' = [paths EXCEPT ![Own(r)] = Append(@, <<contract, Branch(input)>>)]
            BY <1>2, <2>1, LoneRuns
        <3> QED
            BY <1>1, <1>2, <2>1, <3>1
    <2>2. CASE ~RecordsJump(tracer, depth)
        BY <1>2, <2>2
    <2> QED
        BY <2>1, <2>2
<1>3. paths' = paths => paths'[Own(r)] = paths[Own(r)]
    OBVIOUS
<1> DEFINE n == Len(attack.calls)
           k == runs[r].hook
           new == paths'[Own(r)]
           path == paths[Own(r)]
<1>4. /\ n \in Nat /\ HookCount = 3 * n + 3 /\ k \in 1..(3 * n + 3)
      /\ k = 1 => tracer' = OnEnter(tracer, attack.to, 0) /\ paths' = paths
      /\ \A j \in 1..n :
            /\ k = 3 * j - 1 => tracer' = OnEnter(tracer, attack.calls[j].to, 1) /\ paths' = paths
            /\ k = 3 * j => Takes(attack.calls[j].to, attack.calls[j].input, 2)
            /\ k = 3 * j + 1 => tracer' = OnExit(tracer, 1) /\ paths' = paths
      /\ k = 3 * n + 2 => Takes(attack.to, EffectiveInput(r), 1)
      /\ k = 3 * n + 3 => tracer' = OnExit(tracer, 0) /\ paths' = paths
    BY <1>1, HookActs
<1> HIDE DEF Takes, Records1, n, k
<1>5. /\ n \in Nat /\ HookCount = 3 * n + 3 /\ k \in 1..(3 * n + 3)
      /\ k = 1 => tracer' = OnEnter(tracer, attack.to, 0) /\ paths'[Own(r)] = paths[Own(r)]
      /\ \A j \in 1..n :
            /\ k = 3 * j - 1 => /\ tracer' = OnEnter(tracer, attack.calls[j].to, 1)
                                /\ paths'[Own(r)] = paths[Own(r)]
            /\ k = 3 * j => Records1(attack.calls[j].to, attack.calls[j].input, 2)
            /\ k = 3 * j + 1 => tracer' = OnExit(tracer, 1) /\ paths'[Own(r)] = paths[Own(r)]
      /\ k = 3 * n + 2 => Records1(attack.to, EffectiveInput(r), 1)
      /\ k = 3 * n + 3 => tracer' = OnExit(tracer, 0) /\ paths'[Own(r)] = paths[Own(r)]
    BY <1>2, <1>3, <1>4, Zenon
<1> QED
    BY <1>5, Zenon DEF n, k, Records1

LEMMA StepRecordsNothing ==
    ASSUME CollectInv, MeasureInv, NEW r, LoneStep(r), candidates[r].input = NoInput
    PROVE  ~tracer'.recording /\ paths' = paths
<1> DEFINE n == Len(attack.calls)
           k == runs[r].hook
<1>1. /\ TypeInv /\ IsTracer(tracer) /\ r \in Executions /\ EVMStep(r)
      /\ tracer.target # NoContract /\ ~tracer.recording
    BY LoneRuns DEF LoneStep, TypeInv, Records, RecordsNothing
<1>2. tracer.targetDepth = -1 => attack.to # tracer.target /\ CallsTo(tracer.target) = {}
    <2>1. \A q \in Executions \ {r} : ~Inside(q)
        BY LoneRuns
    <2>2. ~Ahead(r)
        BY LoneRuns, CandidateCalls DEF Ahead
    <2>3. \A q \in Executions : ~Ahead(q)
        BY <2>1, <2>2 DEF Ahead, Inside
    <2> QED
        BY <1>1, <2>3 DEF MeasureInv, RestInv, ReachesTarget
<1>3. \A depth : ~RecordsJump(tracer, depth)
    BY <1>1 DEF RecordsJump
<1>4. ASSUME NEW to, NEW depth, tracer' = OnEnter(tracer, to, depth),
             to = attack.to \/ \E j \in 1..n : to = attack.calls[j].to
      PROVE  ~tracer'.recording
    <2>1. ~(to = tracer.target /\ tracer.targetDepth = -1)
        BY <1>2, <1>4 DEF CallsTo
    <2> QED
        BY <1>1, <1>4, <2>1 DEF OnEnter, IsTracer
<1>5. ASSUME NEW depth, tracer' = OnExit(tracer, depth) PROVE ~tracer'.recording
    BY <1>1, <1>5 DEF OnExit, IsTracer
<1>6. n \in Nat /\ k \in 1..(3 * n + 3)
    BY <1>1, HookActs
<1>7. CASE k = 1
    BY <1>1, <1>4, <1>7, HookActs
<1>8. ASSUME NEW j \in 1..n, k = 3 * j - 1 PROVE ~tracer'.recording /\ paths' = paths
    <2>1. tracer' = OnEnter(tracer, attack.calls[j].to, 1) /\ paths' = paths
        BY <1>1, <1>8, HookActs
    <2> QED
        BY <1>4, <2>1
<1>9. ASSUME NEW j \in 1..n, k = 3 * j PROVE ~tracer'.recording /\ paths' = paths
    BY <1>1, <1>3, <1>9, HookActs
<1>10. ASSUME NEW j \in 1..n, k = 3 * j + 1 PROVE ~tracer'.recording /\ paths' = paths
    BY <1>1, <1>5, <1>10, HookActs
<1>11. CASE k = 3 * n + 2
    BY <1>1, <1>3, <1>11, HookActs
<1>12. CASE k = 3 * n + 3
    BY <1>1, <1>5, <1>12, HookActs
<1> HIDE DEF k, n
<1> QED
    BY <1>6, <1>7, <1>8, <1>9, <1>10, <1>11, <1>12, HookPlaces

\* Another jump of a path that is the front of one.
LEMMA FrontGrows ==
    ASSUME NEW s, NEW t, NEW x, IsSeq(s), IsSeq(t), IsFront(s, t), Len(s) < Len(t),
           t[Len(s) + 1] = x
    PROVE  IsSeq(Append(s, x)) /\ IsFront(Append(s, x), t) /\ Len(Append(s, x)) = Len(s) + 1
<1> DEFINE S == Elements(s) \cup {x}
<1>1. s \in Seq(Elements(s)) /\ Len(t) \in Nat
    BY SeqOfElements DEF IsSeq
<1>2. s \in Seq(S)
    <2>1. Len(s) \in Nat /\ s \in [1..Len(s) -> Elements(s)]
        BY <1>1
    <2>2. s \in [1..Len(s) -> S]
        BY <2>1
    <2> HIDE DEF S
    <2> QED
        BY <2>1, <2>2
<1> HIDE DEF S
<1>3. x \in S
    BY DEF S
<1>4. /\ Append(s, x) \in Seq(S) /\ Len(Append(s, x)) = Len(s) + 1 /\ Len(s) \in Nat
      /\ \A i \in 1..Len(s) : Append(s, x)[i] = s[i] /\ Append(s, x)[Len(s) + 1] = x
    BY <1>2, <1>3
<1>5. Append(s, x)[Len(s) + 1] = x
    BY <1>2, <1>3
<1>6. IsFront(Append(s, x), t)
    BY <1>1, <1>4, <1>5 DEF IsFront
<1> QED
    BY <1>4, <1>6, SeqOfElements

LEMMA StepRecordsAll ==
    ASSUME CollectInv, MeasureInv, NEW r, LoneStep(r), candidates[r].input # NoInput, Direct
    PROVE  LET n == Len(attack.calls)
               k == runs[r].hook
               path == paths'[Own(r)]
           IN  /\ IsSeq(path) /\ IsFront(path, LonePath(candidates[r]))
               /\ k # 3 * n + 3 => /\ tracer'.recording /\ tracer'.targetDepth = 0
                                   /\ TakenBefore(k + 1, Len(path))
               /\ k = 3 * n + 3 => path = LonePath(candidates[r])
<1> DEFINE n == Len(attack.calls)
           k == runs[r].hook
           path == paths[Own(r)]
           new == paths'[Own(r)]
           lone == LonePath(candidates[r])
           JumpOf(contract, input) == <<contract, Branch(input)>>
           Takes(jump, depth) ==
               /\ tracer' = tracer
               /\ RecordsJump(tracer, depth) => new = Append(path, jump)
               /\ ~RecordsJump(tracer, depth) => new = path
           Goal == /\ IsSeq(new) /\ IsFront(new, lone)
                   /\ k # 3 * n + 3 => /\ tracer'.recording /\ tracer'.targetDepth = 0
                                       /\ TakenBefore(k + 1, Len(new))
                   /\ k = 3 * n + 3 => new = lone
<1> SUFFICES Goal
    BY Zenon
<1>1. /\ TypeInv /\ IsTracer(tracer) /\ tracer.active /\ RecordsAll(r) /\ runs[r].at = "running"
      /\ r \in Nat \ {0}
    BY LoneRuns DEF TypeInv, Records
<1>2. /\ tracer.recording /\ tracer.targetDepth = 0
      /\ IsSeq(path) /\ TakenBefore(k, Len(path)) /\ IsFront(path, lone)
    BY <1>1 DEF RecordsAll
<1>3. /\ n \in Nat /\ HookCount = 3 * n + 3 /\ k \in 1..(3 * n + 3)
      /\ k = 1 => tracer' = OnEnter(tracer, attack.to, 0) /\ new = path
      /\ \A j \in 1..n :
            /\ k = 3 * j - 1 => tracer' = OnEnter(tracer, attack.calls[j].to, 1) /\ new = path
            /\ k = 3 * j => Takes(JumpOf(attack.calls[j].to, attack.calls[j].input), 2)
            /\ k = 3 * j + 1 => tracer' = OnExit(tracer, 1) /\ new = path
      /\ k = 3 * n + 2 => Takes(JumpOf(attack.to, EffectiveInput(r)), 1)
      /\ k = 3 * n + 3 => tracer' = OnExit(tracer, 0) /\ new = path
    BY LoneActs
<1>4. /\ IsSeq(lone) /\ Len(lone) = n + 1 /\ lone[n + 1] = JumpOf(attack.to, EffectiveInput(r))
      /\ \A j \in 1..n : lone[j] = JumpOf(attack.calls[j].to, attack.calls[j].input)
    BY <1>1, LonePathIs, CandidateCalls DEF TypeInv
<1>5. Len(path) \in Nat
    BY <1>2, SeqOfElements DEF IsSeq
<1>6. /\ \A to, depth : /\ OnEnter(tracer, to, depth).recording
                        /\ OnEnter(tracer, to, depth).targetDepth = 0
      /\ OnExit(tracer, 1).recording /\ OnExit(tracer, 1).targetDepth = 0
    BY <1>1, <1>2, TracerActs
<1>7. RecordsJump(tracer, 1) /\ RecordsJump(tracer, 2)
    BY <1>1, <1>2 DEF RecordsJump
<1>8. HookCount = 3 * n + 3
    BY <1>3
<1> HIDE DEF n, k, path, new, lone, JumpOf
<1>9. ASSUME NEW depth \in {1, 2}, NEW jump, Takes(jump, depth),
             Len(path) < n + 1, lone[Len(path) + 1] = jump
      PROVE  IsSeq(new) /\ IsFront(new, lone) /\ Len(new) = Len(path) + 1
    <2>1. new = Append(path, jump)
        BY <1>7, <1>9
    <2> QED
        BY <1>2, <1>4, <1>9, <2>1, FrontGrows
<1>10. CASE k = 1
    <2>1. tracer' = OnEnter(tracer, attack.to, 0) /\ new = path
        BY <1>3, <1>10
    <2>2. TakenBefore(k + 1, Len(path)) /\ k # 3 * n + 3
        BY <1>2, <1>3, <1>5, <1>8, <1>10 DEF TakenBefore
    <2> QED
        BY <1>2, <1>6, <2>1, <2>2, Zenon
<1>11. ASSUME NEW j \in 1..n, k = 3 * j - 1 PROVE Goal
    <2>1. tracer' = OnEnter(tracer, attack.calls[j].to, 1) /\ new = path
        BY <1>3, <1>11
    <2>2. TakenBefore(k + 1, Len(path)) /\ k # 3 * n + 3
        BY <1>2, <1>3, <1>5, <1>8, <1>11 DEF TakenBefore
    <2> QED
        BY <1>2, <1>6, <2>1, <2>2, Zenon
<1>12. ASSUME NEW j \in 1..n, k = 3 * j PROVE Goal
    <2> DEFINE jump == JumpOf(attack.calls[j].to, attack.calls[j].input)
    <2>1. Takes(jump, 2)
        BY <1>3, <1>12, Zenon
    <2>2. Len(path) = j - 1
        BY <1>2, <1>3, <1>5, <1>8, <1>12 DEF TakenBefore
    <2>3. Len(path) < n + 1 /\ lone[Len(path) + 1] = jump
        <3>1. Len(path) + 1 = j /\ Len(path) < n + 1
            BY <1>3, <2>2
        <3> QED
            BY <1>4, <3>1
    <2> HIDE DEF jump
    <2>4. IsSeq(new) /\ IsFront(new, lone) /\ Len(new) = Len(path) + 1
        BY <1>9, <2>1, <2>3
    <2>5. TakenBefore(k + 1, Len(new)) /\ k # 3 * n + 3
        BY <1>3, <1>8, <1>12, <2>2, <2>4 DEF TakenBefore
    <2> QED
        BY <1>2, <2>1, <2>4, <2>5, Zenon
<1>13. ASSUME NEW j \in 1..n, k = 3 * j + 1 PROVE Goal
    <2>1. tracer' = OnExit(tracer, 1) /\ new = path
        BY <1>3, <1>13
    <2>2. TakenBefore(k + 1, Len(path)) /\ k # 3 * n + 3
        BY <1>2, <1>3, <1>5, <1>8, <1>13 DEF TakenBefore
    <2> QED
        BY <1>2, <1>6, <2>1, <2>2, Zenon
<1>14. CASE k = 3 * n + 2
    <2> DEFINE jump == JumpOf(attack.to, EffectiveInput(r))
    <2>1. Takes(jump, 1)
        BY <1>3, <1>14, Zenon
    <2>2. Len(path) = n
        BY <1>2, <1>3, <1>5, <1>8, <1>14 DEF TakenBefore
    <2>3. Len(path) < n + 1 /\ lone[Len(path) + 1] = jump
        BY <1>3, <1>4, <2>2
    <2> HIDE DEF jump
    <2>4. IsSeq(new) /\ IsFront(new, lone) /\ Len(new) = Len(path) + 1
        BY <1>9, <2>1, <2>3
    <2>5. TakenBefore(k + 1, Len(new)) /\ k # 3 * n + 3
        BY <1>3, <1>8, <1>14, <2>2, <2>4 DEF TakenBefore, n
    <2> QED
        BY <1>2, <2>1, <2>4, <2>5, Zenon
<1>15. CASE k = 3 * n + 3
    <2>1. new = path
        BY <1>3, <1>15
    <2>2. Len(path) = n + 1
        BY <1>2, <1>3, <1>5, <1>8, <1>15 DEF TakenBefore, n
    <2>3. path = lone
        <3>1. path = [i \in 1..(n + 1) |-> path[i]] /\ lone = [i \in 1..(n + 1) |-> lone[i]]
            BY <1>2, <1>4, <2>2 DEF IsSeq
        <3>2. \A i \in 1..(n + 1) : path[i] = lone[i]
            BY <1>2, <2>2 DEF IsFront
        <3> QED
            BY <3>1, <3>2
    <2> QED
        BY <1>2, <1>15, <2>1, <2>3, Zenon
<1> HIDE DEF Goal
<1> QED
    BY <1>3, <1>10, <1>11, <1>12, <1>13, <1>14, <1>15, HookPlaces

LEMMA StepRecordsFirst ==
    ASSUME CollectInv, MeasureInv, NEW r, LoneStep(r), candidates[r].input # NoInput, ~Direct
    PROVE  LET k == runs[r].hook + 1
               path == paths'[Own(r)]
               lone == LonePath(candidates[r])
           IN  \/ /\ k <= FirstEnter /\ path = <<>>
                  /\ tracer'.target = Protected /\ tracer'.targetDepth = -1 /\ ~tracer'.recording
               \/ /\ k = FirstEnter + 1 /\ path = <<>>
                  /\ tracer'.recording /\ tracer'.targetDepth = 1
               \/ /\ k = FirstEnter + 2 /\ path = lone
                  /\ tracer'.recording /\ tracer'.targetDepth = 1
               \/ /\ k > FirstEnter + 2 /\ path = lone
                  /\ ~tracer'.recording /\ tracer'.targetDepth = 1
<1> DEFINE n == Len(attack.calls)
           k == runs[r].hook
           first == Min(CallsTo(Protected))
           path == paths[Own(r)]
           new == paths'[Own(r)]
           lone == LonePath(candidates[r])
           JumpOf(contract, input) == <<contract, Branch(input)>>
           jump == JumpOf(attack.calls[first].to, attack.calls[first].input)
           Takes(j, depth) ==
               /\ tracer' = tracer
               /\ RecordsJump(tracer, depth) => new = Append(path, j)
               /\ ~RecordsJump(tracer, depth) => new = path
           Before(t) == t.target = Protected /\ t.targetDepth = -1 /\ ~t.recording
           Within(t) == t.recording /\ t.targetDepth = 1
           After(t) == ~t.recording /\ t.targetDepth = 1
           At(t, p, i) == \/ i <= FirstEnter /\ p = <<>> /\ Before(t)
                          \/ i = FirstEnter + 1 /\ p = <<>> /\ Within(t)
                          \/ i = FirstEnter + 2 /\ p = lone /\ Within(t)
                          \/ i > FirstEnter + 2 /\ p = lone /\ After(t)
<1> SUFFICES At(tracer', new, k + 1)
    OBVIOUS
<1>1. /\ TypeInv /\ IsTracer(tracer) /\ tracer.active /\ RecordsFirst(r) /\ runs[r].at = "running"
      /\ tracer.target # NoContract
    BY LoneRuns DEF TypeInv, Records
<1>2. /\ n \in Nat /\ HookCount = 3 * n + 3 /\ k \in 1..(3 * n + 3)
      /\ k = 1 => tracer' = OnEnter(tracer, attack.to, 0) /\ new = path
      /\ \A j \in 1..n :
            /\ k = 3 * j - 1 => tracer' = OnEnter(tracer, attack.calls[j].to, 1) /\ new = path
            /\ k = 3 * j => Takes(JumpOf(attack.calls[j].to, attack.calls[j].input), 2)
            /\ k = 3 * j + 1 => tracer' = OnExit(tracer, 1) /\ new = path
      /\ k = 3 * n + 2 => Takes(JumpOf(attack.to, EffectiveInput(r)), 1)
      /\ k = 3 * n + 3 => tracer' = OnExit(tracer, 0) /\ new = path
    BY LoneActs
<1>3. /\ first \in 1..n /\ attack.calls[first].to = Protected /\ attack.to # Protected
      /\ \A j \in 1..n : attack.calls[j].to = Protected => first <= j
    BY <1>1, FirstCall DEF TypeInv, CallsTo
<1>4. lone = <<jump>>
    BY <1>1, LonePathIs DEF TypeInv
<1>5. FirstEnter = 3 * first - 1
    BY DEF FirstEnter
<1>6. At(tracer, path, k)
    BY <1>1 DEF RecordsFirst, Untouched
<1>7. \A to : \A d \in {0, 1} :
         /\ Before(tracer) /\ to # Protected => Before(OnEnter(tracer, to, d))
         /\ Before(tracer) /\ to = Protected /\ d = 1 => Within(OnEnter(tracer, to, d))
         /\ After(tracer) => After(OnEnter(tracer, to, d))
    BY <1>1, TracerActs
<1>8. \A d \in {0, 1} :
         /\ Before(tracer) => Before(OnExit(tracer, d))
         /\ Within(tracer) \/ After(tracer) => After(OnExit(tracer, d))
    BY <1>1, TracerActs
<1>9. /\ \A d : Before(tracer) \/ After(tracer) => ~RecordsJump(tracer, d)
      /\ Within(tracer) => RecordsJump(tracer, 2)
    BY <1>1 DEF RecordsJump
<1>10. Append(<<>>, jump) = <<jump>>
    OBVIOUS
<1> HIDE DEF n, k, first, path, new, lone, jump, JumpOf, Before, Within, After
<1>11. CASE k <= FirstEnter /\ path = <<>> /\ Before(tracer)
    <2>1. CASE k = 1
        <3>1. Before(tracer') /\ new = <<>>
            BY <1>2, <1>3, <1>7, <1>11, <2>1
        <3>2. k + 1 <= FirstEnter
            BY <1>3, <1>5, <2>1
        <3> QED
            BY <3>1, <3>2, Zenon
    <2>2. ASSUME NEW j \in 1..n, k = 3 * j - 1 PROVE At(tracer', new, k + 1)
        <3>1. tracer' = OnEnter(tracer, attack.calls[j].to, 1) /\ new = <<>>
            BY <1>2, <1>11, <2>2
        <3>2. CASE attack.calls[j].to = Protected
            <4>1. Within(tracer')
                BY <1>7, <1>11, <3>1, <3>2
            <4>2. k + 1 = FirstEnter + 1
                BY <1>2, <1>3, <1>5, <1>11, <2>2, <3>2
            <4> QED
                BY <3>1, <4>1, <4>2, Zenon
        <3>3. CASE attack.calls[j].to # Protected
            <4>1. Before(tracer')
                BY <1>7, <1>11, <3>1, <3>3
            <4>2. k + 1 <= FirstEnter
                BY <1>2, <1>3, <1>5, <1>11, <2>2, <3>3
            <4> QED
                BY <3>1, <4>1, <4>2, Zenon
        <3> QED
            BY <3>2, <3>3
    <2>3. ASSUME NEW j \in 1..n, k = 3 * j PROVE At(tracer', new, k + 1)
        <3>1. tracer' = tracer /\ new = <<>>
            BY <1>2, <1>9, <1>11, <2>3
        <3>2. k + 1 <= FirstEnter
            BY <1>2, <1>3, <1>5, <1>11, <2>3
        <3> QED
            BY <1>11, <3>1, <3>2, Zenon
    <2>4. ASSUME NEW j \in 1..n, k = 3 * j + 1 PROVE At(tracer', new, k + 1)
        <3>1. Before(tracer') /\ new = <<>>
            BY <1>2, <1>8, <1>11, <2>4
        <3>2. k + 1 <= FirstEnter
            BY <1>2, <1>3, <1>5, <1>11, <2>4
        <3> QED
            BY <3>1, <3>2, Zenon
    <2>5. k # 3 * n + 2 /\ k # 3 * n + 3
        BY <1>2, <1>3, <1>5, <1>11
    <2> HIDE DEF At
    <2> QED
        BY <1>2, <2>1, <2>2, <2>3, <2>4, <2>5, HookPlaces
<1>12. CASE k = FirstEnter + 1 /\ path = <<>> /\ Within(tracer)
    <2>1. k = 3 * first
        BY <1>3, <1>5, <1>12
    <2>2. attack.calls[first].to = Protected /\ Takes(jump, 2)
        BY <1>2, <1>3, <2>1 DEF jump
    <2>3. tracer' = tracer /\ new = lone
        BY <1>4, <1>9, <1>10, <1>12, <2>2
    <2>4. k + 1 = FirstEnter + 2
        BY <1>3, <1>5, <2>1
    <2> QED
        BY <1>12, <2>3, <2>4, Zenon
<1>13. CASE k = FirstEnter + 2 /\ path = lone /\ Within(tracer)
    <2>1. k = 3 * first + 1
        BY <1>3, <1>5, <1>13
    <2>2. After(tracer') /\ new = lone
        BY <1>2, <1>3, <1>8, <1>13, <2>1
    <2>3. k + 1 > FirstEnter + 2
        BY <1>3, <1>5, <2>1
    <2> QED
        BY <2>2, <2>3, Zenon
<1>14. CASE k > FirstEnter + 2 /\ path = lone /\ After(tracer)
    <2>1. k + 1 > FirstEnter + 2 /\ k # 1
        BY <1>2, <1>3, <1>5, <1>14
    <2>2. ASSUME After(tracer'), new = lone PROVE At(tracer', new, k + 1)
        BY <2>1, <2>2, Zenon
    <2> HIDE DEF At
    <2>3. ASSUME NEW j \in 1..n, k = 3 * j - 1 \/ k = 3 * j + 1 PROVE At(tracer', new, k + 1)
        BY <1>2, <1>7, <1>8, <1>14, <2>2, <2>3
    <2>4. ASSUME NEW j \in 1..n, k = 3 * j PROVE At(tracer', new, k + 1)
        BY <1>2, <1>9, <1>14, <2>2, <2>4
    <2>5. CASE k = 3 * n + 2
        BY <1>2, <1>9, <1>14, <2>2, <2>5
    <2>6. CASE k = 3 * n + 3
        BY <1>2, <1>8, <1>14, <2>2, <2>6
    <2> QED
        BY <1>2, <2>1, <2>3, <2>4, <2>5, <2>6, HookPlaces
<1> QED
    BY <1>6, <1>11, <1>12, <1>13, <1>14

\* What a hook leaves in the tracer, whoever calls it.
LEMMA HookLeaves ==
    ASSUME TypeInv, NEW r \in Executions, EVMStep(r)
    PROVE  /\ tracer'.active = tracer.active /\ tracer'.path = tracer.path
           /\ tracer'.target = tracer.target
           /\ tracer'.targetDepth = -1 => tracer.targetDepth = -1
           /\ tracer'.recording /\ tracer'.targetDepth = -1 => tracer.recording
<1>1. IsTracer(tracer)
    BY DEF TypeInv
<1>2. CASE tracer' = tracer
    BY <1>1, <1>2
<1>3. ASSUME NEW to, NEW depth \in {0, 1}, tracer' = OnEnter(tracer, to, depth)
      PROVE  /\ tracer'.active = tracer.active /\ tracer'.path = tracer.path
             /\ tracer'.target = tracer.target
             /\ tracer'.targetDepth = -1 => tracer.targetDepth = -1
             /\ tracer'.recording /\ tracer'.targetDepth = -1 => tracer.recording
    <2> DEFINE u == OnEnter(tracer, to, depth)
               hit == to = tracer.target /\ ~tracer.recording /\ tracer.targetDepth = -1
    <2>1. /\ u.target = tracer.target /\ u.path = tracer.path /\ u.active = tracer.active
          /\ hit => u.recording /\ u.targetDepth = depth
          /\ ~hit => u.recording = tracer.recording /\ u.targetDepth = tracer.targetDepth
        BY <1>1, TracerActs
    <2>2. depth # -1 /\ tracer' = u
        BY <1>3
    <2> HIDE DEF u
    <2> QED
        BY <2>1, <2>2
<1>4. ASSUME NEW depth, tracer' = OnExit(tracer, depth)
      PROVE  /\ tracer'.active = tracer.active /\ tracer'.path = tracer.path
             /\ tracer'.target = tracer.target
             /\ tracer'.targetDepth = -1 => tracer.targetDepth = -1
             /\ tracer'.recording /\ tracer'.targetDepth = -1 => tracer.recording
    <2> DEFINE u == OnExit(tracer, depth)
    <2>1. /\ u.target = tracer.target /\ u.path = tracer.path /\ u.active = tracer.active
          /\ u.targetDepth = tracer.targetDepth /\ (u.recording => tracer.recording)
        BY <1>1, TracerActs
    <2> HIDE DEF u
    <2> QED
        BY <1>4, <2>1 DEF u
<1> QED
    BY <1>2, <1>3, <1>4, HookTaken

LEMMA EVMStepRecords == ASSUME CollectInv, MeasureInv, NEW r, LoneStep(r) PROVE Records(r)'
<1> DEFINE n == Len(attack.calls)
           k == runs[r].hook
           at == runs'[r].at
           path == paths'[Own(r)]
           lone == LonePath(candidates[r])
<1>1. /\ TypeInv /\ IsTracer(tracer) /\ r \in Executions /\ EVMStep(r)
      /\ tracer.active /\ tracer.path = Own(r)
      /\ candidates' = candidates /\ attack' = attack /\ Own(r)' = Own(r)
      /\ (Direct' <=> Direct) /\ HookCount' = HookCount /\ FirstEnter' = FirstEnter
      /\ LonePath(candidates[r])' = LonePath(candidates[r])
    BY LoneRuns DEF LoneStep, TypeInv
<1>2. /\ n \in Nat /\ HookCount = 3 * n + 3 /\ k \in 1..(3 * n + 3) /\ runs'[r].hook = k + 1
      /\ at = IF k = 3 * n + 3 THEN "returned" ELSE "running"
    BY <1>1, HookActs
<1>3. tracer'.active /\ tracer'.path = Own(r)
    BY <1>1, HookLeaves
<1>4. CASE candidates[r].input = NoInput
    <2>1. RecordsNothing(r) /\ runs[r].at = "running"
        BY <1>4, LoneRuns DEF Records
    <2>2. ~tracer'.recording /\ path = <<>>
        BY <1>4, <2>1, StepRecordsNothing DEF RecordsNothing, Live
    <2> HIDE DEF path
    <2>3. RecordsNothing(r)'
        BY <1>1, <2>2 DEF RecordsNothing, path
    <2> QED
        BY <1>1, <1>3, <1>4, <2>3 DEF Records
<1>5. CASE candidates[r].input # NoInput /\ Direct
    <2>1. /\ IsSeq(path) /\ IsFront(path, lone)
          /\ k # 3 * n + 3 => /\ tracer'.recording /\ tracer'.targetDepth = 0
                              /\ TakenBefore(k + 1, Len(path))
          /\ k = 3 * n + 3 => path = lone
        BY <1>5, StepRecordsAll
    <2> HIDE DEF path, lone, n, k, at
    <2>2. /\ at = "running" =>
                /\ tracer'.recording /\ tracer'.targetDepth = 0
                /\ IsSeq(path) /\ TakenBefore(k + 1, Len(path)) /\ IsFront(path, lone)
          /\ at = "returned" => path = lone
          /\ at \in {"running", "returned"}
        BY <1>2, <2>1, Zenon
    <2>3. at = "running" =>
              /\ TakenBefore(runs[r].hook, Len(paths[Own(r)]))' /\ IsSeq(paths[Own(r)])'
              /\ IsFront(paths[Own(r)], LonePath(candidates[r]))'
        BY <1>1, <1>2, <2>2 DEF TakenBefore, IsSeq, Elements, IsFront, path, lone
    <2>4. RecordsAll(r)'
        BY <1>1, <2>2, <2>3 DEF RecordsAll, at, path, lone
    <2> QED
        BY <1>1, <1>3, <1>5, <2>4 DEF Records
<1>6. CASE candidates[r].input # NoInput /\ ~Direct
    <2>1. \/ /\ k + 1 <= FirstEnter /\ path = <<>>
             /\ tracer'.target = Protected /\ tracer'.targetDepth = -1 /\ ~tracer'.recording
          \/ /\ k + 1 = FirstEnter + 1 /\ path = <<>>
             /\ tracer'.recording /\ tracer'.targetDepth = 1
          \/ /\ k + 1 = FirstEnter + 2 /\ path = lone
             /\ tracer'.recording /\ tracer'.targetDepth = 1
          \/ /\ k + 1 > FirstEnter + 2 /\ path = lone
             /\ ~tracer'.recording /\ tracer'.targetDepth = 1
        BY <1>6, StepRecordsFirst
    <2>2. k = 3 * n + 3 => path = lone
        <3>1. FirstEnter + 2 <= 3 * n + 1 /\ FirstEnter \in Int
            BY <1>1, <1>2, <1>6, FirstCall DEF FirstEnter, TypeInv
        <3> HIDE DEF k, n, path, lone
        <3> QED
            BY <1>2, <2>1, <3>1
    <2> HIDE DEF path, lone, n, k, at
    <2>3. at \in {"running", "returned"} /\ (at = "returned" => path = lone)
        BY <1>2, <2>2
    <2>4. RecordsFirst(r)'
        BY <1>1, <1>2, <2>1, <2>3 DEF RecordsFirst, Untouched, at, path, lone
    <2> QED
        BY <1>1, <1>3, <1>6, <2>4 DEF Records
<1> QED
    BY <1>4, <1>5, <1>6

\* Whoever runs is the original, before anything is collected, or a candidate.
LEMMA WhoRuns ==
    ASSUME CollectInv, MeasureInv, NEW r \in Executions, runs[r].at # "idle"
    PROVE  /\ Len(candidates) \in Nat /\ Len(mutations) \in Nat
           /\ 1..Len(candidates) \subseteq Executions
           /\ \/ /\ stage = "original" /\ r = Original /\ Len(candidates) = 0
                 /\ Len(mutations) = 0
              \/ stage = "batch" /\ r \in 1..Len(candidates)
<1>1. Len(candidates) \in Nat /\ Len(mutations) \in Nat
    BY SeqOfElements DEF CollectInv, TypeInv, IsSeq
<1>2. 1..Len(candidates) \subseteq Executions
    BY <1>1, CollectionAssumption DEF CollectInv, CountInv, Executions
<1>3. stage = "original" => Len(candidates) = 0 /\ Len(mutations) = 0
    BY DEF CollectInv, CountInv, MeasureInv, PathInv
<1> QED
    BY <1>1, <1>2, <1>3 DEF CollectInv, StageInv

\* The paths of lone executions depend on the attack only.
LEMMA AttackStays ==
    ASSUME attack' = attack
    PROVE  /\ \A m : LonePath(m)' = LonePath(m)
           /\ \A c : CallsTo(c)' = CallsTo(c)
<1>1. ExtractedCall' = ExtractedCall
    BY DEF ExtractedCall
<1> QED
    BY <1>1 DEF LonePath, CallsTo

\* A step that executes nothing: no path, no tracer and nothing collected changes.
LEMMA ControlKeeps ==
    ASSUME CollectInv, MeasureInv,
           UNCHANGED <<attack, tracer, paths, candidates, mutations, mixed>>,
           \A r \in Executions :
               \/ runs'[r] = runs[r]
               \/ /\ ~Inside(r) /\ ~Inside(r)' /\ runs'[r].at # "stopped"
                  /\ r \in 1..Len(candidates) /\ runs[r].at \in Begun => runs'[r].at \in Begun
                  /\ runs'[r].at \in {"stopped", "measured"} /\ runs'[r].path # 0 =>
                        runs[r].at \in {"stopped", "measured"} /\ runs'[r].path = runs[r].path,
           stage' \in {"fetch", "original"} => stage \in {"fetch", "original"},
           stage' = "batch" => stage = "batch",
           stage' = "generate" => stage = "generate" \/ runs[Original].at = "stopped"
    PROVE  MeasureInv'
<1>1. /\ \A r \in Executions : Inside(r)' => Inside(r) /\ runs'[r] = runs[r]
      /\ \A r \in Executions : runs[r].at = "running" \/ Ahead(r) => runs'[r] = runs[r]
      /\ \A r \in Executions : runs'[r].at = "stopped" => runs[r].at = "stopped"
    BY DEF Inside, Ahead
<1>2. /\ (Direct' <=> Direct) /\ HookCount' = HookCount /\ FirstEnter' = FirstEnter
      /\ \A r : Own(r)' = Own(r) /\ TargetCalls(r)' = TargetCalls(r)
      /\ \A c : CallsTo(c)' = CallsTo(c)
      /\ \A m : LonePath(m)' = LonePath(m)
    BY BatchStays
<1>3. \A r \in Executions : runs'[r].at \in Live => runs'[r] = runs[r]
    BY <1>1 DEF Inside, Live
<1>4. Len(candidates) \in Nat /\ 1..Len(candidates) \subseteq Executions /\ Original \in Executions
    BY SeqOfElements, CollectionAssumption
       DEF CollectInv, TypeInv, IsSeq, CountInv, Executions, Original
<1>5. OverlapInv'
    BY <1>1 DEF MeasureInv, OverlapInv, Inside
<1>6. RestInv'
    <2>1. tracer'.recording => tracer'.targetDepth # -1
        BY DEF MeasureInv, RestInv
    <2>2. (\A r \in Executions : runs'[r].at # "running") => ~tracer'.recording /\ tracer'.depth = 0
        BY <1>1 DEF MeasureInv, RestInv
    <2>3. stage' \in {"generate", "batch"} => tracer'.target # NoContract
        BY DEF MeasureInv, RestInv
    <2>4. runs'[Original].at \in {"targeted", "started", "running", "returned", "stopped"}
            => tracer'.target # NoContract
        BY <1>1, <1>4 DEF MeasureInv, RestInv, Inside
    <2>5. ASSUME tracer'.targetDepth = -1, ReachesTarget' PROVE \E r \in Executions : Ahead(r)'
        <3>0. ReachesTarget
            BY <2>5 DEF ReachesTarget, CallsTo
        <3>1. PICK r \in Executions : Ahead(r)
            BY <2>5, <3>0 DEF MeasureInv, RestInv
        <3>2. runs'[r] = runs[r]
            BY <1>1, <3>1
        <3>3. Ahead(r)'
            BY <1>2, <3>1, <3>2 DEF Ahead
        <3> QED
            BY <3>3
    <2> QED
        BY <2>1, <2>2, <2>3, <2>4, <2>5 DEF RestInv
<1>7. PathInv'
    <2>1. stage' \in {"fetch", "original"} => Len(mutations') = 0
        BY DEF MeasureInv, PathInv
    <2>2. ASSUME NEW p \in 0..(TotalCandidates + 1), p > Len(mutations) + 1
          PROVE  \/ paths[p] = <<>> /\ tracer.path # p
                 \/ \E r \in 1..Len(candidates) : p = Own(r) /\ runs'[r].at \in Begun
        <3>1. \A r \in 1..Len(candidates) : runs[r].at \in Begun => runs'[r].at \in Begun
            BY <1>4
        <3> QED
            BY <2>2, <3>1 DEF MeasureInv, PathInv
    <2>3. stage' = "batch" /\ (\E r \in Executions : runs'[r].at \in Live)
            => tracer.path > Len(mutations) + 1
        BY <1>3 DEF MeasureInv, PathInv
    <2> QED
        BY <1>2, <2>1, <2>2, <2>3 DEF PathInv
<1>8. LoneInv'
    <2> SUFFICES ASSUME NEW r \in 1..Len(candidates), Inside(r)', r \notin mixed
                 PROVE  Records(r)'
        BY DEF LoneInv
    <2>1. runs'[r] = runs[r] /\ Records(r)
        BY <1>1, <1>4 DEF MeasureInv, LoneInv
    <2>2. RecordsNothing(r) => RecordsNothing(r)'
        BY <1>2, <2>1 DEF RecordsNothing
    <2>3. RecordsAll(r) => RecordsAll(r)'
        <3>1. /\ IsSeq(paths[Own(r)]) => IsSeq(paths[Own(r)])'
              /\ TakenBefore(runs[r].hook, Len(paths[Own(r)]))
                    => TakenBefore(runs[r].hook, Len(paths[Own(r)]))'
              /\ IsFront(paths[Own(r)], LonePath(candidates[r]))
                    => IsFront(paths[Own(r)], LonePath(candidates[r]))'
            BY <1>2, <2>1 DEF IsSeq, Elements, TakenBefore, IsFront
        <3>2. LonePath(candidates[r])' = LonePath(candidates[r]) /\ Own(r)' = Own(r)
            BY <1>2
        <3> QED
            BY <2>1, <3>1, <3>2 DEF RecordsAll
    <2>4. RecordsFirst(r) => RecordsFirst(r)'
        <3>1. LonePath(candidates[r])' = LonePath(candidates[r]) /\ Own(r)' = Own(r)
            BY <1>2
        <3> QED
            BY <1>2, <2>1, <3>1 DEF RecordsFirst, Untouched
    <2> QED
        BY <1>2, <2>1, <2>2, <2>3, <2>4 DEF Records
<1>9. DoneInv'
    <2>1. ASSUME NEW r \in 1..Len(candidates), runs'[r].at \in {"stopped", "measured"},
                 runs'[r].path # 0, r \notin mixed
          PROVE  Done(r)'
        <3>1. runs[r].at \in {"stopped", "measured"} /\ runs'[r].path = runs[r].path
            BY <1>4, <2>1
        <3>2. Done(r)
            BY <2>1, <3>1 DEF MeasureInv, DoneInv
        <3> QED
            BY <1>2, <1>3, <3>1, <3>2 DEF Done
    <2>2. ASSUME NEW i \in 1..Len(mutations), mutations[i].success, ~mutations[i].mixed
          PROVE  mutations[i].path = i + 1 /\ paths[i + 1] = LonePath(mutations[i])
        BY <2>2 DEF MeasureInv, DoneInv
    <2>3. \A i : LonePath(mutations[i])' = LonePath(mutations[i])
        BY <1>2
    <2> QED
        BY <2>1, <2>2, <2>3 DEF DoneInv
<1> QED
    BY <1>5, <1>6, <1>7, <1>8, <1>9 DEF MeasureInv

LEMMA GenerateKeeps == ASSUME CollectInv, MeasureInv, GenerateBatch PROVE MeasureInv'
<1>1. /\ stage = "generate" /\ stage' = "batch" /\ mixed' = {}
      /\ attack' = attack /\ tracer' = tracer /\ paths' = paths /\ mutations' = mutations
      /\ \A r \in Executions : runs'[r].at \in {"idle", "forked"}
    <2>1. \A r \in Executions : [Idle EXCEPT !.at = "forked"].at = "forked" /\ Idle.at = "idle"
        BY DEF Idle
    <2> QED
        BY <2>1 DEF GenerateBatch
<1>2. \A r \in Executions : runs[r].at = "idle" /\ ~Ahead(r)
    <2>1. \A r \in Executions : runs[r].at = "idle"
        BY <1>1 DEF CollectInv, StageInv
    <2> QED
        BY <2>1 DEF Ahead
<1>3. Len(candidates) = 0
    BY <1>1 DEF CollectInv, CountInv
<1>4. \A r \in Executions : ~Inside(r)' /\ runs'[r].at \notin Live
    BY <1>1 DEF Inside, Live
<1>5. OverlapInv'
    BY <1>4 DEF OverlapInv
<1>6. RestInv'
    <2>1. ReachesTarget' => ReachesTarget
        BY <1>1, AttackStays DEF ReachesTarget, CallsTo
    <2>2. ~tracer.recording /\ tracer.depth = 0 /\ tracer.target # NoContract
        BY <1>1, <1>2 DEF MeasureInv, RestInv
    <2>3. tracer.targetDepth # -1 \/ ~ReachesTarget
        BY <1>2 DEF MeasureInv, RestInv
    <2> QED
        BY <1>1, <2>1, <2>2, <2>3 DEF RestInv
<1>7. PathInv'
    <2>1. \A p \in 0..(TotalCandidates + 1) : p > Len(mutations) + 1 =>
              paths[p] = <<>> /\ tracer.path # p
        BY <1>3 DEF MeasureInv, PathInv
    <2> QED
        BY <1>1, <1>4, <2>1 DEF PathInv
<1>8. 1..Len(candidates') \subseteq Executions
    <2>1. CollectInv'
        BY NextCollectInv DEF CollectNext
    <2> QED
        BY <2>1, SeqOfElements, CollectionAssumption
           DEF CollectInv, CountInv, TypeInv, IsSeq, Executions
<1>9. LoneInv'
    BY <1>4, <1>8 DEF LoneInv
<1>10. DoneInv'
    <2>1. \A r \in 1..Len(candidates') : runs'[r].at \notin {"stopped", "measured"}
        BY <1>1, <1>8
    <2>2. \A i : LonePath(mutations[i])' = LonePath(mutations[i])
        BY <1>1, AttackStays
    <2> QED
        BY <1>1, <2>1, <2>2 DEF DoneInv, MeasureInv
<1> QED
    BY <1>5, <1>6, <1>7, <1>9, <1>10 DEF MeasureInv

LEMMA CollectKeeps == ASSUME CollectInv, MeasureInv, CollectBatch PROVE MeasureInv'
<1> DEFINE m == Len(mutations)
           n == Len(candidates)
           result(r) == [input |-> candidates[r].input, storage |-> candidates[r].storage,
                         success |-> runs[r].success, similarity |-> runs[r].similarity,
                         path |-> runs[r].path, mixed |-> r \in mixed]
           batch == [r \in 1..n |-> result(r)]
<1>1. /\ stage = "batch" /\ stage' = "generate" /\ mixed' = {} /\ candidates' = <<>>
      /\ attack' = attack /\ tracer' = tracer /\ paths' = paths /\ mutations' = mutations \o batch
      /\ \A r \in Executions : runs'[r].at = "idle"
      /\ \A r \in 1..n : runs[r].at = "measured"
    BY DEF CollectBatch, Idle
<1>2. /\ m \in Nat /\ n \in Nat /\ 1..n \subseteq Executions /\ IsSeq(mutations)
    BY SeqOfElements, CollectionAssumption
       DEF CollectInv, TypeInv, IsSeq, CountInv, Executions
<1>3. \A r \in Executions : runs[r].at \in {"idle", "measured"} /\ ~Ahead(r)
    <2>1. \A r \in Executions : runs[r].at \in {"idle", "measured"}
        BY <1>1 DEF CollectInv, StageInv
    <2> QED
        BY <2>1 DEF Ahead
<1>4. \A r \in Executions : ~Inside(r)' /\ runs'[r].at \notin Live
    BY <1>1 DEF Inside, Live
<1>5. /\ IsSeq(batch) /\ Len(batch) = n /\ \A r \in 1..n : batch[r] = result(r)
    <2>1. \A r \in 1..n : batch[r] = result(r)
        OBVIOUS
    <2>2. batch = [r \in 1..n |-> batch[r]]
        OBVIOUS
    <2> HIDE DEF batch, n
    <2> QED
        BY <1>2, <2>1, <2>2, FunctionIsSeq
<1>6. /\ Len(mutations') = m + n
      /\ \A i \in 1..m : mutations'[i] = mutations[i]
      /\ \A r \in 1..n : mutations'[m + r] = result(r)
    <2> HIDE DEF batch, result, n
    <2>1. /\ Len(mutations \o batch) = Len(mutations) + Len(batch)
          /\ \A i \in 1..Len(mutations) : (mutations \o batch)[i] = mutations[i]
          /\ \A i \in 1..Len(batch) : (mutations \o batch)[Len(mutations) + i] = batch[i]
        BY <1>2, <1>5, Concatenated
    <2> QED
        BY <1>1, <1>5, <2>1
<1>7. OverlapInv'
    BY <1>4 DEF OverlapInv
<1>8. RestInv'
    <2>1. ReachesTarget' => ReachesTarget
        BY <1>1, AttackStays DEF ReachesTarget, CallsTo
    <2>2. ~tracer.recording /\ tracer.depth = 0 /\ tracer.target # NoContract
        BY <1>1, <1>3 DEF MeasureInv, RestInv
    <2>3. tracer.targetDepth # -1 \/ ~ReachesTarget
        BY <1>3 DEF MeasureInv, RestInv
    <2> QED
        BY <1>1, <2>1, <2>2, <2>3 DEF RestInv
<1>9. PathInv'
    <2> HIDE DEF m, n
    <2>1. ASSUME NEW p \in 0..(TotalCandidates + 1), p > m + n + 1
          PROVE  paths[p] = <<>> /\ tracer.path # p
        <3>1. p > m + 1 /\ \A r \in 1..n : p # Own(r)
            BY <1>2, <2>1, CollectionAssumption DEF Own, m
        <3> QED
            BY <3>1 DEF MeasureInv, PathInv, m, n
    <2> QED
        BY <1>1, <1>6, <2>1 DEF PathInv
<1>10. LoneInv'
    BY <1>1 DEF LoneInv
<1>11. DoneInv'
    <2>1. \A i : LonePath(i)' = LonePath(i)
        BY <1>1, AttackStays
    <2>2. ASSUME NEW i \in 1..m, mutations'[i].success, ~mutations'[i].mixed
          PROVE  mutations'[i].path = i + 1 /\ paths[i + 1] = LonePath(mutations'[i])
        BY <1>6, <2>2 DEF MeasureInv, DoneInv
    <2>3. ASSUME NEW r \in 1..n, result(r).success, ~result(r).mixed
          PROVE  result(r).path = m + r + 1 /\ paths[m + r + 1] = LonePath(result(r))
        <3>1. runs[r].success /\ r \notin mixed /\ runs[r].at = "measured"
            BY <1>1, <2>3
        <3>2. runs[r].path # 0
            BY <1>2, <3>1 DEF CollectInv, ResultInv
        <3>3. Done(r)
            BY <3>1, <3>2 DEF MeasureInv, DoneInv
        <3>4. LonePath(result(r)) = LonePath(candidates[r])
            BY DEF LonePath
        <3> QED
            BY <3>3, <3>4 DEF Done, Own
    <2> HIDE DEF m, n, result, batch
    <2>4. ASSUME NEW i \in 1..(m + n), mutations'[i].success, ~mutations'[i].mixed
          PROVE  mutations'[i].path = i + 1 /\ paths[i + 1] = LonePath(mutations'[i])
        <3>1. CASE i \in 1..m
            BY <2>2, <2>4, <3>1
        <3>2. CASE i \notin 1..m
            <4> DEFINE r == i - m
            <4>1. r \in 1..n /\ m + r = i
                BY <1>2, <3>2
            <4> HIDE DEF r
            <4>2. mutations'[i] = result(r)
                BY <1>6, <4>1
            <4> QED
                BY <2>3, <2>4, <4>1, <4>2
        <3> QED
            BY <3>1, <3>2
    <2>5. \A i : LonePath(mutations[i])' = LonePath(mutations'[i])
        BY <1>1 DEF LonePath, ExtractedCall
    <2> QED
        BY <1>1, <1>6, <2>4, <2>5 DEF DoneInv
<1> QED
    BY <1>7, <1>8, <1>9, <1>10, <1>11 DEF MeasureInv

\* What an execution under way leaves of the others': their paths, and what is
\* known of those it overlaps.
LEMMA InnerKeeps ==
    ASSUME CollectInv, MeasureInv, NEW r \in Executions, Inside(r), KeepCollection, mixed' = mixed,
           \A q \in Executions \ {r} : runs'[q] = runs[q],
           runs'[r].at \in {"started", "running", "returned", "stopped"},
           \A p \in 0..(TotalCandidates + 1) : p # tracer.path => paths'[p] = paths[p],
           \/ runs[r].at \in Live /\ tracer'.path = tracer.path
           \/ /\ runs[r].at = "targeted" /\ paths' = paths
              /\ tracer'.path = IF r = Original THEN 1 ELSE Own(r)
    PROVE  /\ OverlapInv' /\ PathInv'
           /\ \A q \in Executions \ {r} : Inside(q)' => q \in mixed
           /\ \A q \in 1..Len(candidates) : q # r /\ q \notin mixed =>
                 (runs'[q].at \in {"stopped", "measured"} /\ runs'[q].path # 0 => Done(q)')
           /\ \A i \in 1..Len(mutations) : mutations[i].success /\ ~mutations[i].mixed =>
                 mutations[i].path = i + 1 /\ paths'[i + 1] = LonePath(mutations[i])
<1> DEFINE m == Len(mutations)
           n == Len(candidates)
<1>1. /\ m \in Nat /\ n \in Nat /\ 1..n \subseteq Executions
      /\ (stage = "original" /\ r = Original /\ n = 0 /\ m = 0) \/ (stage = "batch" /\ r \in 1..n)
    BY WhoRuns DEF Inside
<1>2. /\ \A q : Own(q)' = Own(q)
      /\ \A x : LonePath(x)' = LonePath(x)
      /\ attack' = attack /\ candidates' = candidates /\ mutations' = mutations /\ stage' = stage
    BY BatchStays DEF KeepCollection
<1>3. /\ \A q : Own(q) = m + q + 1
      /\ runs[r].at \in {"targeted", "started", "running", "returned"}
    BY DEF Own, Inside
<1>4. OverlapInv'
    <2>1. \A q \in Executions : Inside(q)' => Inside(q)
        BY DEF Inside
    <2> QED
        BY <2>1 DEF MeasureInv, OverlapInv
<1>5. \A q \in Executions \ {r} : Inside(q)' => q \in mixed
    BY DEF MeasureInv, OverlapInv, Inside
<1>6. stage = "batch" /\ runs[r].at \in Live => tracer.path > m + 1
    BY DEF MeasureInv, PathInv
<1>7. stage = "batch" => tracer'.path > m + 1
    BY <1>1, <1>3, <1>6, CollectionAssumption DEF Original
<1>8. ASSUME NEW q \in 1..n, runs[q].at \in Begun PROVE runs'[q].at \in Begun
    BY <1>1, <1>8 DEF Begun
<1>9. ASSUME NEW p \in 0..(TotalCandidates + 1), p > m + 1
      PROVE  \/ paths'[p] = <<>> /\ tracer'.path # p
             \/ \E q \in 1..n : p = Own(q) /\ runs'[q].at \in Begun
    <2>1. \/ paths[p] = <<>> /\ tracer.path # p
          \/ \E q \in 1..n : p = Own(q) /\ runs[q].at \in Begun
        BY <1>9 DEF MeasureInv, PathInv
    <2>2. CASE \E q \in 1..n : p = Own(q) /\ runs[q].at \in Begun
        BY <1>8, <2>2
    <2>3. CASE paths[p] = <<>> /\ tracer.path # p
        <3>1. paths'[p] = <<>>
            BY <2>3
        <3>2. CASE tracer'.path # p
            BY <3>1, <3>2
        <3>3. CASE tracer'.path = p
            <4>1. p # 1
                BY <1>1, <1>9
            <4>2. r # Original /\ p = Own(r)
                BY <2>3, <3>3, <4>1
            <4>3. r \in 1..n /\ runs'[r].at \in Begun
                BY <1>1, <4>2 DEF Begun
            <4> QED
                BY <4>2, <4>3
        <3> QED
            BY <3>2, <3>3
    <2> QED
        BY <2>1, <2>2, <2>3
<1>10. PathInv'
    <2>1. stage' \in {"fetch", "original"} => Len(mutations') = 0
        BY <1>2 DEF MeasureInv, PathInv
    <2> HIDE DEF m, n
    <2>2. \A p \in 0..(TotalCandidates + 1) : p > m + 1 =>
             \/ paths'[p] = <<>> /\ tracer'.path # p
             \/ \E q \in 1..n : p = Own(q)' /\ runs'[q].at \in Begun
        BY <1>2, <1>9
    <2> QED
        BY <1>2, <1>7, <2>1, <2>2 DEF PathInv, m, n
<1>11. ASSUME NEW q \in 1..n, q # r, q \notin mixed, runs'[q].at \in {"stopped", "measured"},
              runs'[q].path # 0
       PROVE  Done(q)'
    <2>1. runs'[q] = runs[q] /\ Done(q) /\ stage = "batch" /\ r \in 1..n
        BY <1>1, <1>11 DEF MeasureInv, DoneInv
    <2>2. tracer'.path # Own(q)
        <3>1. Own(r) # Own(q)
            BY <1>1, <1>3, <1>11, <2>1
        <3>2. r # Original
            BY <1>1, <2>1 DEF Original
        <3> QED
            BY <2>1, <3>1, <3>2 DEF Done
    <2>3. paths'[Own(q)] = paths[Own(q)]
        <3>1. Own(q) \in 0..(TotalCandidates + 1)
            BY <1>1, <1>3, CollectionAssumption DEF CollectInv, CountInv
        <3> QED
            BY <1>3, <2>1, <3>1 DEF Done, Live
    <2> QED
        BY <1>2, <2>1, <2>2, <2>3 DEF Done
<1>12. ASSUME NEW i \in 1..m, mutations[i].success, ~mutations[i].mixed
       PROVE  mutations[i].path = i + 1 /\ paths'[i + 1] = LonePath(mutations[i])
    <2>1. mutations[i].path = i + 1 /\ paths[i + 1] = LonePath(mutations[i])
        BY <1>12 DEF MeasureInv, DoneInv
    <2>2. stage = "batch"
        BY <1>1
    <2>3. paths'[i + 1] = paths[i + 1]
        <3>1. CASE runs[r].at \in Live
            <4>1. tracer.path # i + 1
                <5> HIDE DEF m, n
                <5> QED
                    BY <1>1, <1>6, <2>2, <3>1
            <4>2. i + 1 \in 0..(TotalCandidates + 1)
                BY <1>1, CollectionAssumption DEF CollectInv, CountInv
            <4> QED
                BY <4>1, <4>2
        <3>2. CASE runs[r].at \notin Live
            BY <3>2
        <3> QED
            BY <3>1, <3>2
    <2> QED
        BY <2>1, <2>3
<1> QED
    BY <1>4, <1>5, <1>10, <1>11, <1>12

\* With the tracer and the execution's own path, that is all there is to keep.
LEMMA InnerMeasured ==
    ASSUME CollectInv, MeasureInv, NEW r \in Executions, Inside(r), KeepCollection, mixed' = mixed,
           \A q \in Executions \ {r} : runs'[q] = runs[q],
           runs'[r].at \in {"started", "running", "returned", "stopped"},
           \A p \in 0..(TotalCandidates + 1) : p # tracer.path => paths'[p] = paths[p],
           \/ runs[r].at \in Live /\ tracer'.path = tracer.path
           \/ /\ runs[r].at = "targeted" /\ paths' = paths
              /\ tracer'.path = IF r = Original THEN 1 ELSE Own(r),
           RestInv',
           r \in 1..Len(candidates) /\ r \notin mixed =>
               IF runs'[r].at = "stopped" THEN Done(r)' ELSE Records(r)'
    PROVE  MeasureInv'
<1>1. /\ OverlapInv' /\ PathInv'
      /\ \A q \in Executions \ {r} : Inside(q)' => q \in mixed
      /\ \A q \in 1..Len(candidates) : q # r /\ q \notin mixed =>
            (runs'[q].at \in {"stopped", "measured"} /\ runs'[q].path # 0 => Done(q)')
      /\ \A i \in 1..Len(mutations) : mutations[i].success /\ ~mutations[i].mixed =>
            mutations[i].path = i + 1 /\ paths'[i + 1] = LonePath(mutations[i])
    BY InnerKeeps
<1>2. /\ candidates' = candidates /\ mutations' = mutations
      /\ \A x : LonePath(x)' = LonePath(x)
    BY BatchStays DEF KeepCollection
<1>3. 1..Len(candidates) \subseteq Executions
    BY WhoRuns DEF Inside
<1>4. LoneInv'
    <2> SUFFICES ASSUME NEW q \in 1..Len(candidates), Inside(q)', q \notin mixed PROVE Records(q)'
        BY <1>2 DEF LoneInv
    <2>1. q = r
        BY <1>1, <1>3
    <2>2. runs'[r].at # "stopped"
        BY <2>1 DEF Inside
    <2> QED
        BY <2>1, <2>2
<1>5. DoneInv'
    <2>1. ASSUME NEW q \in 1..Len(candidates), runs'[q].at \in {"stopped", "measured"},
                 runs'[q].path # 0, q \notin mixed
          PROVE  Done(q)'
        <3>1. q = r => runs'[r].at = "stopped"
            BY <2>1
        <3> QED
            BY <1>1, <2>1, <3>1
    <2>2. \A i : LonePath(mutations[i])' = LonePath(mutations[i])
        BY <1>2
    <2> QED
        BY <1>1, <1>2, <2>1, <2>2 DEF DoneInv
<1> QED
    BY <1>1, <1>4, <1>5 DEF MeasureInv

LEMMA SetTargetKeeps ==
    ASSUME CollectInv, MeasureInv, NEW r \in Executions, SetTarget(r) PROVE MeasureInv'
<1> DEFINE others == {q \in Executions \ {r} : Inside(q)}
<1>1. /\ runs[r].at = "forked" /\ runs'[r].at = "targeted" /\ KeepCollection /\ paths' = paths
      /\ \A q \in Executions \ {r} : runs'[q] = runs[q]
      /\ TypeInv /\ IsTracer(tracer)
      /\ mixed' = IF others = {} THEN mixed ELSE mixed \cup others \cup {r}
    BY Moved DEF SetTarget, CollectInv, Places, TypeInv
<1>2. /\ \A q : Own(q)' = Own(q) /\ TargetCalls(q)' = TargetCalls(q)
      /\ \A x : LonePath(x)' = LonePath(x)
      /\ \A c : CallsTo(c)' = CallsTo(c)
      /\ attack' = attack /\ candidates' = candidates /\ mutations' = mutations /\ stage' = stage
    BY <1>1, BatchStays DEF KeepCollection
<1>3. /\ 1..Len(candidates) \subseteq Executions
      /\ (stage = "original" /\ r = Original) \/ (stage = "batch" /\ r \in 1..Len(candidates))
    BY <1>1, WhoRuns
<1>4. tracer'.path = tracer.path /\ tracer'.depth = tracer.depth
    BY <1>1 DEF SetTarget, SetTargetContract, IsTracer
<1>5. \/ TargetCalls(r) = <<>> /\ tracer' = tracer
      \/ /\ TargetCalls(r) # <<>> /\ tracer'.target \in {Protected, Router}
         /\ tracer'.targetDepth = -1 /\ ~tracer'.recording
    BY <1>1, TargetOf DEF SetTarget, SetTargetContract, IsTracer, CollectInv
<1>6. \A q \in Executions : /\ runs'[q].at \in Live => q # r /\ runs[q].at \in Live
                            /\ runs'[q].at = "running" <=> runs[q].at = "running"
    BY <1>1 DEF Live
<1>7. OverlapInv'
    <2> SUFFICES ASSUME NEW a \in Executions, NEW b \in Executions, a # b, Inside(a)', Inside(b)'
                 PROVE  a \in mixed'
        BY DEF OverlapInv
    <2>1. CASE a # r /\ b # r
        BY <1>1, <2>1 DEF MeasureInv, OverlapInv, Inside
    <2>2. CASE a = r \/ b = r
        <3>1. others # {} /\ a \in others \cup {r}
            BY <1>1, <2>2 DEF Inside
        <3> QED
            BY <1>1, <3>1
    <2> QED
        BY <2>1, <2>2
<1>8. RestInv'
    <2>1. tracer'.recording => tracer'.targetDepth # -1
        BY <1>5 DEF MeasureInv, RestInv
    <2>2. (\A q \in Executions : runs'[q].at # "running") => ~tracer'.recording /\ tracer'.depth = 0
        BY <1>4, <1>5, <1>6 DEF MeasureInv, RestInv
    <2>3. tracer'.target # NoContract
        <3>1. CASE TargetCalls(r) # <<>>
            BY <1>5, <3>1, CollectionAssumption
        <3>2. CASE TargetCalls(r) = <<>>
            <4>1. r # Original
                BY <3>2 DEF TargetCalls
            <4>2. stage = "batch" /\ tracer' = tracer
                BY <1>3, <1>5, <3>2, <4>1
            <4> QED
                BY <4>2 DEF MeasureInv, RestInv
        <3> QED
            BY <3>1, <3>2
    <2>4. ASSUME tracer'.targetDepth = -1, ReachesTarget' PROVE \E q \in Executions : Ahead(q)'
        <3>1. CASE TargetCalls(r) # <<>>
            <4>1. Ahead(r)'
                BY <1>1, <1>2, <3>1 DEF Ahead
            <4> QED
                BY <4>1
        <3>2. CASE TargetCalls(r) = <<>>
            <4>1. tracer' = tracer /\ ReachesTarget
                BY <1>2, <1>5, <2>4, <3>2 DEF ReachesTarget, CallsTo
            <4>2. PICK q \in Executions : Ahead(q)
                BY <2>4, <4>1 DEF MeasureInv, RestInv
            <4>3. q # r /\ runs'[q] = runs[q]
                BY <1>1, <3>2, <4>2 DEF Ahead
            <4>4. Ahead(q)'
                BY <1>2, <4>1, <4>2, <4>3 DEF Ahead, CallsTo
            <4> QED
                BY <4>4
        <3> QED
            BY <3>1, <3>2
    <2> QED
        BY <2>1, <2>2, <2>3, <2>4 DEF RestInv
<1>9. PathInv'
    <2>1. \A q \in Executions : runs[q].at \in Begun => runs'[q].at \in Begun
        BY <1>1 DEF Begun
    <2>2. stage' \in {"fetch", "original"} => Len(mutations') = 0
        BY <1>2 DEF MeasureInv, PathInv
    <2>3. \A p \in 0..(TotalCandidates + 1) : p > Len(mutations) + 1 =>
             \/ paths[p] = <<>> /\ tracer.path # p
             \/ \E q \in 1..Len(candidates) : p = Own(q) /\ runs'[q].at \in Begun
        BY <1>3, <2>1 DEF MeasureInv, PathInv
    <2>4. stage' = "batch" /\ (\E q \in Executions : runs'[q].at \in Live)
            => tracer.path > Len(mutations) + 1
        BY <1>2, <1>6 DEF MeasureInv, PathInv
    <2> QED
        BY <1>1, <1>2, <1>4, <2>2, <2>3, <2>4 DEF PathInv
<1>10. LoneInv'
    <2> SUFFICES ASSUME NEW q \in 1..Len(candidates), Inside(q)', q \notin mixed' PROVE Records(q)'
        BY <1>2 DEF LoneInv
    <2>1. q = r
        BY <1>1, <1>3 DEF Inside
    <2> QED
        BY <2>1, SetTargetRecords
<1>11. DoneInv'
    <2>1. ASSUME NEW q \in 1..Len(candidates), runs'[q].at \in {"stopped", "measured"},
                 runs'[q].path # 0, q \notin mixed'
          PROVE  Done(q)'
        <3>1. q # r /\ runs'[q] = runs[q] /\ q \notin mixed
            BY <1>1, <1>3, <2>1
        <3>2. Done(q)
            BY <2>1, <3>1 DEF MeasureInv, DoneInv
        <3> QED
            BY <1>1, <1>2, <1>4, <1>6, <3>1, <3>2 DEF Done
    <2>2. \A i \in 1..Len(mutations) : mutations[i].success /\ ~mutations[i].mixed =>
             mutations[i].path = i + 1 /\ paths[i + 1] = LonePath(mutations[i])
        BY DEF MeasureInv, DoneInv
    <2>3. \A i : LonePath(mutations[i])' = LonePath(mutations[i])
        BY <1>2
    <2> QED
        BY <1>1, <1>2, <2>1, <2>2, <2>3 DEF DoneInv
<1> QED
    BY <1>7, <1>8, <1>9, <1>10, <1>11 DEF MeasureInv

LEMMA TraceKeeps ==
    ASSUME CollectInv, MeasureInv, NEW r \in Executions, Trace(r) PROVE MeasureInv'
<1>1. /\ runs[r].at = "targeted" /\ runs'[r].at = "started" /\ KeepCollection /\ paths' = paths
      /\ \A q \in Executions \ {r} : runs'[q] = runs[q]
      /\ TypeInv /\ IsTracer(tracer) /\ mixed' = mixed
    BY Moved DEF Trace, CollectInv, Places, TypeInv
<1>2. /\ \A q : TargetCalls(q)' = TargetCalls(q)
      /\ attack' = attack /\ stage' = stage
    BY <1>1, BatchStays DEF KeepCollection
<1>3. /\ tracer'.path = IF r = Original THEN 1 ELSE Own(r)
      /\ tracer'.target = tracer.target /\ tracer'.recording = tracer.recording
      /\ tracer'.targetDepth = tracer.targetDepth /\ tracer'.depth = tracer.depth
    BY <1>1 DEF Trace, StartTrace, IsTracer, Own
<1>4. RestInv'
    <2>1. \A q \in Executions : runs'[q].at = "running" <=> runs[q].at = "running"
        BY <1>1
    <2>2. runs'[Original].at \in {"targeted", "started", "running", "returned", "stopped"}
            => tracer.target # NoContract
        BY <1>1, CollectionAssumption DEF MeasureInv, RestInv, Executions, Original
    <2>3. ASSUME tracer'.targetDepth = -1, ReachesTarget' PROVE \E q \in Executions : Ahead(q)'
        <3>1. ReachesTarget
            BY <1>2, <1>3, <2>3 DEF ReachesTarget, CallsTo
        <3>2. PICK q \in Executions : Ahead(q)
            BY <1>3, <2>3, <3>1 DEF MeasureInv, RestInv
        <3>3. CASE q = r
            BY <1>1, <1>2, <3>2, <3>3 DEF Ahead
        <3>4. CASE q # r
            BY <1>1, <1>2, <1>3, <3>2, <3>4 DEF Ahead, CallsTo
        <3> QED
            BY <3>3, <3>4
    <2> QED
        BY <1>2, <1>3, <2>1, <2>2, <2>3 DEF RestInv, MeasureInv
<1>5. r \in 1..Len(candidates) /\ r \notin mixed => Records(r)'
    BY TraceRecords
<1> QED
    BY <1>1, <1>3, <1>4, <1>5, InnerMeasured DEF Inside

LEMMA CallKeeps ==
    ASSUME CollectInv, MeasureInv, NEW r \in Executions, Call(r) PROVE MeasureInv'
<1>1. /\ runs[r].at = "started" /\ runs'[r].at = "running" /\ runs'[r].hook = 1
      /\ KeepCollection /\ paths' = paths
      /\ \A q \in Executions \ {r} : runs'[q] = runs[q]
      /\ TypeInv /\ IsTracer(tracer) /\ mixed' = mixed
    BY DEF Call, CollectInv, TypeInv, Fields
<1>2. /\ \A q : TargetCalls(q)' = TargetCalls(q)
      /\ attack' = attack /\ stage' = stage
    BY <1>1, BatchStays DEF KeepCollection
<1>3. /\ tracer'.path = tracer.path /\ tracer'.target = tracer.target
      /\ tracer' = tracer \/ tracer'.targetDepth \in 0..1
    <2>1. tracer' = tracer \/ tracer' = OnTargetContractCalled(tracer, attack.to)
        BY DEF Call
    <2> DEFINE u == OnTargetContractCalled(tracer, attack.to)
               hit == attack.to = tracer.target /\ ~tracer.recording
    <2>2. /\ u.target = tracer.target /\ u.path = tracer.path
          /\ hit => u.recording /\ u.targetDepth = tracer.depth
          /\ ~hit => u = tracer
        BY <1>1, TracerActs
    <2>3. tracer.depth \in 0..1
        BY <1>1 DEF IsTracer
    <2> HIDE DEF u
    <2> QED
        BY <2>1, <2>2, <2>3 DEF u
<1>4. RestInv'
    <2>1. tracer'.recording => tracer'.targetDepth # -1
        BY <1>3 DEF MeasureInv, RestInv
    <2>2. runs'[Original].at \in {"targeted", "started", "running", "returned", "stopped"}
            => tracer.target # NoContract
        BY <1>1, CollectionAssumption DEF MeasureInv, RestInv, Executions, Original
    <2>3. ASSUME tracer'.targetDepth = -1, ReachesTarget' PROVE \E q \in Executions : Ahead(q)'
        <3>1. tracer' = tracer /\ ReachesTarget
            BY <1>2, <1>3, <2>3 DEF ReachesTarget, CallsTo
        <3>2. PICK q \in Executions : Ahead(q)
            BY <2>3, <3>1 DEF MeasureInv, RestInv
        <3>3. CASE q = r
            <4>1. attack.to = tracer.target \/ \E j \in CallsTo(tracer.target) : 1 <= 3 * j - 1
                <5>1. \A j \in CallsTo(tracer.target) : 1 <= 3 * j - 1
                    <6>1. Len(attack.calls) \in Nat
                        BY <1>1, CollectionAssumption DEF TypeInv
                    <6> QED
                        BY <6>1 DEF CallsTo
                <5> QED
                    BY <3>1, <5>1 DEF ReachesTarget
            <4>2. TargetCalls(r) # <<>>
                BY <3>2, <3>3 DEF Ahead
            <4>3. Ahead(r)'
                BY <1>1, <1>2, <3>1, <4>1, <4>2 DEF Ahead, CallsTo
            <4> QED
                BY <4>3
        <3>4. CASE q # r
            BY <1>1, <1>2, <3>1, <3>2, <3>4 DEF Ahead, CallsTo
        <3> QED
            BY <3>3, <3>4
    <2> QED
        BY <1>1, <1>2, <1>3, <2>1, <2>2, <2>3 DEF RestInv, MeasureInv
<1>5. r \in 1..Len(candidates) /\ r \notin mixed => Records(r)'
    BY CallRecords
<1> QED
    BY <1>1, <1>3, <1>4, <1>5, InnerMeasured DEF Inside, Live

\* An execution passes the first frame of its target only by recording it.
LEMMA StaysAhead ==
    ASSUME CollectInv, MeasureInv, NEW r \in Executions, EVMStep(r), tracer'.targetDepth = -1,
           Ahead(r)
    PROVE  Ahead(r)'
<1> DEFINE n == Len(attack.calls)
           k == runs[r].hook
<1>1. /\ TypeInv /\ IsTracer(tracer) /\ runs[r].at = "running" /\ tracer.targetDepth = -1
      /\ tracer'.target = tracer.target /\ KeepCollection
    BY HookLeaves DEF CollectInv, TypeInv, EVMStep
<1>2. /\ n \in Nat /\ k \in 1..(3 * n + 3) /\ runs'[r].hook = k + 1
      /\ runs'[r].at = IF k = 3 * n + 3 THEN "returned" ELSE "running"
      /\ k = 1 => tracer' = OnEnter(tracer, attack.to, 0)
      /\ \A j \in 1..n : k = 3 * j - 1 => tracer' = OnEnter(tracer, attack.calls[j].to, 1)
    BY <1>1, HookActs
<1>3. /\ TargetCalls(r)' = TargetCalls(r) /\ attack' = attack
    BY <1>1, BatchStays DEF KeepCollection
<1>4. ~tracer.recording
    BY <1>1 DEF MeasureInv, RestInv
<1>5. \A to : \A d \in {0, 1} : to = tracer.target => OnEnter(tracer, to, d).targetDepth # -1
    <2> SUFFICES ASSUME NEW to, NEW d \in {0, 1}, to = tracer.target
                 PROVE  OnEnter(tracer, to, d).targetDepth # -1
        OBVIOUS
    <2>1. OnEnter(tracer, to, d).targetDepth = d
        BY <1>1, <1>4, TracerActs
    <2> QED
        BY <2>1
<1>6. /\ k = 1 => attack.to # tracer.target
      /\ \A j \in CallsTo(tracer.target) : k # 3 * j - 1
    BY <1>2, <1>5 DEF CallsTo
<1>7. TargetCalls(r) # <<>> /\ \E j \in CallsTo(tracer.target) : k <= 3 * j - 1
    BY <1>1, <1>6 DEF Ahead
<1> HIDE DEF k, n
<1>8. PICK j \in CallsTo(tracer.target) : k <= 3 * j - 1
    BY <1>7
<1>9. j \in 1..n /\ k # 3 * j - 1
    BY <1>6 DEF CallsTo, n
<1>10. k + 1 <= 3 * j - 1 /\ k # 3 * n + 3
    BY <1>2, <1>8, <1>9
<1>11. runs'[r].at = "running" /\ runs'[r].hook <= 3 * j - 1
    BY <1>2, <1>10
<1>12. CallsTo(tracer.target)' = CallsTo(tracer.target)
    BY <1>1, <1>3 DEF CallsTo
<1> QED
    BY <1>3, <1>7, <1>11, <1>12 DEF Ahead

LEMMA EVMStepKeeps ==
    ASSUME CollectInv, MeasureInv, NEW r \in Executions, EVMStep(r) PROVE MeasureInv'
<1> DEFINE n == Len(attack.calls)
           k == runs[r].hook
<1>1. /\ runs[r].at = "running" /\ KeepCollection /\ mixed' = mixed
      /\ \A q \in Executions \ {r} : runs'[q] = runs[q]
      /\ TypeInv /\ IsTracer(tracer)
      /\ n \in Nat /\ k \in 1..(3 * n + 3)
      /\ runs'[r].at = IF k = 3 * n + 3 THEN "returned" ELSE "running"
      /\ k = 3 * n + 3 => tracer' = OnExit(tracer, 0)
    BY HookActs DEF CollectInv, TypeInv
<1>2. /\ \A q : TargetCalls(q)' = TargetCalls(q)
      /\ attack' = attack /\ stage' = stage
    BY <1>1, BatchStays DEF KeepCollection
<1>3. /\ tracer'.path = tracer.path /\ tracer'.target = tracer.target
      /\ tracer'.targetDepth = -1 => tracer.targetDepth = -1
      /\ tracer'.recording /\ tracer'.targetDepth = -1 => tracer.recording
    BY <1>1, HookLeaves
<1>4. \A p \in 0..(TotalCandidates + 1) : p # tracer.path => paths'[p] = paths[p]
    <2>1. paths' = paths \/ \E jump : paths' \in Appended(r, jump)
        BY <1>1, HookTaken
    <2>2. ASSUME NEW jump, paths' \in Appended(r, jump)
          PROVE  paths' = paths \/ paths' = [paths EXCEPT ![tracer.path] = Append(@, jump)]
        BY <2>2 DEF Appended
    <2>3. DOMAIN paths = 0..(TotalCandidates + 1)
        BY <1>1 DEF TypeInv
    <2> QED
        BY <2>1, <2>2, <2>3
<1>5. RestInv'
    <2>1. tracer'.recording => tracer'.targetDepth # -1
        BY <1>3 DEF MeasureInv, RestInv
    <2>2. (\A q \in Executions : runs'[q].at # "running") => ~tracer'.recording /\ tracer'.depth = 0
        <3> SUFFICES ASSUME runs'[r].at # "running" PROVE ~tracer'.recording /\ tracer'.depth = 0
            OBVIOUS
        <3>1. tracer' = OnExit(tracer, 0)
            BY <1>1
        <3>2. /\ OnExit(tracer, 0).depth = 0
              /\ OnExit(tracer, 0).recording => tracer.recording /\ 0 > tracer.targetDepth
            BY <1>1, TracerActs
        <3>3. tracer.targetDepth \in -1..1 /\ (tracer.recording => tracer.targetDepth # -1)
            BY <1>1 DEF IsTracer, MeasureInv, RestInv
        <3>4. ~OnExit(tracer, 0).recording
            BY <3>2, <3>3
        <3> QED
            BY <3>1, <3>2, <3>4
    <2>3. runs'[Original].at \in {"targeted", "started", "running", "returned", "stopped"}
            => tracer.target # NoContract
        BY <1>1, CollectionAssumption DEF MeasureInv, RestInv, Executions, Original
    <2>4. ASSUME tracer'.targetDepth = -1, ReachesTarget' PROVE \E q \in Executions : Ahead(q)'
        <3>1. ReachesTarget
            BY <1>2, <1>3, <2>4 DEF ReachesTarget, CallsTo
        <3>2. PICK q \in Executions : Ahead(q)
            BY <1>3, <2>4, <3>1 DEF MeasureInv, RestInv
        <3>3. CASE q = r
            BY <2>4, <3>2, <3>3, StaysAhead
        <3>4. CASE q # r
            BY <1>1, <1>2, <1>3, <3>2, <3>4 DEF Ahead, CallsTo
        <3> QED
            BY <3>3, <3>4
    <2> QED
        BY <1>2, <1>3, <2>1, <2>2, <2>3, <2>4 DEF RestInv, MeasureInv
<1>6. ASSUME r \in 1..Len(candidates), r \notin mixed PROVE Records(r)'
    BY <1>6, EVMStepRecords DEF LoneStep
<1>7. runs'[r].at \in {"running", "returned"}
    BY <1>1
<1> QED
    BY <1>1, <1>3, <1>4, <1>5, <1>6, <1>7, InnerMeasured DEF Inside, Live

LEMMA ReturnPathKeeps ==
    ASSUME CollectInv, MeasureInv, NEW r \in Executions, ReturnPath(r) PROVE MeasureInv'
<1>1. /\ runs[r].at = "returned" /\ runs'[r].at = "stopped" /\ KeepCollection /\ paths' = paths
      /\ \A q \in Executions \ {r} : runs'[q] = runs[q]
      /\ TypeInv /\ IsTracer(tracer) /\ mixed' = mixed
    BY DEF ReturnPath, CollectInv, TypeInv, Fields
<1>2. /\ \A q : TargetCalls(q)' = TargetCalls(q) /\ Own(q)' = Own(q)
      /\ \A x : LonePath(x)' = LonePath(x)
      /\ attack' = attack /\ stage' = stage /\ candidates' = candidates
    BY <1>1, BatchStays DEF KeepCollection
<1>3. /\ tracer'.path = tracer.path /\ tracer'.target = tracer.target
      /\ tracer'.recording = tracer.recording
      /\ tracer'.targetDepth = tracer.targetDepth /\ tracer'.depth = tracer.depth
    BY <1>1 DEF ReturnPath, StopTrace, IsTracer
<1>4. RestInv'
    <2>1. \A q \in Executions : runs'[q].at = "running" <=> runs[q].at = "running"
        BY <1>1
    <2>2. runs'[Original].at \in {"targeted", "started", "running", "returned", "stopped"}
            => tracer.target # NoContract
        BY <1>1, CollectionAssumption DEF MeasureInv, RestInv, Executions, Original
    <2>3. ASSUME tracer'.targetDepth = -1, ReachesTarget' PROVE \E q \in Executions : Ahead(q)'
        <3>1. ReachesTarget
            BY <1>2, <1>3, <2>3 DEF ReachesTarget, CallsTo
        <3>2. PICK q \in Executions : Ahead(q)
            BY <1>3, <2>3, <3>1 DEF MeasureInv, RestInv
        <3>3. q # r
            BY <1>1, <3>2 DEF Ahead
        <3> QED
            BY <1>1, <1>2, <1>3, <3>2, <3>3 DEF Ahead, CallsTo
    <2> QED
        BY <1>2, <1>3, <2>1, <2>2, <2>3 DEF RestInv, MeasureInv
<1>5. ASSUME r \in 1..Len(candidates), r \notin mixed PROVE Done(r)'
    <2>1. runs'[r].path = Own(r) /\ paths'[Own(r)] = LonePath(candidates[r])
        BY <1>5, ReturnRecords
    <2>2. \A q \in Executions : runs'[q].at \notin Live
        <3>1. \A q \in Executions \ {r} : runs[q].at \notin Live
            BY <1>1, <1>5, Alone DEF MeasureInv, Inside, Live
        <3> QED
            BY <1>1, <3>1 DEF Live
    <2> QED
        BY <1>2, <2>1, <2>2 DEF Done
<1> QED
    BY <1>1, <1>3, <1>4, <1>5, InnerMeasured DEF Inside, Live

LEMMA InitMeasureInv == CollectInit => MeasureInv
<1> SUFFICES ASSUME CollectInit PROVE MeasureInv
    OBVIOUS
<1>1. /\ Len(candidates) = 0 /\ Len(mutations) = 0 /\ stage = "fetch"
      /\ tracer.target = NoContract /\ ~tracer.recording /\ tracer.depth = 0 /\ tracer.path = 0
      /\ \A p \in 0..(TotalCandidates + 1) : paths[p] = <<>>
      /\ \A r \in Executions : runs[r].at = "idle"
    BY DEF CollectInit, NewJumpTracer, Idle
<1>2. Original \in Executions
    BY CollectionAssumption DEF Original, Executions
<1>3. OverlapInv
    BY <1>1 DEF OverlapInv, Inside
<1>4. RestInv
    BY <1>1, <1>2 DEF RestInv, ReachesTarget
<1>5. PathInv
    BY <1>1 DEF PathInv
<1>6. LoneInv /\ DoneInv
    BY <1>1 DEF LoneInv, DoneInv
<1> QED
    BY <1>3, <1>4, <1>5, <1>6 DEF MeasureInv

LEMMA NextMeasureInv == CollectInv /\ MeasureInv /\ [CollectNext]_collectVars => MeasureInv'
<1> SUFFICES ASSUME CollectInv, MeasureInv, [CollectNext]_collectVars PROVE MeasureInv'
    OBVIOUS
<1>0. /\ TypeInv /\ Original \in Executions /\ 1..BatchSize \subseteq Executions
      /\ DOMAIN runs = Executions /\ \A r \in Executions : DOMAIN runs[r] = Fields
    BY CollectionAssumption DEF CollectInv, TypeInv, Original, Executions
<1>1. CASE Fetch
    <2>1. /\ stage = "fetch" /\ stage' = "original" /\ runs'[Original].at = "forked"
          /\ \A r \in Executions \ {Original} : runs'[r] = runs[r]
        BY <1>0, <1>1 DEF Fetch, Fields
    <2>2. runs[Original].at = "idle"
        BY <1>0, <2>1 DEF CollectInv, StageInv
    <2> QED
        BY <1>1, <2>1, <2>2, ControlKeeps DEF Fetch, Inside, Begun
<1>2. CASE FetchFails \/ CollectionDone \/ CollectEnds \/ UNCHANGED collectVars
    BY <1>2, ControlKeeps DEF FetchFails, CollectionDone, CollectEnds, collectVars
<1>3. CASE OriginalDone
    <2>1. /\ runs[Original].at = "stopped" /\ runs'[Original].at = "idle"
          /\ \A r \in Executions \ {Original} : runs'[r] = runs[r]
        BY <1>0, <1>3 DEF OriginalDone, Step, Fields
    <2>2. Original \notin 1..Len(candidates)
        BY DEF Original
    <2> QED
        BY <1>3, <2>1, <2>2, ControlKeeps DEF OriginalDone, Inside
<1>4. CASE GenerateBatch
    BY <1>4, GenerateKeeps
<1>5. CASE CollectBatch
    BY <1>5, CollectKeeps
<1>6. ASSUME NEW r \in Executions, ExecutionFails(r) PROVE MeasureInv'
    <2>1. runs[r].at = "forked" /\ runs[r].path = 0
        BY <1>6 DEF ExecutionFails, CollectInv, ResultInv
    <2>2. /\ runs'[r].at = IF r = Original THEN "idle" ELSE "measured"
          /\ runs'[r].path = runs[r].path
          /\ \A q \in Executions \ {r} : runs'[q] = runs[q]
        BY <1>0, <1>6 DEF ExecutionFails, Fields
    <2> QED
        BY <1>6, <2>1, <2>2, ControlKeeps DEF ExecutionFails, Inside, Begun
<1>7. ASSUME NEW r \in 1..BatchSize, Measure(r) PROVE MeasureInv'
    <2>1. /\ r \in Executions /\ runs[r].at = "stopped" /\ runs'[r].at = "measured"
          /\ runs'[r].path = runs[r].path
          /\ \A q \in Executions \ {r} : runs'[q] = runs[q]
        BY <1>0, <1>7 DEF Measure, Fields
    <2> QED
        BY <1>7, <2>1, ControlKeeps DEF Measure, Inside, Begun
<1> QED
    BY <1>1, <1>2, <1>3, <1>4, <1>5, <1>6, <1>7, SetTargetKeeps, TraceKeeps, CallKeeps,
       EVMStepKeeps, ReturnPathKeeps
       DEF CollectNext, Execution

-----------------------------------------------------------------------------
(* Whose result is collected where                                         *)

\* A path is Own(s) only of s, of an execution that overlapped s, or if s failed;
\* what a lone execution measured stands.
FailedRun(s) == runs[s].at = "measured" /\ runs[s].path = 0
HasPath(q) == runs[q].at \in {"stopped", "measured"} /\ runs[q].path # 0
MeasuredOwn(q) == runs[q].similarity = PathSimilarity(paths[1], paths[Own(q)])
OwnInv ==
    /\ stage = "batch" =>
          \A q \in Executions : HasPath(q) =>
              \E s \in 1..Len(candidates) :
                  runs[q].path = Own(s) /\ (s = q \/ s \in mixed \/ FailedRun(s))
    /\ \A q \in 1..Len(candidates) :
          runs[q].at = "measured" /\ runs[q].path # 0 /\ q \notin mixed => MeasuredOwn(q)
    /\ \A i \in 1..Len(mutations) : mutations[i].path # 0 =>
          \E j \in 1..Len(mutations) :
              /\ mutations[i].path = j + 1
              /\ j = i \/ mutations[j].mixed \/ ~mutations[j].success
    /\ \A i \in 1..Len(mutations) : mutations[i].success /\ ~mutations[i].mixed =>
          (i \in successful <=> AtLeast(PathSimilarity(paths[1], paths[i + 1]), Threshold))

\* No execution of a candidate appends to the path of the original one.
LEMMA OriginalStays ==
    ASSUME CollectInv, NEW r \in Executions, r # Original, EVMStep(r)
    PROVE  paths'[1] = paths[1]
<1>1. CASE paths' = paths
    BY <1>1
<1>2. CASE paths' # paths
    <2>1. PICK jump : paths' \in Appended(r, jump)
        BY <1>2, HookTaken DEF CollectInv
    <2>2. paths' = [paths EXCEPT ![tracer.path] = Append(@, jump)]
        BY <1>2, <2>1 DEF Appended
    <2>3. runs[r].at = "running"
        BY DEF EVMStep
    <2>4. tracer.path # 1
        BY <2>3 DEF CollectInv, TracerInv
    <2> QED
        BY <2>2, <2>4
<1> QED
    BY <1>1, <1>2

\* A step of one execution leaves the results of the others.
LEMMA OwnStays ==
    ASSUME CollectInv, MeasureInv, MeasureInv', OwnInv, NEW r \in Executions, KeepCollection,
           \A q \in Executions \ {r} : runs'[q] = runs[q],
           runs[r].at \notin {"idle", "measured"}, mixed \subseteq mixed',
           r # Original => paths'[1] = paths[1],
           stage = "batch" /\ HasPath(r)' =>
               \E s \in 1..Len(candidates) :
                   runs'[r].path = Own(s) /\ (s = r \/ s \in mixed \/ FailedRun(s)),
           r \in 1..Len(candidates) /\ runs'[r].at = "measured" /\ runs'[r].path # 0
               /\ r \notin mixed' => MeasuredOwn(r)'
    PROVE  OwnInv'
<1>1. /\ attack' = attack /\ stage' = stage /\ candidates' = candidates
      /\ mutations' = mutations /\ successful' = successful
    BY DEF KeepCollection
<1>2. \A q : Own(q)' = Own(q) /\ LonePath(q)' = LonePath(q)
    BY <1>1, BatchStays
<1>3. Len(candidates) \in Nat /\ 1..Len(candidates) \subseteq Executions
    BY SeqOfElements, CollectionAssumption
       DEF CollectInv, TypeInv, IsSeq, CountInv, Executions
<1>4. CASE r = Original
    <2>1. stage = "original"
        BY <1>4 DEF CollectInv, StageInv, Original
    <2>2. Len(candidates) = 0 /\ Len(mutations) = 0
        BY <2>1 DEF CollectInv, CountInv, MeasureInv, PathInv
    <2> QED
        BY <1>1, <2>1, <2>2 DEF OwnInv
<1>5. CASE r # Original
    <2>1. \A s \in 1..Len(candidates) : FailedRun(s) => FailedRun(s)'
        BY <1>3 DEF FailedRun
    <2>2. ASSUME stage = "batch", NEW q \in Executions, HasPath(q)'
          PROVE  \E s \in 1..Len(candidates) :
                    runs'[q].path = Own(s) /\ (s = q \/ s \in mixed' \/ FailedRun(s)')
        <3>1. PICK s \in 1..Len(candidates) :
                 runs'[q].path = Own(s) /\ (s = q \/ s \in mixed \/ FailedRun(s))
            <4>1. CASE q = r
                BY <2>2, <4>1
            <4>2. CASE q # r
                <5>1. runs'[q] = runs[q] /\ HasPath(q)
                    BY <2>2, <4>2 DEF HasPath
                <5> QED
                    BY <2>2, <5>1 DEF OwnInv
            <4> QED
                BY <4>1, <4>2
        <3> QED
            BY <2>1, <3>1
    <2>3. ASSUME NEW q \in 1..Len(candidates), runs'[q].at = "measured", runs'[q].path # 0,
                 q \notin mixed'
          PROVE  MeasuredOwn(q)'
        <3>1. CASE q = r
            BY <2>3, <3>1
        <3>2. CASE q # r
            <4>1. runs'[q] = runs[q] /\ q \notin mixed
                BY <1>3, <2>3, <3>2
            <4>2. MeasuredOwn(q)
                BY <2>3, <4>1 DEF OwnInv
            <4>3. paths[Own(q)] = LonePath(candidates[q])
                BY <2>3, <4>1 DEF MeasureInv, DoneInv, Done
            <4>4. paths'[Own(q)] = LonePath(candidates[q])
                <5>1. Done(q)'
                    BY <1>1, <2>3 DEF MeasureInv, DoneInv
                <5>2. paths'[Own(q)'] = LonePath(candidates[q])'
                    BY <5>1 DEF Done
                <5>3. LonePath(candidates[q])' = LonePath(candidates[q])
                    BY <1>1, BatchStays
                <5> QED
                    BY <1>2, <5>2, <5>3
            <4> QED
                BY <1>2, <1>5, <4>1, <4>2, <4>3, <4>4 DEF MeasuredOwn
        <3> QED
            BY <3>1, <3>2
    <2>4. ASSUME NEW i \in 1..Len(mutations), mutations[i].success, ~mutations[i].mixed
          PROVE  i \in successful <=> AtLeast(PathSimilarity(paths'[1], paths'[i + 1]), Threshold)
        <3>1. paths[i + 1] = LonePath(mutations[i])
            BY <2>4 DEF MeasureInv, DoneInv
        <3>2. paths'[i + 1] = LonePath(mutations[i])
            <4>1. paths'[i + 1] = LonePath(mutations[i])'
                BY <1>1, <2>4 DEF MeasureInv, DoneInv
            <4>2. LonePath(mutations[i])' = LonePath(mutations[i])
                BY <1>1, BatchStays
            <4> QED
                BY <4>1, <4>2
        <3>3. paths'[i + 1] = paths[i + 1] /\ paths'[1] = paths[1]
            BY <1>5, <3>1, <3>2
        <3> QED
            BY <2>4, <3>3 DEF OwnInv
    <2>5. \A i \in 1..Len(mutations) : mutations[i].path # 0 =>
              \E j \in 1..Len(mutations) :
                  /\ mutations[i].path = j + 1
                  /\ j = i \/ mutations[j].mixed \/ ~mutations[j].success
        BY DEF OwnInv
    <2> QED
        BY <1>1, <1>2, <2>2, <2>3, <2>4, <2>5 DEF OwnInv
<1> QED
    BY <1>4, <1>5

\* The tracer is on the path of the candidate that gets it, or that candidate
\* overlapped it or failed.
LEMMA ReturnedPath ==
    ASSUME CollectInv, MeasureInv, NEW r \in Executions, stage = "batch",
           runs[r].at = "returned"
    PROVE  \E s \in 1..Len(candidates) :
               tracer.path = Own(s) /\ (s = r \/ s \in mixed \/ FailedRun(s))
<1>1. /\ tracer.path \in 0..(TotalCandidates + 1) /\ 1..Len(candidates) \subseteq Executions
    BY SeqOfElements, CollectionAssumption
       DEF CollectInv, TypeInv, IsTracer, IsSeq, CountInv, Executions
<1>2. tracer.path > Len(mutations) + 1
    BY DEF MeasureInv, PathInv, Live
<1>3. PICK s \in 1..Len(candidates) : tracer.path = Own(s) /\ runs[s].at \in Begun
    BY <1>1, <1>2 DEF MeasureInv, PathInv
<1>4. CASE s # r /\ runs[s].at \in {"started", "running", "returned"}
    BY <1>1, <1>3, <1>4 DEF MeasureInv, OverlapInv, Inside
<1>5. CASE s # r /\ runs[s].at \in {"stopped", "measured"}
    <2>1. CASE runs[s].path = 0
        BY <1>1, <1>3, <1>5, <2>1 DEF CollectInv, ResultInv, FailedRun
    <2>2. CASE runs[s].path # 0 /\ s \notin mixed
        <3>1. Done(s)
            BY <1>5, <2>2 DEF MeasureInv, DoneInv
        <3> QED
            BY <1>3, <3>1 DEF Done, Live
    <2> QED
        BY <1>3, <2>1, <2>2
<1> QED
    BY <1>3, <1>4, <1>5 DEF Begun

LEMMA CollectOwn ==
    ASSUME CollectInv, MeasureInv, OwnInv, CollectBatch PROVE OwnInv'
<1> DEFINE m == Len(mutations)
           n == Len(candidates)
           result(r) == [input |-> candidates[r].input, storage |-> candidates[r].storage,
                         success |-> runs[r].success, similarity |-> runs[r].similarity,
                         path |-> runs[r].path, mixed |-> r \in mixed]
           batch == [r \in 1..n |-> result(r)]
<1>1. /\ stage = "batch" /\ stage' = "generate" /\ candidates' = <<>>
      /\ paths' = paths /\ mutations' = mutations \o batch
      /\ successful' = successful \cup {m + r : r \in {q \in 1..n : Succeeds(batch[q])}}
      /\ \A r \in 1..n : runs[r].at = "measured"
    BY DEF CollectBatch
<1>2. /\ m \in Nat /\ n \in Nat /\ 1..n \subseteq Executions /\ IsSeq(mutations)
    BY SeqOfElements, CollectionAssumption
       DEF CollectInv, TypeInv, IsSeq, CountInv, Executions
<1>3. /\ IsSeq(batch) /\ Len(batch) = n /\ \A r \in 1..n : batch[r] = result(r)
    <2>1. \A r \in 1..n : batch[r] = result(r)
        OBVIOUS
    <2>2. batch = [r \in 1..n |-> batch[r]]
        OBVIOUS
    <2> HIDE DEF batch, n
    <2> QED
        BY <1>2, <2>1, <2>2, FunctionIsSeq
<1>4. /\ Len(mutations') = m + n
      /\ \A i \in 1..m : mutations'[i] = mutations[i]
      /\ \A r \in 1..n : mutations'[m + r] = result(r)
    <2> HIDE DEF batch, result, n
    <2>1. /\ Len(mutations \o batch) = Len(mutations) + Len(batch)
          /\ \A i \in 1..Len(mutations) : (mutations \o batch)[i] = mutations[i]
          /\ \A i \in 1..Len(batch) : (mutations \o batch)[Len(mutations) + i] = batch[i]
        BY <1>2, <1>3, Concatenated
    <2> QED
        BY <1>1, <1>3, <2>1
<1>5. /\ \A i \in 1..m : i \in successful' <=> i \in successful
      /\ \A r \in 1..n : m + r \in successful' <=> Succeeds(result(r))
    <2>1. successful \subseteq 1..m
        BY DEF CollectInv, CountInv
    <2>2. successful' = successful \cup {m + r : r \in {q \in 1..n : Succeeds(result(q))}}
        BY <1>1, <1>3
    <2> HIDE DEF m, n, result, batch
    <2>3. \A r \in 1..n : m + r \notin 1..m
        BY <1>2
    <2>4. \A r, q \in 1..n : m + r = m + q => r = q
        BY <1>2
    <2> QED
        BY <1>2, <2>1, <2>2, <2>3, <2>4
<1>6. ASSUME NEW r \in 1..n, result(r).path # 0
      PROVE  \E j \in 1..(m + n) :
                 /\ result(r).path = j + 1
                 /\ j = m + r \/ mutations'[j].mixed \/ ~mutations'[j].success
    <2>1. HasPath(r)
        BY <1>1, <1>6 DEF HasPath
    <2>2. PICK s \in 1..n : runs[r].path = Own(s) /\ (s = r \/ s \in mixed \/ FailedRun(s))
        BY <1>1, <1>2, <2>1 DEF OwnInv
    <2>3. mutations'[m + s] = result(s)
        BY <1>4
    <2>4. FailedRun(s) => ~runs[s].success
        BY <1>2 DEF FailedRun, CollectInv, ResultInv
    <2>5. s = r \/ result(s).mixed \/ ~result(s).success
        BY <2>2, <2>4
    <2>6. result(r).path = (m + s) + 1
        BY <2>2 DEF Own
    <2> HIDE DEF m, n, result, batch
    <2>7. m + s \in 1..(m + n) /\ (s = r => m + s = m + r)
        BY <1>2
    <2> QED
        BY <2>3, <2>5, <2>6, <2>7
<1>7. ASSUME NEW r \in 1..n, result(r).success, ~result(r).mixed
      PROVE  m + r \in successful'
                <=> AtLeast(PathSimilarity(paths[1], paths[(m + r) + 1]), Threshold)
    <2>1. runs[r].success /\ r \notin mixed /\ runs[r].at = "measured"
        BY <1>1, <1>7
    <2>2. runs[r].path # 0
        BY <1>2, <2>1 DEF CollectInv, ResultInv
    <2>3. runs[r].similarity = PathSimilarity(paths[1], paths[(m + r) + 1])
        BY <2>1, <2>2 DEF OwnInv, MeasuredOwn, Own
    <2>4. Succeeds(result(r)) <=> AtLeast(runs[r].similarity, Threshold)
        BY <2>1 DEF Succeeds
    <2> QED
        BY <1>5, <2>3, <2>4
<1> HIDE DEF m, n, result, batch
<1>8. ASSUME NEW i \in 1..(m + n)
      PROVE  /\ mutations'[i].path # 0 =>
                    \E j \in 1..(m + n) :
                        /\ mutations'[i].path = j + 1
                        /\ j = i \/ mutations'[j].mixed \/ ~mutations'[j].success
             /\ mutations'[i].success /\ ~mutations'[i].mixed =>
                    (i \in successful'
                        <=> AtLeast(PathSimilarity(paths[1], paths[i + 1]), Threshold))
    <2>1. CASE i \in 1..m
        <3>1. mutations'[i] = mutations[i] /\ (i \in successful' <=> i \in successful)
            BY <1>4, <1>5, <2>1
        <3>2. \A j \in 1..m : j \in 1..(m + n) /\ mutations'[j] = mutations[j]
            BY <1>2, <1>4
        <3> QED
            BY <2>1, <3>1, <3>2 DEF OwnInv, m
    <2>2. CASE i \notin 1..m
        <3> DEFINE r == i - m
        <3>1. r \in 1..n /\ m + r = i
            BY <1>2, <2>2
        <3> HIDE DEF r
        <3>2. mutations'[i] = result(r)
            BY <1>4, <3>1
        <3> QED
            BY <1>6, <1>7, <3>1, <3>2
    <2> QED
        BY <2>1, <2>2
<1>9. stage' # "batch" /\ Len(candidates') = 0
    BY <1>1
<1> QED
    BY <1>1, <1>4, <1>8, <1>9 DEF OwnInv

\* A step of the replayer itself executes and collects nothing.
LEMMA StageOwn ==
    ASSUME OwnInv, UNCHANGED <<paths, mutations, successful>>,
           stage' = "batch" => \A q \in Executions : ~HasPath(q)',
           \A q \in 1..Len(candidates') : runs'[q].at # "measured"
    PROVE  OwnInv'
BY DEF OwnInv

LEMMA NextOwnInv ==
    CollectInv /\ MeasureInv /\ OwnInv /\ [CollectNext]_collectVars => OwnInv'
<1> SUFFICES ASSUME CollectInv, MeasureInv, OwnInv, [CollectNext]_collectVars PROVE OwnInv'
    OBVIOUS
<1>0. /\ CollectInv' /\ MeasureInv' /\ TypeInv
      /\ Original \in Executions /\ 1..BatchSize \subseteq Executions
      /\ DOMAIN runs = Executions /\ \A r \in Executions : DOMAIN runs[r] = Fields
    BY NextCollectInv, NextMeasureInv, CollectionAssumption
       DEF CollectInv, TypeInv, Original, Executions
<1>1. stage # "batch" => Len(candidates) = 0
    BY DEF CollectInv, CountInv
<1>2. CASE Fetch \/ FetchFails \/ OriginalDone \/ CollectionDone
    <2>1. /\ UNCHANGED <<paths, mutations, successful, candidates>>
          /\ stage' # "batch" /\ stage # "batch"
        <3>1. OriginalDone => stage # "batch"
            BY <1>0 DEF OriginalDone, Step, CollectInv, StageInv, Original
        <3> QED
            BY <1>2, <3>1 DEF Fetch, FetchFails, OriginalDone, CollectionDone
    <2> QED
        BY <1>1, <2>1, StageOwn
<1>3. CASE GenerateBatch
    <2>1. /\ UNCHANGED <<paths, mutations, successful>>
          /\ \A q \in Executions : runs'[q].at \in {"idle", "forked"}
        <3>1. [Idle EXCEPT !.at = "forked"].at = "forked" /\ Idle.at = "idle"
            BY DEF Idle
        <3> QED
            BY <1>3, <3>1 DEF GenerateBatch
    <2>2. 1..Len(candidates') \subseteq Executions
        BY <1>0, SeqOfElements, CollectionAssumption
           DEF CollectInv, CountInv, TypeInv, IsSeq, Executions
    <2> QED
        BY <2>1, <2>2, StageOwn DEF HasPath
<1>4. CASE CollectBatch
    BY <1>4, CollectOwn
<1>5. ASSUME NEW r \in Executions, SetTarget(r) \/ Trace(r) \/ Call(r) \/ EVMStep(r)
      PROVE  OwnInv'
    <2>1. /\ KeepCollection /\ runs[r].at \in {"forked", "targeted", "started", "running"}
          /\ \A q \in Executions \ {r} : runs'[q] = runs[q]
          /\ runs'[r].at \notin {"stopped", "measured"}
          /\ mixed \subseteq mixed'
        <3>1. CASE SetTarget(r)
            <4>1. mixed \subseteq mixed'
                BY <3>1 DEF SetTarget
            <4>2. Step(r, "forked", "targeted") /\ KeepCollection
                BY <3>1 DEF SetTarget
            <4> QED
                BY <1>0, <4>1, <4>2, Moved DEF Places
        <3>2. CASE Trace(r)
            BY <1>0, <3>2 DEF Trace, Step, Fields
        <3>3. CASE Call(r)
            BY <1>0, <3>3 DEF Call, Fields
        <3>4. CASE EVMStep(r)
            <4>1. /\ KeepCollection /\ runs[r].at = "running" /\ mixed' = mixed
                  /\ \E to \in {"running", "returned"} :
                        \E hook : runs' = [runs EXCEPT ![r].at = to, ![r].hook = hook]
                BY <3>4 DEF EVMStep
            <4>2. PICK to \in {"running", "returned"} :
                     \E hook : runs' = [runs EXCEPT ![r].at = to, ![r].hook = hook]
                BY <4>1
            <4> QED
                BY <1>0, <4>1, <4>2 DEF Fields
        <3> QED
            BY <1>5, <3>1, <3>2, <3>3, <3>4
    <2>2. r # Original => paths'[1] = paths[1]
        BY <1>5, OriginalStays DEF SetTarget, Trace, Call
    <2> QED
        BY <1>0, <2>1, <2>2, OwnStays DEF HasPath
<1>6. ASSUME NEW r \in Executions, ReturnPath(r) PROVE OwnInv'
    <2>1. /\ KeepCollection /\ runs[r].at = "returned" /\ runs'[r].at = "stopped"
          /\ runs'[r].path = tracer.path /\ paths' = paths /\ mixed' = mixed
          /\ \A q \in Executions \ {r} : runs'[q] = runs[q]
        BY <1>0, <1>6 DEF ReturnPath, Fields
    <2> QED
        BY <1>0, <2>1, ReturnedPath, OwnStays
<1>7. ASSUME NEW r \in Executions, ExecutionFails(r) PROVE OwnInv'
    <2>1. /\ runs[r].at = "forked" /\ runs[r].path = 0
          /\ UNCHANGED <<paths, mutations, successful, candidates, mixed>>
          /\ \A q \in Executions \ {r} : runs'[q] = runs[q]
        BY <1>0, <1>7 DEF ExecutionFails, CollectInv, ResultInv
    <2>2. CASE r = Original
        <3>1. stage # "batch" /\ stage' # "batch"
            BY <1>7, <2>1, <2>2 DEF ExecutionFails, CollectInv, StageInv, Original
        <3> QED
            BY <1>1, <2>1, <3>1, StageOwn
    <2>3. CASE r # Original
        <3>1. KeepCollection /\ runs'[r].path = 0
            BY <1>0, <1>7, <2>1, <2>3 DEF ExecutionFails, KeepCollection, Fields
        <3> QED
            BY <1>0, <2>1, <3>1, OwnStays DEF HasPath
    <2> QED
        BY <2>2, <2>3
<1>8. ASSUME NEW r \in 1..BatchSize, Measure(r) PROVE OwnInv'
    <2>0. r \in Executions
        BY <1>0
    <2>1. /\ KeepCollection /\ runs[r].at = "stopped" /\ runs'[r].at = "measured"
          /\ runs'[r].path = runs[r].path /\ paths' = paths /\ mixed' = mixed
          /\ runs'[r].similarity = PathSimilarity(paths[1], paths[runs[r].path])
          /\ \A q \in Executions \ {r} : runs'[q] = runs[q]
        BY <1>0, <1>8, <2>0 DEF Measure, KeepCollection, Fields
    <2>2. stage = "batch" /\ HasPath(r)' =>
              \E s \in 1..Len(candidates) :
                  runs'[r].path = Own(s) /\ (s = r \/ s \in mixed \/ FailedRun(s))
        BY <2>0, <2>1 DEF OwnInv, HasPath
    <2>3. r \in 1..Len(candidates) /\ runs'[r].path # 0 /\ r \notin mixed' => MeasuredOwn(r)'
        <3>1. r \in 1..Len(candidates) /\ runs'[r].path # 0 /\ r \notin mixed' => Done(r)
            BY <2>1 DEF MeasureInv, DoneInv
        <3>2. Own(r)' = Own(r)
            BY <2>1 DEF Own, KeepCollection
        <3> QED
            BY <2>1, <3>1, <3>2 DEF Done, MeasuredOwn
    <2> QED
        BY <1>0, <2>0, <2>1, <2>2, <2>3, OwnStays
<1>9. CASE CollectEnds \/ UNCHANGED collectVars
    BY <1>9 DEF CollectEnds, collectVars, OwnInv, HasPath, FailedRun, MeasuredOwn, Own
<1> QED
    BY <1>2, <1>3, <1>4, <1>5, <1>6, <1>7, <1>8, <1>9 DEF CollectNext, Execution

LEMMA InitOwnInv == CollectInit => OwnInv
BY DEF CollectInit, OwnInv

-----------------------------------------------------------------------------
(* What follows                                                            *)

\* The conjunction the other theorems rest on holds in every reachable state.
THEOREM CollectInvariance == CollectSpec => []CollectInv
<1> QED
    BY InitCollectInv, NextCollectInv, PTL DEF CollectSpec

\* The state is what the code's types allow; the candidates of a batch and the
\* collected mutations are never more than totalCandidates (txReplayer.go:1814).
THEOREM CollectTypes == CollectSpec => []CollectTypeOK
<1>1. CollectInv => CollectTypeOK
    BY DEF CollectInv, TypeInv, CountInv, CollectTypeOK, IsTracer
<1> QED
    BY <1>1, CollectInvariance, PTL

\* Every batch mutates the input as the first one did, in whatever order the maps
\* give the slots: a collection tries no more inputs than a batch has candidates
\* (txReplayer.go:1814).
THEOREM BatchesAlike == CollectSpec => []BatchesRepeat
<1>1. CollectInv /\ RepeatInv => BatchesRepeat
    <2> SUFFICES ASSUME CollectInv, RepeatInv, NEW i \in 1..Len(mutations)
                 PROVE  mutations[i].input = mutations[((i - 1) % BatchSize) + 1].input
        BY DEF BatchesRepeat
    <2> DEFINE k == (i - 1) % BatchSize
    <2>1. Len(mutations) \in Nat /\ i - 1 \in Nat /\ BatchSize \in Nat \ {0}
        BY CollectionAssumption, SeqOfElements DEF CollectInv, TypeInv, IsSeq
    <2>2. k \in 0..(BatchSize - 1) /\ k <= i - 1
        BY <2>1, Remainders
    <2>3. mutations[i].input = BatchInput(k + 1)
        BY DEF RepeatInv
    <2> HIDE DEF k
    <2>4. k + 1 \in 1..Len(mutations) /\ k \in Nat /\ k < BatchSize
        BY <2>1, <2>2
    <2>5. k % BatchSize = k
        BY <2>1, <2>4, Remainders
    <2>6. mutations[k + 1].input = BatchInput((((k + 1) - 1) % BatchSize) + 1)
        BY <2>4 DEF RepeatInv
    <2>7. (k + 1) - 1 = k
        BY <2>4
    <2>8. mutations[k + 1].input = BatchInput(k + 1)
        BY <2>5, <2>6, <2>7
    <2>9. mutations[i].input = mutations[k + 1].input
        BY <2>3, <2>8
    <2> QED
        BY <2>9 DEF k
<1>2. CollectSpec => []RepeatInv
    BY InitRepeatInv, NextRepeatInv, CollectInvariance, PTL DEF CollectSpec
<1> QED
    BY <1>1, <1>2, CollectInvariance, PTL

\* What a lone execution measures is settled by the transaction and its own
\* candidate.
THEOREM MeasureInvariance == CollectSpec => []MeasureInv
<1> QED
    BY InitMeasureInv, NextMeasureInv, CollectInvariance, PTL DEF CollectSpec

\* Two candidates whose executions overlapped no other, ran on the same input and
\* recorded the same contract measured the same path: the depth and the recording
\* flag that the executions between them left in the shared tracer do not reach
\* the later one, since every new target resets them (execution_engine.go:201-208).
\* The original execution is not among them here.
LoneCandidatesAgree == \A e, f \in LoneCandidates : Agree(e, f)
THEOREM LoneAgree == CollectSpec => []LoneCandidatesAgree
<1>1. CollectInv /\ MeasureInv => LoneCandidatesAgree
    <2> SUFFICES ASSUME CollectInv, MeasureInv, NEW e \in LoneCandidates, NEW f \in LoneCandidates,
                        e.target = f.target, e.input = f.input
                 PROVE  e.path = f.path
        BY DEF LoneCandidatesAgree, Agree
    <2> DEFINE Target(m) == IF m.input = NoInput THEN NoContract ELSE MutatedContract
               Input(m) == IF m.input # NoInput /\ MutatedContract = attack.to
                           THEN m.input ELSE attack.input
               Of(m) == [target |-> Target(m), input |-> Input(m), path |-> paths[m.path]]
    <2>1. ASSUME NEW g \in LoneCandidates
          PROVE  \E i \in 1..Len(mutations) :
                    /\ g = Of(mutations[i])
                    /\ paths[mutations[i].path] = LonePath(mutations[i])
        <3>1. PICK i \in 1..Len(mutations) :
                 mutations[i].success /\ ~mutations[i].mixed /\ g = Of(mutations[i])
            BY <2>1 DEF LoneCandidates
        <3>2. paths[mutations[i].path] = LonePath(mutations[i])
            BY <3>1 DEF MeasureInv, DoneInv
        <3> QED
            BY <3>1, <3>2
    <2>2. PICK i \in 1..Len(mutations) :
             e = Of(mutations[i]) /\ paths[mutations[i].path] = LonePath(mutations[i])
        BY <2>1
    <2>3. PICK j \in 1..Len(mutations) :
             f = Of(mutations[j]) /\ paths[mutations[j].path] = LonePath(mutations[j])
        BY <2>1
    <2> DEFINE m == mutations[i]
               n == mutations[j]
    <2>4. /\ e.path = LonePath(m) /\ f.path = LonePath(n)
          /\ Target(m) = Target(n) /\ Input(m) = Input(n)
        BY <2>2, <2>3
    <2>5. MutatedContract # NoContract /\ (Direct <=> MutatedContract = attack.to)
        BY CollectionAssumption DEF MutatedContract, Direct, CollectInv, TypeInv
    <2> HIDE DEF m, n
    <2>6. m.input = NoInput <=> n.input = NoInput
        BY <2>4, <2>5
    <2>7. CASE m.input = NoInput
        BY <2>4, <2>6, <2>7 DEF LonePath
    <2>8. CASE m.input # NoInput /\ Direct
        <3>1. m.input = n.input
            BY <2>4, <2>5, <2>6, <2>8
        <3> QED
            BY <2>4, <3>1 DEF LonePath
    <2>9. CASE m.input # NoInput /\ ~Direct
        BY <2>4, <2>6, <2>9 DEF LonePath, Direct
    <2> QED
        BY <2>7, <2>8, <2>9
<1> QED
    BY <1>1, CollectInvariance, MeasureInvariance, PTL

\* The collection is in the order of the candidates, whatever order their
\* goroutines end in: a mutation whose execution overlapped no other has the path
\* of its own trace, no other mutation has that path, and the path stands as it
\* was measured (txReplayer.go:1012-1027, 1818-1865).
THEOREM Collected == CollectSpec => []OwnResultsCollected
<1>1. MeasureInv /\ OwnInv => OwnResultsCollected
    <2> SUFFICES ASSUME MeasureInv, OwnInv, NEW i \in 1..Len(mutations),
                        mutations[i].success, ~mutations[i].mixed
                 PROVE  /\ \A j \in 1..Len(mutations) : mutations[j].path = i + 1 <=> j = i
                        /\ i \in successful
                              <=> AtLeast(PathSimilarity(paths[1], paths[i + 1]), Threshold)
        BY DEF OwnResultsCollected
    <2>1. mutations[i].path = i + 1
        BY DEF MeasureInv, DoneInv
    <2>2. ASSUME NEW j \in 1..Len(mutations), mutations[j].path = i + 1 PROVE j = i
        <3>1. PICK k \in 1..Len(mutations) :
                 /\ mutations[j].path = k + 1
                 /\ k = j \/ mutations[k].mixed \/ ~mutations[k].success
            BY <2>2 DEF OwnInv
        <3>2. k = i
            BY <2>2, <3>1
        <3> QED
            BY <3>1, <3>2
    <2> QED
        BY <2>1, <2>2 DEF OwnInv
<1>2. CollectSpec => []OwnInv
    BY InitOwnInv, NextOwnInv, CollectInvariance, MeasureInvariance, PTL DEF CollectSpec
<1> QED
    BY <1>1, <1>2, MeasureInvariance, PTL

\* No execution of a candidate appends to the path of the original one, the path
\* all the candidates are compared with (types.go:47-50).
THEOREM OriginalKept == CollectSpec => OriginalPathKept
<1>1. ASSUME CollectInv, [CollectNext]_collectVars, stage \in {"generate", "batch"}
      PROVE  paths'[1] = paths[1]
    <2>1. CASE paths' = paths
        BY <2>1
    <2>2. ASSUME NEW r \in Executions, EVMStep(r) PROVE paths'[1] = paths[1]
        <3>1. r # Original
            BY <1>1, <2>2 DEF EVMStep, CollectInv, StageInv, Original
        <3> QED
            BY <1>1, <2>2, <3>1, OriginalStays
    <2> QED
        BY <1>1, <2>1, <2>2
           DEF CollectNext, Fetch, FetchFails, OriginalDone, GenerateBatch, CollectBatch,
               CollectionDone, Execution, SetTarget, ExecutionFails, Trace, Call, ReturnPath,
               Measure, CollectEnds, collectVars
<1>2. CollectInv /\ [CollectNext]_collectVars
        => [(stage \in {"generate", "batch"}) => (paths'[1] = paths[1])]_collectVars
    BY <1>1
<1> QED
    BY <1>2, CollectInvariance, PTL DEF CollectSpec, OriginalPathKept
=============================================================================
