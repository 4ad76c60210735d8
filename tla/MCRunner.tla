------------------------------ MODULE MCRunner ------------------------------
(***************************************************************************)
(* Instances of Runner for TLC.  Pipelines holds the pipelines of three    *)
(* and four steps whose names are in order (a name says nothing else),     *)
(* valid or not, and every one of at most two steps with any names.        *)
(***************************************************************************)
EXTENDS Runner

CONSTANTS n1, n2, n3, n4, StepKinds, FourKinds

Ordered == <<n1, n2, n3, n4>>
MCNames == {n1, n2, n3, n4}

\* The steps of kind K called n that read names of N.
StepsOf(n, N, K) ==
    UNION {[name : {n}, kind : {k}, refs : [1..Arity(k) -> N]] : k \in K}

\* The i-th step of a pipeline in order: it reads earlier steps, itself or the next.
At(i, K) == StepsOf(Ordered[i], {Ordered[j] : j \in 1..(IF i = 4 THEN 4 ELSE i + 1)}, K)

Pairs == UNION {[1..m -> UNION {StepsOf(n, {n1, n2}, StepKinds) : n \in {n1, n2}}] :
                m \in 0..2}
Threes == {<<a, b, c>> : a \in At(1, StepKinds), b \in At(2, StepKinds),
                         c \in At(3, StepKinds)}
Fours == {<<a, b, c, d>> : a \in At(1, {"load", "join"}), b \in At(2, FourKinds),
                           c \in At(3, FourKinds), d \in At(4, FourKinds)}
Pipelines == Pairs \union Threes \union Fours
=============================================================================
