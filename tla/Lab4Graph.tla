------------------------------ MODULE Lab4Graph ------------------------------
(***************************************************************************)
(* Reachability in a directory graph given as a set of edges.              *)
(***************************************************************************)
EXTENDS Integers, FiniteSets

\* The nodes of S and what the edges E lead to from them.
Closure(S, E) ==
    LET below[k \in Nat] ==
            IF k = 0 THEN {}
            ELSE LET T == below[k - 1]
                 IN  T \cup {e[2] : e \in {o \in E : o[1] \in S \cup T}}
    IN  S \cup below[Cardinality(E)]
=============================================================================
