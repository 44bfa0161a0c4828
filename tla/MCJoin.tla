------------------------------- MODULE MCJoin -------------------------------
(* Model-checking instance of Join: every pair of small tables.             *)
EXTENDS Join

CONSTANTS MaxLeft, MaxRight, Cols

\* Pages of a left table in order: it starts with page 1 and either stays or
\* goes on to the next page.
PagesInOrder(n) ==
    {p \in [1..n -> 1..n] :
        /\ n > 0 => p[1] = 1
        /\ \A k \in 1..(n - 1) : p[k + 1] \in {p[k], p[k] + 1}}

TablesOf(n, pagings) ==
    {[k \in 1..n |-> [page |-> p[k], col |-> c[k]]] : p \in pagings, c \in [1..n -> Cols]}

MCLeftTables == UNION {TablesOf(n, PagesInOrder(n)) : n \in 0..MaxLeft}

\* The right table may return to the page it starts with.
MCRightTables ==
    UNION {TablesOf(n, {p \in [1..n -> {11, 12}] : n > 0 => p[1] = 11}) : n \in 0..MaxRight}
=============================================================================
