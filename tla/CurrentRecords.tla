--------------------------- MODULE CurrentRecords ---------------------------
(***************************************************************************)
(* What the analysis tables promise their readers: for every table and     *)
(* series one current analysis, which only an analysis of the same or a    *)
(* later bar replaces, and which never disappears.                         *)
(***************************************************************************)
EXTENDS Integers

CONSTANTS
    Series,     \* a table, a symbol and a timeframe
    Bars,
    Payloads

VARIABLE
    current     \* of each series: the bar and the payload of the current analysis

None == -1      \* the bar of a series without an analysis

Init == \A k \in Series : current[k].bar = None

\* An analysis of bar b is published; the ones of the other series stay.
Publish(k, b, p) ==
    /\ b >= current[k].bar
    /\ current' = [current EXCEPT ![k] = [bar |-> b, payload |-> p]]

Next == \E k \in Series, b \in Bars, p \in Payloads : Publish(k, b, p)

Spec == Init /\ [][Next]_current
=============================================================================
