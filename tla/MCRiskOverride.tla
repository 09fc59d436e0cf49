---------------------------- MODULE MCRiskOverride ----------------------------
(* Small instances of RiskOverride for TLC. *)
EXTENDS RiskOverride, TLC

CONSTANTS r1, s1, s2

MCSymbolOf == [r \in Requests |-> IF r = r1 THEN s1 ELSE s2]
MCNeed == [r \in Requests |-> [c \in Caps |-> IF r = r1 THEN 1 ELSE 2]]

Patch(clear, notional, symbols) ==
    [clear |-> clear, allowed_symbols |-> symbols,
     caps |-> [c \in Caps |-> IF c = "max_notional_per_order" THEN notional ELSE 0]]

\* A cap that only r1 meets, a list that only allows r1's symbol, and back.
MCPatches == {Patch({}, 1, <<>>), Patch({}, 0, <<s1>>),
              Patch({"max_notional_per_order", "allowed_symbols"}, 0, <<>>)}

OverrideSymmetry == Permutations(Overrides)
=============================================================================
