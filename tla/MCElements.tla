----------------------------- MODULE MCElements -----------------------------
EXTENDS Elements, TLC

CONSTANTS list, a, b    \* a list and two elements in it

InList == [e \in Elems |-> IF e = list THEN <<list>> ELSE <<e, list>>]
MCBindable == {<<list, "t">>, <<a, "t">>, <<a, "u">>}
MCUnbindings == {<<list, <<"t">>>>, <<a, <<"t">>>>, <<a, <<"t", "u">>>>}
Symmetry == Permutations(Handlers)
=============================================================================
