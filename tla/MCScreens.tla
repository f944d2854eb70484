------------------------------ MODULE MCScreens ------------------------------
EXTENDS Screens, TLC

Span(l, w) == [left |-> l, width |-> w]
MCGeometries == {Span(0, 12), Span(12, 44), Span(12, 20)}
MCPowers == {2^k : k \in 0 .. 30}
MCShare == [w \in Windows |-> IF w = "keyboard" THEN Quotient(90, 100) ELSE Quotient(25, 100)]
MCMargin == [w \in Windows |-> IF w = "keyboard" THEN Quotient(25, 100) ELSE Quotient(2, 100)]
Symm == Permutations(Screens)
MCNothingSaved == {}
MCPlacesSaved == {2, 17}
MCReach == {-3, 24}
=============================================================================
