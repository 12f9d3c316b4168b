----------------------------- MODULE MCMultisig -----------------------------
EXTENDS Multisig

FirstDraw == [a |-> <<1, 2>>, b |-> <<3, 1>>]
SecondDraw == [a |-> <<2, 5>>, b |-> <<1, 4>>]
SomeDraws == {FirstDraw, SecondDraw}
OneDraw == {<<FirstDraw, SecondDraw, SecondDraw>>}
SomeOddY == {<<1, 1>>, <<2, 0>>}
=============================================================================
