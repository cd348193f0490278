------------------------------ MODULE MCGateway ------------------------------
(* Model-checking instance of Gateway.                                     *)
EXTENDS Gateway

CONSTANTS c1, c2

BothCalls  == {c1, c2}
FirstCall  == {c1}
PostedTwice == {<<c1, 1>>, <<c1, 2>>, <<c2, 1>>}
=============================================================================
