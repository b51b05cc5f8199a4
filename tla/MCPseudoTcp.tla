------------------------------ MODULE MCPseudoTcp ------------------------------
EXTENDS PseudoTcp

CONSTANTS a, b, OpenerSends, OtherSends

MCToSend == [e \in Ends |-> IF e = Opener THEN OpenerSends ELSE OtherSends]
MCLevels == <<4, 2, 1>>
===============================================================================
