---------------------------- MODULE MCCurveAudit ----------------------------
EXTENDS CurveAudit, TLC

CONSTANTS g1, g2

TwoInverters == {g1, g2}
Limits == g1 :> 4 @@ g2 :> 4

\* A clear day clips one inverter; a dull day is far below.
Clear == [s \in Daylight |-> g1 :> 5 @@ g2 :> 3]
Dull == [s \in Daylight |-> g1 :> 2 @@ g2 :> 1]
TwoDays == {Clear, Dull}

Changeable == [d \in Date |-> IF d % 2 = 0 THEN Clear ELSE Dull]
=============================================================================
