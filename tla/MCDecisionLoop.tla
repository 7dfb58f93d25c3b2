--------------------------- MODULE MCDecisionLoop ----------------------------
(* Small instances of DecisionLoop for TLC.                                *)
EXTENDS DecisionLoop, TLC

CONSTANTS e1, e2, e3

TwoEvents == <<e1, e2>>
=============================================================================
