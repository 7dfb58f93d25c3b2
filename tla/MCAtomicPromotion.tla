-------------------------- MODULE MCAtomicPromotion --------------------------
(* Instances of AtomicPromotion for TLC.                                    *)
EXTENDS AtomicPromotion, TLC

CONSTANTS r1, r2, p1, p2, shaA, shaB, shaC

TwoReaders == {r1, r2}
TwoPromoters == {p1, p2}
ThreeShas == {shaA, shaB, shaC}
=============================================================================
