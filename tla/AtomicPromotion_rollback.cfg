SPECIFICATION Spec
CONSTANTS
  r1 = r1  r2 = r2  p1 = p1  p2 = p2  shaA = shaA  shaB = shaB  shaC = shaC
  Readers <- TwoReaders
  Promoters <- TwoPromoters
  Shas <- ThreeShas
  FirstSha = shaA
  MaxSlots = 4
PROPERTY DrainedMeansUnused
