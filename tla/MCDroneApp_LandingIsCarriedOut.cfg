SPECIFICATION Spec
CONSTANTS
  FullCharge = 2
  ReserveCharge = 1
  UpRanges <- MCUpRanges
  DecksReady = TRUE

PROPERTIES LandingIsCarriedOut
