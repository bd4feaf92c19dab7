CONSTANTS
  RoundedUp <- MCRoundedUp
  Bodies <- MCBodies
  Carriers <- MCCarriers
  ProductPatches <- MCProductPatches
  Observations <- MCObservations
  MaxVersion = 3
  MaxEntries = 3
SPECIFICATION Spec
INVARIANT ExchangeIsLossless
INVARIANT PlainHistoryExports
INVARIANT OccasionsJudgeThemselves
INVARIANT ClaimsStaySeparate
