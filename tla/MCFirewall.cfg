SPECIFICATION Spec
CONSTANTS
  Batches <- MCBatches
  Kinds <- MCKinds
  Markers <- MCMarkers
  Link <- MCLink
  Target <- MCTarget
  Below <- MCBelow
  BatchLimit = 3
  MaxFaults = 1
  MaxParts = 4
  MaxTokens = 6
INVARIANTS
  FailsClosed
  LayersAgree
  NamesAgree
