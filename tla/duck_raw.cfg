SPECIFICATION Spec
CONSTANTS
  Pods <- BothPods
  VariantPods <- NewPods
  Batches <- RolloutBatches
  MaxAttempts = 3
  MaxFlushes = 2
  MaxFaults = 0
  MaxDrops = 0
INVARIANT NoRawCompanion
