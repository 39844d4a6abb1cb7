SPECIFICATION Spec
CONSTANTS
  Pods <- BothPods
  VariantPods <- NewPods
  Batches <- RolloutBatches
  MaxAttempts = 2
  MaxFlushes = 2
  MaxFaults = 1
  MaxDrops = 1
INVARIANT TypeOK RetryRecovers CompanionVerified PartitionedUnlessInterrupted
