CONSTANTS
  Cap <- MCCap
  Byte = {0, 1}
  Chunks <- MCChunks
  Wants <- MCWants
SPECIFICATION FairSpec
INVARIANTS NoStrandedProducer NoStrandedConsumer
PROPERTIES RingIsFifo PushReturns PopReturns
