CONSTANTS
  SIZE = 3
  Keys <- MCKeys
  MaxKeys = 3
SPECIFICATION Spec
INVARIANT TypeOK DeliveredInOrder
PROPERTY KeyQueueSpec
