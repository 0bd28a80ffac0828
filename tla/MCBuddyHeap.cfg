CONSTANTS
  MIN_ORDER = 5
  MAX_ORDER = 8
  W = 16
  Requests <- MCRequests

SPECIFICATION Spec
INVARIANT TypeOK HeapTiled MaximalCoalescing MagicMeansLive SizeCoversRequest
