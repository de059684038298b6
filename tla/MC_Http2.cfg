\* Streams and connections end, and peers may stay silent: no deadlock check.
SPECIFICATION MCSpec
INVARIANTS PoolExact NobodyForgotten CreditExact  UploadExact WritersWoken QueueExact
CHECK_DEADLOCK FALSE
