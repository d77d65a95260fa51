SPECIFICATION KillSpec
INVARIANTS Hibernates NoFlagLeft
PROPERTY StaysHibernating
CHECK_DEADLOCK FALSE
