SPECIFICATION Spec
INVARIANT CleansUpOwned
CHECK_DEADLOCK FALSE
