CONSTANT Timeout = 3
SPECIFICATION Spec
INVARIANT AuditedWithToken
CHECK_DEADLOCK FALSE
