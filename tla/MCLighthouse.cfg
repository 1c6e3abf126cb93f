CONSTANT Timeout = 3
SPECIFICATION Spec
INVARIANT ChromeStoppedOnExit
PROPERTY ScriptEnds
CHECK_DEADLOCK FALSE
