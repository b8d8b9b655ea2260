\* Four elements: enough for a marked element between waiting ones, and for two
\* marked elements to be dropped by one call.
CONSTANT Element = {"e1", "e2", "e3", "e4"}
SPECIFICATION Spec
PROPERTY ImplementsWaitingList
