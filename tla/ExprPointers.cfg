CONSTANT Families <- OneFamily
SPECIFICATION Spec
CHECK_DEADLOCK FALSE
INVARIANT PointersActAsBooleans
