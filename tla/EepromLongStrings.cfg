CONSTANT Inputs <- LongInputs
SPECIFICATION BuildSpec
CHECK_DEADLOCK FALSE
INVARIANT FixedSpaceIsEnough
