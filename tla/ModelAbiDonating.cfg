SPECIFICATION AbiSpec
CONSTANTS
 ParameterPaths = {"w", "b"}
 StatePaths = {"s"}
 TransformPaths = {"m"}
 InputLimit = 2
 RetraceLimit = 3
INVARIANT DonatingBindsByName
CHECK_DEADLOCK FALSE
