SPECIFICATION Spec

INVARIANT TypeOK
INVARIANT ReturnsSetCode
INVARIANT ReturnsLongestSuffix

CHECK_DEADLOCK FALSE
