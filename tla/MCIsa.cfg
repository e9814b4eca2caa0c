SPECIFICATION AluSpec
CONSTANT Bits = 4
INVARIANT MeetsIsa
CHECK_DEADLOCK FALSE
