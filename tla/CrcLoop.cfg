CONSTANT
  CommonMods <- MCCommonMods
SPECIFICATION Spec
INVARIANTS CommonToldApart NoneIsFree CrcIsRemainder
CHECK_DEADLOCK FALSE
