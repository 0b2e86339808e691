CONSTANT Codes = {0, 1}
SPECIFICATION FairSpec
PROPERTY StdinClosedCommandExits
CHECK_DEADLOCK FALSE
