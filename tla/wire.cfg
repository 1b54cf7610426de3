\* Two messages with bodies of up to two texts, in either direction, which
\* arrive in pieces of any size.
CONSTANTS
  IntMax = 1073741823
  UnsignedMax = 2147483647
  Codes = {45056}
  Message <- SmallMessages
  MaxSent = 2
SPECIFICATION FairSpec
INVARIANTS
  InStep
  HeadersParse
PROPERTY ImplementsChannel
\* Nothing happens any more when the last message has been read.
CHECK_DEADLOCK FALSE
