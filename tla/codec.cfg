\* Numbers at the edges of their types and of their widths, bodies of up to two
\* texts of up to two bytes.
CONSTANTS
  IntMax = 1073741823
  UnsignedMax = 2147483647
  Revisions = {0, 1, 9999, 10000, 32767}
  Codes = {41216, 41217, 45056, 45587, 65535}
  Sizes = {0, 1, 10, 999999999, 1000000000, 1073741823, 1073741824, 2147483647}
  Letters = {65}
  MaxText = 2
  MaxTexts = 2
SPECIFICATION Spec
INVARIANTS
  HeadersFit
  HeadersComeBack
  MissingIsDefault
  BodiesComeBack
  MessagesComeBack
