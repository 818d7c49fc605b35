SPECIFICATION Spec
CONSTANTS
  Keys = {1, 2, 3, 4}
  KeySize <- MCKeySize
  ValueSize = 4
  Sources = {"left", "right"}
  BlockSize = 26
  BlockStride = 20
  FooterLimit = 8
  Hash <- MCHash
  HashRange = 16
  BloomBits = 11
INVARIANTS TypeOK MergedSoFar TablesAnswer TablesReadBack
