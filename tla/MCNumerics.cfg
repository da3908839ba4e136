SPECIFICATION MCSpec
CONSTANTS
  Ins = {0, 2, 15, 16, 33, 48, 66}
  Rows = 2
  Heads = 3
  NTok = 2
  Teams = {1, 2, 3}
  MaxScore = 2
  NExperts = 4
  topk = 3
  Vocab = {1, 2}
  NLayers = 4
  full_attn = {2, 4}
  first_dense = 1
  attn_res_block = 2
  conv_k = 3
  CHUNK = 2
  SpecN = 2
  kv_cap = 5
INVARIANTS
  RowsBitIdentical
  RowsComplete
  HeadsExact
  RouterStable
  CarryExact
  LogitsExact
CHECK_DEADLOCK FALSE
