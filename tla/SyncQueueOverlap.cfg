\* Two flushes that overlap, broken requests and kills, on the MMKV fallback.
SPECIFICATION Spec
CONSTANTS
  Items = {1, 2}
  Flushes = {f1, f2}
  BatchSize = 1
  Fallback = TRUE
  MaxOutages = 1
SYMMETRY Interchangeable
PROPERTY
  OutboxSpec
