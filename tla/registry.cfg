CONSTANTS
  a = a
  b = b
  c = c
  p = p
  q = q
  Ctx = {a, b, c}
  Props = {p, q}
  Invalid = Invalid
  Addr <- Addresses
  NvmProps <- PropsOf
  NvmRange <- Flash
  DataRange <- DataOf
SPECIFICATION FairSpec
INVARIANTS TypeOK Ring Progress Routed
PROPERTIES LookupEnds
