\* MGet, MSet or MSetNX over three keys in two slots; every slot call may fail
\* and every MSet value may fail to convert.
\* Once the command has returned the caller stays put.
CONSTANTS
  k1 = k1
  k2 = k2
  k3 = k3
  Keys = {k1, k2, k3}
  KeySeq <- MCKeySeq
  SlotOf <- MCSlotOf
  MaxIdle = 100
  Absent = Absent
  Old = Old
  New = New
  NoErr = NoErr
  ConvErr = ConvErr
SPECIFICATION Spec
INVARIANT MGetInKeyOrder
INVARIANT MSetNXResultExact
INVARIANT MSetResultExact
