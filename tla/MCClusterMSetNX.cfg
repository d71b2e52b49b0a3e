\* MSetNX over three keys in two slots: is it one MSETNX?
CONSTANTS
  k1 = k1
  k2 = k2
  k3 = k3
  Keys = {k1, k2, k3}
  KeySeq <- MCKeySeq
  SlotOf <- MCSlotOf
  MaxIdle = 100
  Absent = Absent
  Old = Old
  New = New
  NoErr = NoErr
  ConvErr = ConvErr
SPECIFICATION Spec
INVARIANT MSetNXAllOrNothing
