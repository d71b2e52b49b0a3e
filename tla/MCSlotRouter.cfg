\* Redis.key over every key of up to five characters of '{', '}' and 'a';
\* groupKeysBySlot over up to three keys with two slots.  The router stops
\* once it has its result.  The reply conversions over every value of every
\* integer type (widths 2 to 5 bits, a 64-bit build) and every numeral of up
\* to three characters; the converting goroutine stops after its calls.  The
\* slice helpers of util/array.go on every slice of up to four elements
\* drawn from {1, 2, 3}, of each element type, by value or by pointer.
CONSTANTS
  SlotNumber = 2
  Crc16 <- MCCrc16
  KeyInputs <- MCKeyInputs
  GroupInputs <- MCGroupInputs
  Width <- MCWidth
  Replies <- MCReplies
  ArrayInputs <- MCArrayInputs
  ValueInputs <- MCValueInputs
SPECIFICATION MCSpec
INVARIANT RouterTypeOK
INVARIANT KeyMatchesReference
INVARIANT GroupIsOrderedPartition
INVARIANT ConversionsExact
INVARIANT ArrayHelpersMatchReference
CHECK_DEADLOCK FALSE
