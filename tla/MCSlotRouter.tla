---------------------------- MODULE MCSlotRouter ----------------------------
EXTENDS SlotRouter, ReplyConv, ArrayUtil

\* a stand-in for crc16sum: any function of the tag will do, as long as
\* different tags can land in different slots
MCCrc16(s) == 3 * Len(s) + Len(SelectSeq(s, LAMBDA c : c = "a"))

\* every key of up to five characters over a brace-rich alphabet
MCKeyInputs == BoundedSeq({"{", "}", "a"}, 5)

\* keys that share the tag "a", a plain key, an empty key and an empty tag
Sample == {<<"a">>, <<"{", "a", "}", "b">>, <<>>, <<"{", "}", "a">>}

\* up to three keys, with every random slot an empty key may draw
MCGroupInputs ==
  UNION { {[keys |-> ks, rnd |-> r] : r \in [1..Len(ks) -> 0..(SlotNumber - 1)]} :
          ks \in BoundedSeq(Sample, 3) }

\* Go integer widths scaled to 2, 3, 4 and 5 bits; int is 64-bit wide
MCWidth ==
  [t \in SignedTypes \cup UnsignedTypes |->
     CASE t \in {"int8", "uint8"}   -> 2
       [] t \in {"int16", "uint16"} -> 3
       [] t \in {"int32", "uint32"} -> 4
       [] OTHER                     -> 5]
NoErr == "none"
\* every value of every integer type
IntReplies ==
  UNION {{[t |-> t, v |-> x, e |-> NoErr] : x \in -(2^(MCWidth[t] - 1))..(2^(MCWidth[t] - 1) - 1)} :
         t \in SignedTypes}
  \cup UNION {{[t |-> t, v |-> x, e |-> NoErr] : x \in 0..(2^MCWidth[t] - 1)} : t \in UnsignedTypes}
\* numerals up to three characters around the 5-bit bounds (15, 16, 31, 61)
\* with signs and a bad character; the spellings of bools; bytes
TextReplies ==
  {[t |-> "string", v |-> s, e |-> NoErr] : s \in BoundedSeq({"-", "+", "1", "6", "x"}, 3)}
  \cup {[t |-> "string", v |-> s, e |-> NoErr] :
          s \in {<<"3", "1">>, <<"3", "2">>, <<"-", "3", "2">>, <<"T", "r", "u", "e">>,
                 <<"f", "a", "l", "s", "e">>, <<"F">>, <<"0">>}}
  \cup {[t |-> "bytes", v |-> s, e |-> NoErr] : s \in {<<>>, <<"1", "6">>, <<"-", "1">>}}
\* nil, a server error, bools, arrays, a []string, an unexpected type, and
\* a reply beside a transport error
OtherReplies ==
  {[t |-> "nil", v |-> 0, e |-> NoErr], [t |-> "error", v |-> "eServer", e |-> NoErr],
   [t |-> "bool", v |-> TRUE, e |-> NoErr], [t |-> "bool", v |-> FALSE, e |-> NoErr],
   [t |-> "array", v |-> <<>>, e |-> NoErr],
   [t |-> "array", v |-> <<[t |-> "nil", v |-> 0, e |-> NoErr],
                          [t |-> "string", v |-> <<"1">>, e |-> NoErr]>>, e |-> NoErr],
   [t |-> "array", v |-> <<[t |-> "int64", v |-> 1, e |-> NoErr]>>, e |-> NoErr],
   [t |-> "strings", v |-> <<<<"1">>>>, e |-> NoErr],
   [t |-> "map", v |-> 0, e |-> NoErr],
   [t |-> "int64", v |-> 1, e |-> "eConn"]}
MCReplies == IntReplies \cup TextReplies \cup OtherReplies

\* slices of up to four elements over three values, by value or by pointer,
\* of int, int64 and string (a string is one of the values), and values
\* of each of those types
MCArrayInputs ==
  [ptr : BOOLEAN, et : {"int", "int64", "string"}, s : BoundedSeq(1..3, 4)]
MCValueInputs == [t : {"int", "int64", "string"}, v : 1..2]

(* One call per run: a key, a key list, a reply or a slice.  The parts not *)
(* called sit in a state they reach after their own calls on an empty key, *)
(* a nil reply or an empty slice, so none multiplies another's states.     *)
NilReply == [t |-> "nil", v |-> 0, e |-> NoErr]
RouterIdle ==
  /\ k = <<>> /\ input = NoKeys
  /\ tag = key(<<>>) /\ groups = groupKeysBySlot(<<>>, <<>>)
ConvIdle ==
  /\ reply = NilReply
  /\ out = [c \in Calls |-> Apply(c, NilReply)]
EmptySlice == [ptr |-> TRUE, et |-> "int", s |-> <<>>]
ArrayIdle ==
  /\ arr = EmptySlice /\ val = [t |-> "int", v |-> 1] /\ fn = "Find"
  /\ res = <<ApplyArray("Find", EmptySlice, [t |-> "int", v |-> 1])>>
MCInit ==
  \/ Init /\ ConvIdle /\ ArrayIdle
  \/ RouterIdle /\ ConvInit /\ ArrayIdle
  \/ RouterIdle /\ ConvIdle /\ ArrayInit
MCNext ==
  \/ Next /\ UNCHANGED <<convVars, arrayVars>>
  \/ ConvNext /\ UNCHANGED <<vars, arrayVars>>
  \/ ArrayNext /\ UNCHANGED <<vars, convVars>>
MCSpec == MCInit /\ [][MCNext]_<<vars, convVars, arrayVars>>

=============================================================================
