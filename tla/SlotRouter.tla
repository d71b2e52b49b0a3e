----------------------------- MODULE SlotRouter -----------------------------
(***************************************************************************)
(* The key routing of src/nosql/redis_cluster.go: Redis.key extracts the   *)
(* hash tag, Redis.slot hashes it (a random slot for an empty key) and     *)
(* Redis.groupKeysBySlot partitions the keys of a multi-key command.       *)
(*                                                                         *)
(* A key is a sequence of characters; the CRC16 of the tag is the constant *)
(* operator Crc16 (crc16sum is not part of the repository).  The random    *)
(* slot rand.Intn(slotNumber) of the i-th key is the input rnd[i].         *)
(* A router goroutine takes one input, calls the code and keeps the        *)
(* result, which the properties compare with reference definitions from    *)
(* spec.md 4.2.                                                            *)
(***************************************************************************)
EXTENDS Integers, Sequences, SequencesExt, TLC

CONSTANTS SlotNumber,   \* slotNumber
          Crc16(_),     \* crc16sum
          KeyInputs,    \* keys given to Redis.key
          GroupInputs   \* [keys, rnd] given to groupKeysBySlot

ASSUME SlotNumber \in Nat \ {0}

Slots == 0..(SlotNumber - 1)
None == <<"none">>

VARIABLES
  k,        \* the key passed to key()
  tag,      \* what key() returned, None before the call
  input,    \* the keys and random slots passed to groupKeysBySlot
  groups    \* what groupKeysBySlot returned, None before the call

vars == <<k, tag, input, groups>>

-----------------------------------------------------------------------------
(* The code *)

\* strings.IndexByte: the 0-based index of the first c in s, or -1
IndexByte(s, c) == SelectInSeq(s, LAMBDA x : x = c) - 1

\* mutant: an empty tag "{}" is taken as the tag
keyEmptyTag(x) ==
  LET s == IndexByte(x, "{")
      e == IF s > -1 THEN IndexByte(SubSeq(x, s + 2, Len(x)), "}") ELSE -1
  IN IF s > -1 /\ e >= 0 THEN SubSeq(x, s + 2, s + e + 1) ELSE x

(* if s := IndexByte(k, '{'); s > -1 { if e := IndexByte(k[s+1:], '}');    *)
(* e > 0 { return k[s+1 : s+e+1] } }; return k                             *)
key(x) ==
  LET s == IndexByte(x, "{")
      e == IF s > -1 THEN IndexByte(SubSeq(x, s + 2, Len(x)), "}") ELSE -1
  IN IF s > -1 /\ e > 0 THEN SubSeq(x, s + 2, s + e + 1) ELSE x

\* mutant: the checksum is not reduced modulo slotNumber
slotNoMod(x, r) ==
  IF key(x) = <<>> THEN r ELSE Crc16(key(x))

\* key = r.key(key); if key == "" { rand.Intn(slotNumber) }; crc16sum(key) % slotNumber
slot(x, r) ==
  IF key(x) = <<>> THEN r ELSE Crc16(key(x)) % SlotNumber

(* m after the loop of groupKeysBySlot has taken the first i keys:         *)
(* n := r.slot(key); if !ok || len(slotKeys) == 0 { m[n] = [] };           *)
(* m[n] = append(m[n], key)                                                *)
RECURSIVE groupFrom(_, _, _)
groupFrom(keys, rnd, i) ==
  IF i = 0 THEN <<>>
  ELSE LET m == groupFrom(keys, rnd, i - 1)
           n == slot(keys[i], rnd[i])
       IN IF n \in DOMAIN m THEN [m EXCEPT ![n] = Append(@, keys[i])]
                            ELSE (n :> <<keys[i]>>) @@ m

\* mutant: the slice of a slot already in the map is made anew
RECURSIVE groupFromReset(_, _, _)
groupFromReset(keys, rnd, i) ==
  IF i = 0 THEN <<>>
  ELSE LET m == groupFromReset(keys, rnd, i - 1)
           n == slot(keys[i], rnd[i])
       IN (n :> <<keys[i]>>) @@ m

groupKeysBySlotReset(keys, rnd) == groupFromReset(keys, rnd, Len(keys))

groupKeysBySlot(keys, rnd) == groupFrom(keys, rnd, Len(keys))

-----------------------------------------------------------------------------
\* a call of Redis.key or of groupKeysBySlot, on one of the inputs
NoKeys == [keys |-> <<>>, rnd |-> <<>>]
Init ==
  /\ \/ k \in KeyInputs /\ input = NoKeys
     \/ k = <<>> /\ input \in GroupInputs
  /\ tag = None
  /\ groups = None

\* r.key(k)
Key ==
  /\ tag = None
  /\ tag' = key(k)
  /\ UNCHANGED <<k, input, groups>>

\* r.groupKeysBySlot(keys)
GroupKeysBySlot ==
  /\ groups = None
  /\ groups' = groupKeysBySlot(input.keys, input.rnd)
  /\ UNCHANGED <<k, tag, input>>

Next == Key \/ GroupKeysBySlot

Spec == Init /\ [][Next]_vars

-----------------------------------------------------------------------------
(* Properties *)

RouterTypeOK ==
  /\ groups # None =>
       /\ DOMAIN groups \subseteq Slots
       /\ \A n \in DOMAIN groups : groups[n] # <<>>

(* The reference (spec.md 4.2): the hash input is the text between the    *)
(* first '{' and the first '}' after it, when both exist and the text is   *)
(* not empty, and the whole key otherwise.                                 *)
Positions(w, c) == {i \in 1..Len(w) : w[i] = c}
TagRef(w) ==
  LET open  == Positions(w, "{")
      i     == CHOOSE p \in open : \A q \in open : p <= q
      close == {j \in Positions(w, "}") : j > i}
      j     == CHOOSE p \in close : \A q \in close : p <= q
  IN IF open = {} \/ close = {} \/ j = i + 1 THEN w ELSE SubSeq(w, i + 1, j - 1)

(* Redis.key returns the hash tag exactly as spec.md 4.2 defines it, so    *)
(* "a{user1}b" and "{user1}" hash alike and "{}" or an unmatched '{' fall  *)
(* back to the whole key.                                                  *)
KeyMatchesReference == tag # None => tag = TagRef(k)

(* groupKeysBySlot is a partition that keeps order: every slot that some   *)
(* key routes to has a group, and the group holds exactly the keys routed  *)
(* to it, in their input order (spec.md 3, ShardGroup).                    *)
SlotAt(i) == slot(input.keys[i], input.rnd[i])
RoutedTo(n) ==
  LET idx == SelectSeq([i \in 1..Len(input.keys) |-> i], LAMBDA i : SlotAt(i) = n)
  IN [j \in 1..Len(idx) |-> input.keys[idx[j]]]
GroupIsOrderedPartition ==
  groups # None =>
    /\ DOMAIN groups = {SlotAt(i) : i \in 1..Len(input.keys)}
    /\ \A n \in DOMAIN groups : groups[n] = RoutedTo(n)
=============================================================================
