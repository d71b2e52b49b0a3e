------------------------------ MODULE ReplyConv ------------------------------
(***************************************************************************)
(* The reply conversions of src/nosql/redis_cluster_reply.go: Redis.Int,   *)
(* Int64, Uint64, Bool, Bytes, String, Strings and Values turn the         *)
(* interface{} a command returned into a Go value.                         *)
(*                                                                         *)
(* A reply is a record: t is its dynamic Go type, v its value and e the    *)
(* error passed beside it.  Integers of every Go type keep their width,    *)
(* scaled down by the constant Width (int is as wide as int64, the 64-bit  *)
(* build); a conversion int(x) wraps modulo 2^w.  A string or []byte is a  *)
(* sequence of characters, and the strconv calls are modelled by what they *)
(* do: FormatInt/FormatUint write decimal digits, ParseInt/ParseUint scan  *)
(* them left to right and stop at the first bad character or overflow.     *)
(* float32/float64 replies and Float64 are not modelled.                   *)
(*                                                                         *)
(* A converting goroutine takes one reply and calls the conversions on it  *)
(* in any order.                                                          *)
(***************************************************************************)
EXTENDS Integers, Sequences, SequencesExt
CONSTANTS Width,     \* bits of each Go integer type, scaled
          Replies    \* the replies given to the conversions
SignedTypes   == {"int", "int8", "int16", "int32", "int64"}
UnsignedTypes == {"uint", "uint8", "uint16", "uint32", "uint64"}
ASSUME /\ Width \in [SignedTypes \cup UnsignedTypes -> Nat \ {0}]
       /\ Width["uint"] = Width["int"]
Calls == {"Int", "Int64", "Uint64", "Bool", "Bytes", "String", "Strings", "Values"}
VARIABLES
  reply,   \* the (reply, err) pair handed to the conversions
  out      \* the result of each conversion called so far
convVars == <<reply, out>>
-----------------------------------------------------------------------------
(* Go integers and strconv *)
Ok(x)      == [val |-> x, err |-> "none"]
Fail(x, e) == [val |-> x, err |-> e]
\* the conversion of an integer to a signed / unsigned type of w bits
Signed(x, w)   == LET m == x % 2^w IN IF m >= 2^(w - 1) THEN m - 2^w ELSE m
Unsigned(x, w) == x % 2^w
DigitChar == <<"0", "1", "2", "3", "4", "5", "6", "7", "8", "9">>
IsDigit(c) == \E d \in 1..10 : DigitChar[d] = c
DigitOf(c) == (CHOOSE d \in 1..10 : DigitChar[d] = c) - 1
\* strconv.FormatUint(n, 10) / FormatInt(x, 10)
RECURSIVE FormatUint(_)
FormatUint(n) ==
  IF n < 10 THEN <<DigitChar[n + 1]>>
  ELSE FormatUint(n \div 10) \o <<DigitChar[(n % 10) + 1]>>
FormatInt(x) == IF x < 0 THEN <<"-">> \o FormatUint(-x) ELSE FormatUint(x)
(* The loop of strconv.ParseUint(s, 10, bits) from index i with n so far:  *)
(* a non-digit is a syntax error; n >= cutoff (maxUint64/10+1) or n*10+d   *)
(* wrapping or above maxVal is a range error returning maxVal.             *)
RECURSIVE ScanUint(_, _, _, _)
ScanUint(s, i, n, bits) ==
  LET maxVal == 2^bits - 1
      cutoff == (2^Width["uint64"] - 1) \div 10 + 1
  IN IF i > Len(s) THEN Ok(n)
     ELSE IF ~IsDigit(s[i]) THEN Fail(0, "ErrSyntax")
     ELSE IF n >= cutoff THEN Fail(maxVal, "ErrRange")
     ELSE LET n1 == Unsigned(n * 10 + DigitOf(s[i]), Width["uint64"])
          IN IF n1 < n * 10 \/ n1 > maxVal THEN Fail(maxVal, "ErrRange")
             ELSE ScanUint(s, i + 1, n1, bits)
ParseUint(s, bits) == IF s = <<>> THEN Fail(0, "ErrSyntax") ELSE ScanUint(s, 1, 0, bits)
(* The end of strconv.ParseInt: a syntax error of ParseUint is returned    *)
(* with 0; a magnitude of cutoff = 1<<(bits-1) or more (more, when         *)
(* negative) is a range error clamped to the bound.                        *)
SignedFromMagnitude(neg, u, bits) ==
  LET cutoff == 2^(bits - 1)
  IN CASE u.err \notin {"none", "ErrRange"} -> Fail(0, u.err)
       [] ~neg /\ u.val >= cutoff -> Fail(cutoff - 1, "ErrRange")
       [] neg /\ u.val > cutoff   -> Fail(-cutoff, "ErrRange")
       [] OTHER -> Ok(IF neg THEN -u.val ELSE u.val)
\* strconv.ParseInt(s, 10, bits): an optional '+' or '-', then ParseUint
ParseInt(s, bits) ==
  IF s = <<>> THEN Fail(0, "ErrSyntax")
  ELSE LET neg  == s[1] = "-"
           rest == IF s[1] \in {"+", "-"} THEN Tail(s) ELSE s
       IN SignedFromMagnitude(neg, ParseUint(rest, bits), bits)
\* strconv.ParseBool
ParseBool(s) ==
  CASE s \in {<<"1">>, <<"t">>, <<"T">>, <<"T","R","U","E">>, <<"t","r","u","e">>,
              <<"T","r","u","e">>} -> Ok(TRUE)
    [] s \in {<<"0">>, <<"f">>, <<"F">>, <<"F","A","L","S","E">>,
              <<"f","a","l","s","e">>, <<"F","a","l","s","e">>} -> Ok(FALSE)
    [] OTHER -> Fail(FALSE, "ErrSyntax")
Text == {"string", "bytes"}
-----------------------------------------------------------------------------
(* The conversions *)
\* case nil: ErrNil; case error: the error itself; default: unexpected type
Other(zero, r) ==
  CASE r.t = "nil"   -> Fail(zero, "ErrNil")
    [] r.t = "error" -> Fail(zero, r.v)
    [] OTHER         -> Fail(zero, "ErrType")
\* mutant: the n < 0 check after n := int(reply) is dropped
IntOfUnsignedNoCheck(v) == Ok(Signed(v, Width["int"]))
\* case uint, uint32, uint64: n := int(reply); if n < 0 { 0, strconv.ErrRange }
IntOfUnsigned(v) ==
  LET n == Signed(v, Width["int"]) IN IF n < 0 THEN Fail(0, "ErrRange") ELSE Ok(n)
\* case int64: x := int(reply); if int64(x) != reply { 0, strconv.ErrRange }
IntOfInt64(v) ==
  LET x == Signed(v, Width["int"])
  IN IF Signed(x, Width["int64"]) # v THEN Fail(0, "ErrRange") ELSE Ok(x)
\* Redis.Int
ReplyInt(r) ==
  IF r.e # "none" THEN Fail(0, r.e)
  ELSE CASE r.t \in {"int", "int8", "int16", "int32", "uint8", "uint16"} ->
              Ok(Signed(r.v, Width["int"]))
         [] r.t = "int64" -> IntOfInt64(r.v)
         [] r.t \in {"uint", "uint32", "uint64"} -> IntOfUnsigned(r.v)
         [] r.t \in Text ->
              IF r.v = <<>> THEN Fail(0, "ErrNil")
              ELSE LET p == ParseInt(r.v, Width["int"])
                   IN Fail(Signed(p.val, Width["int"]), p.err)
         [] OTHER -> Other(0, r)
\* case uint, uint64: n := int64(reply); if n < 0 { 0, strconv.ErrRange }
Int64OfUnsigned(v) ==
  LET n == Signed(v, Width["int64"]) IN IF n < 0 THEN Fail(0, "ErrRange") ELSE Ok(n)
\* Redis.Int64
ReplyInt64(r) ==
  IF r.e # "none" THEN Fail(0, r.e)
  ELSE CASE r.t \in SignedTypes \cup {"uint8", "uint16", "uint32"} ->
              Ok(Signed(r.v, Width["int64"]))
         [] r.t \in {"uint", "uint64"} -> Int64OfUnsigned(r.v)
         [] r.t \in Text ->
              IF r.v = <<>> THEN Fail(0, "ErrNil") ELSE ParseInt(r.v, Width["int64"])
         [] OTHER -> Other(0, r)
\* Redis.Uint64: a negative signed reply is ErrNegativeInt
ReplyUint64(r) ==
  IF r.e # "none" THEN Fail(0, r.e)
  ELSE CASE r.t \in UnsignedTypes -> Ok(Unsigned(r.v, Width["uint64"]))
         [] r.t \in SignedTypes ->
              IF r.v < 0 THEN Fail(0, "ErrNegativeInt") ELSE Ok(Unsigned(r.v, Width["uint64"]))
         [] r.t \in Text ->
              IF r.v = <<>> THEN Fail(0, "ErrNil") ELSE ParseUint(r.v, Width["uint64"])
         [] OTHER -> Other(0, r)
\* Redis.Bool: only bool, int64 and text are accepted
ReplyBool(r) ==
  IF r.e # "none" THEN Fail(FALSE, r.e)
  ELSE CASE r.t = "bool"  -> Ok(r.v)
         [] r.t = "int64" -> Ok(r.v # 0)
         [] r.t \in Text  -> IF r.v = <<>> THEN Fail(FALSE, "ErrNil") ELSE ParseBool(r.v)
         [] OTHER -> Other(FALSE, r)
\* Redis.Bytes
ReplyBytes(r) ==
  IF r.e # "none" THEN Fail(<<>>, r.e)
  ELSE IF r.t \in Text THEN IF r.v = <<>> THEN Fail(<<>>, "ErrNil") ELSE Ok(r.v)
       ELSE Other(<<>>, r)
\* Redis.String: integers in decimal, bool as strconv.FormatBool
ReplyString(r) ==
  IF r.e # "none" THEN Fail(<<>>, r.e)
  ELSE CASE r.t \in Text -> IF r.v = <<>> THEN Fail(<<>>, "ErrNil") ELSE Ok(r.v)
         [] r.t \in SignedTypes   -> Ok(FormatInt(r.v))
         [] r.t \in UnsignedTypes -> Ok(FormatUint(r.v))
         [] r.t = "bool" -> Ok(IF r.v THEN <<"t","r","u","e">> ELSE <<"f","a","l","s","e">>)
         [] OTHER -> Other(<<>>, r)
(* Redis.Strings: a []interface{} element that is nil stays "", a string   *)
(* or []byte is kept, any other element fails the whole call; a []string   *)
(* is returned as it is.                                                   *)
ReplyStrings(r) ==
  IF r.e # "none" THEN Fail(<<>>, r.e)
  ELSE CASE r.t = "array" ->
              IF \E i \in DOMAIN r.v : r.v[i].t \notin Text \cup {"nil"}
              THEN Fail(<<>>, "ErrType")
              ELSE Ok([i \in DOMAIN r.v |-> IF r.v[i].t = "nil" THEN <<>> ELSE r.v[i].v])
         [] r.t = "strings" -> Ok(r.v)
         [] OTHER -> Other(<<>>, r)
\* Redis.Values
ReplyValues(r) ==
  IF r.e # "none" THEN Fail(<<>>, r.e)
  ELSE IF r.t = "array" THEN Ok(r.v) ELSE Other(<<>>, r)
Apply(c, r) ==
  CASE c = "Int"     -> ReplyInt(r)
    [] c = "Int64"   -> ReplyInt64(r)
    [] c = "Uint64"  -> ReplyUint64(r)
    [] c = "Bool"    -> ReplyBool(r)
    [] c = "Bytes"   -> ReplyBytes(r)
    [] c = "String"  -> ReplyString(r)
    [] c = "Strings" -> ReplyStrings(r)
    [] c = "Values"  -> ReplyValues(r)
-----------------------------------------------------------------------------
ConvInit ==
  /\ reply \in Replies
  /\ out = <<>>
\* r.Int(reply, err), r.Int64(reply, err), ... on the reply
Convert(c) ==
  /\ c \notin DOMAIN out
  /\ out' = (c :> Apply(c, reply)) @@ out
  /\ UNCHANGED reply
ConvNext == \E c \in Calls : Convert(c)
ConvSpec == ConvInit /\ [][ConvNext]_convVars
-----------------------------------------------------------------------------
(* Properties *)
(* The reference: the integer a reply denotes is its value when it is an   *)
(* integer, and for text the decimal numeral it spells, optionally signed  *)
(* when the target is signed; anything else denotes no integer.            *)
IsNumeral(s) == Len(s) > 0 /\ \A i \in 1..Len(s) : IsDigit(s[i])
NumeralValue(s) ==
  FoldFunction(LAMBDA a, b : a + b, 0, [i \in 1..Len(s) |-> DigitOf(s[i]) * 10^(Len(s) - i)])
Denoted(r, signed) ==
  CASE r.e # "none" -> {}
    [] r.t \in SignedTypes \cup UnsignedTypes -> {r.v}
    [] r.t \notin Text -> {}
    [] IsNumeral(r.v) -> {NumeralValue(r.v)}
    [] signed /\ r.v # <<>> /\ r.v[1] = "+" /\ IsNumeral(Tail(r.v)) -> {NumeralValue(Tail(r.v))}
    [] signed /\ r.v # <<>> /\ r.v[1] = "-" /\ IsNumeral(Tail(r.v)) -> {-NumeralValue(Tail(r.v))}
    [] OTHER -> {}
Target == [Int    |-> [signed |-> TRUE,  vals |-> -(2^(Width["int"] - 1))..(2^(Width["int"] - 1) - 1)],
           Int64  |-> [signed |-> TRUE,  vals |-> -(2^(Width["int64"] - 1))..(2^(Width["int64"] - 1) - 1)],
           Uint64 |-> [signed |-> FALSE, vals |-> 0..(2^Width["uint64"] - 1)]]
(* Int, Int64 and Uint64 return the number the reply denotes with a nil    *)
(* error exactly when the target type can hold it, and an error otherwise: *)
(* the int(reply) wrap-around checks of the uint/int64 cases, the range    *)
(* clamping of strconv and ErrNegativeInt never let a wrong number through *)
(* as a success nor reject a number that fits.                             *)
ConversionsExact ==
  \A c \in DOMAIN Target \cap DOMAIN out :
    LET xs == Denoted(reply, Target[c].signed)
    IN /\ (out[c].err = "none") <=> (\E x \in xs : x \in Target[c].vals)
       /\ \A x \in xs : out[c].err = "none" => out[c].val = x
====
