------------------------------ MODULE ArrayUtil ------------------------------
(***************************************************************************)
(* The slice helpers of src/util/array.go: ContainsString, Find, Contain,  *)
(* Reverse and Remove, each translated loop by loop as a recursive         *)
(* operator and checked against a reference definition on every slice of   *)
(* up to a few elements.                                                   *)
(*                                                                         *)
(* Find, Contain, Reverse and Remove take interface{} and inspect it by    *)
(* reflection: an argument is a record of its Go shape (whether it is a    *)
(* pointer to the slice, the element type, the elements) and a value is    *)
(* its dynamic type and value.  reflect.DeepEqual of two values of one     *)
(* type is equality.  A panic is the result "panic".                       *)
(***************************************************************************)
EXTENDS Integers, Sequences, SequencesExt

CONSTANTS ArrayInputs,   \* [ptr : BOOLEAN, et : element type, s : elements]
          ValueInputs    \* [t : dynamic type, v : value]

ArrayCalls == {"ContainsString", "Find", "Contain", "Reverse", "Remove"}

VARIABLES
  arr,   \* the slice argument
  val,   \* the value argument
  fn,    \* the helper called
  res    \* <<what it returned>>, or <<>> before the call

arrayVars == <<arr, val, fn, res>>

-----------------------------------------------------------------------------
\* ContainsString: for _, v := range slice { if v == s { return true } }
RECURSIVE ContainsLoop(_, _, _)
ContainsLoop(s, x, i) ==
  IF i > Len(s) THEN FALSE
  ELSE IF s[i] = x THEN TRUE ELSE ContainsLoop(s, x, i + 1)

ContainsString(a, x) == ContainsLoop(a.s, x.v, 1)

\* Find: for i := 0; i < v.Len(); i++ { if DeepEqual(...) { return i } }
RECURSIVE FindLoop(_, _, _)
FindLoop(s, x, i) ==
  IF i >= Len(s) THEN -1
  ELSE IF s[i + 1] = x THEN i ELSE FindLoop(s, x, i + 1)

\* the reflection checks: a pointer is dereferenced, and the slice's element
\* type must be the value's dynamic type
Find(a, x) == IF a.et # x.t THEN "panic" ELSE FindLoop(a.s, x.v, 0)

\* Contain: i := Find(array, val); Find's panic propagates
Contain(a, x) == IF a.et # x.t THEN "panic" ELSE Find(a, x) # -1

\* Reverse: for i, j := 0, v.Len()-1; i < j; i, j = i+1, j-1 { swap }
RECURSIVE ReverseLoop(_, _, _)
ReverseLoop(s, i, j) ==
  IF i < j THEN ReverseLoop([s EXCEPT ![i + 1] = s[j + 1], ![j + 1] = s[i + 1]],
                            i + 1, j - 1)
  ELSE s

UtilReverse(a) == ReverseLoop(a.s, 0, Len(a.s) - 1)

\* Remove: for i, j := 0, 0; i < v.Len(); i++ { equal: removed += 1;
\* else v.Index(j).Set(ei); j += 1 }, then v.SetLen(v.Len() - removed)
RECURSIVE RemoveLoopNoShift(_, _, _, _, _)
RemoveLoopNoShift(s, x, i, j, removed) ==
  IF i >= Len(s) THEN [removed |-> removed, s |-> SubSeq(s, 1, Len(s) - removed)]
  ELSE IF s[i + 1] = x THEN RemoveLoopNoShift(s, x, i + 1, j, removed + 1)
  ELSE RemoveLoopNoShift(s, x, i + 1, j + 1, removed)

RECURSIVE RemoveLoop(_, _, _, _, _)
RemoveLoop(s, x, i, j, removed) ==
  IF i >= Len(s) THEN [removed |-> removed, s |-> SubSeq(s, 1, Len(s) - removed)]
  ELSE IF s[i + 1] = x THEN RemoveLoop(s, x, i + 1, j, removed + 1)
  ELSE RemoveLoop([s EXCEPT ![j + 1] = s[i + 1]], x, i + 1, j + 1, removed)

\* Remove needs a pointer to the slice, then the same type check as Find
UtilRemove(a, x) ==
  IF ~a.ptr \/ a.et # x.t THEN "panic" ELSE RemoveLoop(a.s, x.v, 0, 0, 0)

ApplyArray(f, a, x) ==
  CASE f = "ContainsString" -> ContainsString(a, x)
    [] f = "Find"           -> Find(a, x)
    [] f = "Contain"        -> Contain(a, x)
    [] f = "Reverse"        -> UtilReverse(a)
    [] f = "Remove"         -> UtilRemove(a, x)

-----------------------------------------------------------------------------
\* ContainsString is statically typed: it is only called on []string
ArrayInit ==
  /\ arr \in ArrayInputs
  /\ val \in ValueInputs
  /\ fn \in ArrayCalls
  /\ fn = "ContainsString" => arr.et = "string" /\ val.t = "string" /\ ~arr.ptr
  /\ res = <<>>

\* the helper runs to completion on the arguments
CallHelper(f) ==
  /\ fn = f /\ res = <<>>
  /\ res' = <<ApplyArray(f, arr, val)>>
  /\ UNCHANGED <<arr, val, fn>>

ArrayNext == \E f \in ArrayCalls : CallHelper(f)

-----------------------------------------------------------------------------
(* Properties *)

\* the reference: what each helper's comment and name promise, stated with
\* the sequence operators of SequencesExt
Reference(f, a, x) ==
  LET typed == a.et = x.t
      kept  == SelectSeq(a.s, LAMBDA e : e # x.v)
  IN CASE f = "ContainsString" -> x.v \in ToSet(a.s)
       [] f = "Find"    -> IF typed THEN SelectInSeq(a.s, LAMBDA e : e = x.v) - 1
                           ELSE "panic"
       [] f = "Contain" -> IF typed THEN x.v \in ToSet(a.s) ELSE "panic"
       [] f = "Reverse" -> Reverse(a.s)
       [] f = "Remove"  -> IF typed /\ a.ptr
                             THEN [removed |-> Len(a.s) - Len(kept), s |-> kept]
                             ELSE "panic"

(* Every helper returns what the reference says, on every slice of the     *)
(* bounded inputs: Find the index of the first equal element or -1, and    *)
(* Remove ("Remove all elems equals to Val in Array. Return the number of  *)
(* elems removed.", array.go:102-103) the slice with every equal element   *)
(* gone, the others in their order, and how many it dropped; the in-place  *)
(* loops of Reverse and Remove neither lose nor duplicate an element.      *)
ArrayHelpersMatchReference ==
  res # <<>> => res[1] = Reference(fn, arr, val)
=============================================================================
