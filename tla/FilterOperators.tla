-------------------------- MODULE FilterOperators --------------------------
(***************************************************************************)
(* What the operators of the filter language make of two operands          *)
(* (evalBinaryExpr in pkg/filter/ql/ast.go), with the intersection of      *)
(* lists (pkg/util/sets).  An operand has a Go type and a value.  The      *)
(* number of values of each integer type and the rounding of integers to   *)
(* float64 are parameters.  Strings are sequences of characters of one     *)
(* byte, "A" being the upper case of "a": of those wildcard.Match decides  *)
(* Glob, by WcDecides of WildcardMatch.  A state is a pair of operands.    *)
(***************************************************************************)
EXTENDS WildcardMatch, Integers, FiniteSets

CONSTANTS
    FoRange,        \* integer type -> the number of its values
    FoFloats,       \* float64s, in halves
    FoRounded(_),   \* the float64 that an integer is converted to, in halves
    FoText,         \* strings
    FoPattern,      \* patterns
    FoItems         \* lists of strings

IntType == {"uint8", "uint16", "uint32", "int32", "uint64", "int64", "int"}
Unsigned == {"uint8", "uint16", "uint32", "uint64"}
Ints(t) ==
    IF t \in Unsigned THEN 0 .. FoRange[t] - 1 ELSE -(FoRange[t] \div 2) .. FoRange[t] \div 2 - 1

OneByte == {c \in WcChar : WcWidth[c] = 1}

ASSUME FoAssumption ==
    /\ \A t \in IntType : FoRange[t] \in Nat \ {0}
    /\ FoFloats \subseteq Int
    /\ \A t \in IntType : \A n \in Ints(t) : FoRounded(n) \in Int
    /\ FoText \subseteq Seq(OneByte) /\ FoPattern \subseteq Seq(OneByte \cup {"*", "?"})
    /\ FoItems \subseteq Seq(Seq(OneByte))
    /\ {"a", "A"} \subseteq OneByte

VARIABLE operands   \* [l, r], the operands of an operator

Numbers ==
    (UNION {[t : {t}, v : Ints(t)] : t \in IntType}) \cup [t : {"float64"}, v : FoFloats]

Ordering == {"lt", "lte", "gt", "gte"}
Compared == Ordering \cup {"eq", "neq"}

Cmp(op, a, b) ==
    CASE op = "eq" -> a = b [] op = "neq" -> a # b [] op = "lt" -> a < b
      [] op = "lte" -> a <= b [] op = "gt" -> a > b [] op = "gte" -> a >= b
-----------------------------------------------------------------------------
\* For each type of the left operand, the types the right one may have and the
\* type both are converted to.
IntConv == [float64 |-> "float64", int64 |-> "int64", uint64 |-> "uint64"]
Uint8Conv == [float64 |-> "float64", int64 |-> "int64", uint64 |-> "uint64"]
FloatConv == [float64 |-> "float64", int64 |-> "float64", uint64 |-> "float64"]
Int64Conv == [float64 |-> "float64", int64 |-> "int64", uint64 |-> "uint64"]
Uint64Conv == [float64 |-> "float64", int64 |-> "uint64", uint64 |-> "uint64"]
Uint32Conv == [float64 |-> "float64", int32 |-> "uint32", int64 |-> "uint32", uint32 |-> "uint32"]
Uint16Conv == [float64 |-> "float64", int32 |-> "uint16", int64 |-> "uint16", uint16 |-> "uint16"]

Conv == [int |-> IntConv, uint8 |-> Uint8Conv, float64 |-> FloatConv, int64 |-> Int64Conv,
         uint64 |-> Uint64Conv, uint32 |-> Uint32Conv, uint16 |-> Uint16Conv]

As(x, t) ==
    IF t = "float64" THEN IF x.t = t THEN x.v ELSE FoRounded(x.v)
    ELSE IF t \in Unsigned THEN x.v % FoRange[t] ELSE x.v

Negative(x) == x.v < 0

Unguarded(op, l, r) == LET t == Conv[l.t][r.t] IN Cmp(op, As(l, t), As(r, t))

ThroughFloat(op, l, r) ==
    LET t == IF op \in Ordering THEN "float64" ELSE Conv[l.t][r.t] IN
    Cmp(op, As(l, t), As(r, t))

\* A signed operand is tested for its sign before it is converted, but not for
\* equality.
Number(op, l, r) ==
    LET t == Conv[l.t][r.t] IN
    IF op \in Ordering /\ t \in Unsigned /\ (Negative(l) \/ Negative(r))
    THEN (Negative(l) /\ op \in {"lt", "lte"}) \/ (Negative(r) /\ op \in {"gt", "gte"})
    ELSE Cmp(op, As(l, t), As(r, t))
-----------------------------------------------------------------------------
Lower(s) == [i \in DOMAIN s |-> IF s[i] = "A" THEN "a" ELSE s[i]]

\* x lies in s behind its first k characters.
LiesAt(s, x, k) == k \in 0 .. Len(s) - Len(x) /\ \A i \in DOMAIN x : s[k + i] = x[i]
HasPrefix(s, x) == LiesAt(s, x, 0)
HasSuffix(s, x) == LiesAt(s, x, Len(s) - Len(x))
Contains(s, x) == \E k \in 0 .. Len(s) : LiesAt(s, x, k)

Plain == [ieq |-> "eq", icontains |-> "contains", iin |-> "in", istartswith |-> "startswith",
          iendswith |-> "endswith", imatches |-> "matches"]
Textual == {"contains", "startswith", "endswith", "matches",
            "icontains", "istartswith", "iendswith", "imatches"}
Member == {"in", "iin"}

Of(op, s, x) ==
    CASE op \in {"eq", "in"} -> s = x [] op = "contains" -> Contains(s, x)
      [] op = "startswith" -> HasPrefix(s, x) [] op = "endswith" -> HasSuffix(s, x)
      [] op = "matches" -> Glob(x, s)

HalfFolded(op, s, x) == IF op \in DOMAIN Plain THEN Of(Plain[op], Lower(s), x) ELSE Of(op, s, x)

\* One string and one other.
Applies(op, s, x) ==
    IF op \in DOMAIN Plain THEN Of(Plain[op], Lower(s), Lower(x)) ELSE Of(op, s, x)

ItemsOf(l) == {l[i] : i \in DOMAIN l}

AllOf(op, l, r) ==
    IF op \in {"eq", "ieq"} THEN r.t = "string" /\ Applies(op, l.v, r.v)
    ELSE IF op \in Member \/ r.t # "string"
    THEN r.t = "[]string" /\ \A x \in ItemsOf(r.v) : Applies(op, l.v, x)
    ELSE Applies(op, l.v, r.v)

\* A string on the left.
StringOp(op, l, r) ==
    IF op \in {"eq", "ieq"} THEN r.t = "string" /\ Applies(op, l.v, r.v)
    ELSE IF op \in Member \/ r.t # "string"
    THEN r.t = "[]string" /\ \E x \in ItemsOf(r.v) : Applies(op, l.v, x)
    ELSE Applies(op, l.v, r.v)

\* A list on the left: only some operators take a single string, and after the
\* loop of iin the list is compared with the empty string.
ListOp(op, l, r) ==
    LET any(S) == \E s \in ItemsOf(l.v), x \in S : Applies(op, s, x) IN
    IF r.t = "[]string" THEN any(ItemsOf(r.v)) \/ (op = "iin" /\ <<>> \in ItemsOf(l.v))
    ELSE r.t = "string" /\ op \in {"contains", "in", "iin"} /\ any({r.v})

\* sets.IntersectionStrings has each element of the left list at most once.
Common(l, r, fold) ==
    {s \in ItemsOf(l.v) : \E x \in ItemsOf(r.v) : s = x \/ (fold /\ Lower(s) = Lower(x))}

AnyCommon(l, r, fold) == r.t = "[]string" /\ Common(l, r, fold) # {}

Intersects(l, r, fold) == r.t = "[]string" /\ Cardinality(Common(l, r, fold)) = Len(r.v)

Comparable(l, r) == l.t \in DOMAIN Conv /\ r.t \in DOMAIN Conv[l.t]

\* What is left when the types were not comparable.
Otherwise(op) == IF op \in Compared \cup {"ieq"} THEN FALSE ELSE "nil"

EvalOp(op, l, r) ==
    IF Comparable(l, r) /\ op \in Compared THEN Number(op, l, r)
    ELSE IF l.t = "string" /\ op \in {"eq", "ieq"} \cup Textual \cup Member THEN StringOp(op, l, r)
    ELSE IF l.t = "string" /\ op = "neq" THEN r.t = "string" /\ l.v # r.v
    ELSE IF l.t = "[]string" /\ op \in Textual \cup Member THEN ListOp(op, l, r)
    ELSE IF l.t = "[]string" /\ op \in {"intersects", "iintersects"}
    THEN Intersects(l, r, op = "iintersects")
    ELSE Otherwise(op)
-----------------------------------------------------------------------------
Nil == [t |-> "nil", v |-> 0]
Text(v) == [t |-> "string", v |-> v]
Items(v) == [t |-> "[]string", v |-> v]

FoInit == operands = [l |-> Nil, r |-> Nil]

\* Two numbers, a text and a pattern, or two lists or one and a string.
FoNext ==
    /\ operands.l.t = "nil"
    /\ \/ \E l, r \in Numbers : operands' = [l |-> l, r |-> r]
       \/ \E s \in FoText, p \in FoPattern :
             operands' = [l |-> Text(s), r |-> Text(p)]
       \/ \E l, r \in FoItems :
             \/ operands' = [l |-> Items(l), r |-> Items(r)]
             \/ \E s \in ItemsOf(r) : operands' = [l |-> Items(l), r |-> Text(s)]
             \/ \E s \in ItemsOf(l) : operands' = [l |-> Text(s), r |-> Items(r)]

FoSpec == FoInit /\ [][FoNext]_operands
-----------------------------------------------------------------------------
L == operands.l
R == operands.r

\* The value of a number, in halves.
Value(x) == IF x.t = "float64" THEN x.v ELSE 2 * x.v

\* A number fits the type that both are converted to.
Fits(x, t) == IF t = "float64" THEN FoRounded(x.v) = 2 * x.v ELSE x.v \in Ints(t)

\* Numbers of different types are compared by their values, also a negative
\* with an unsigned one, whenever the type they are converted to can hold both.
\* Nothing is claimed of a number that this type cannot hold: there a literal
\* beyond the range of an uint16 or uint32 field wraps around.
FoNumbers ==
    Comparable(L, R) =>
      \A op \in Compared :
        LET t == Conv[L.t][R.t] IN
        \/ EvalOp(op, L, R) = Cmp(op, Value(L), Value(R))
        \/ \E x \in {L, R} : x.t # "float64" /\ ~Fits(x, t) /\ ~(t \in Unsigned /\ Negative(x) /\ op \in Ordering)

\* Of two numbers that can be compared and are not negative exactly one of =, <
\* and > holds, whatever the conversion did to them, and the other operators
\* agree.  Of two that cannot be compared none holds, not even !=.
FoTrichotomy ==
    L.t \in IntType \cup {"float64"} /\ ~Negative(L) /\ ~Negative(R) =>
      LET holds(op) == EvalOp(op, L, R) IN
      IF Comparable(L, R)
      THEN /\ Cardinality({op \in {"eq", "lt", "gt"} : holds(op)}) = 1
           /\ holds("neq") = ~holds("eq")
           /\ holds("lte") = ~holds("gt") /\ holds("gte") = ~holds("lt")
      ELSE \A op \in Compared : ~holds(op)

\* The case-insensitive variant of an operator holds wherever the operator does.
\* Nothing is claimed of icontains for a list and a single string, which contains
\* takes and icontains does not.
FoFold ==
    L.t \in {"string", "[]string"} =>
      \A op \in DOMAIN Plain :
        EvalOp(Plain[op], L, R) = TRUE =>
          EvalOp(op, L, R) = TRUE \/ (L.t = "[]string" /\ R.t = "string" /\ op = "icontains")

\* A list of operands holds what one of its elements does, on either side.
\* Nothing is claimed of iin for a list on the left with an empty string.
FoAny ==
    R.t = "[]string" =>
      \A op \in Textual \cup Member :
        (L.t = "[]string" /\ op = "iin" => <<>> \notin ItemsOf(L.v)) =>
          EvalOp(op, L, R) =
            IF L.t = "string" THEN \E x \in ItemsOf(R.v) : EvalOp(op, L, Items(<<x>>))
            ELSE \E s \in ItemsOf(L.v) : EvalOp(op, Text(s), R)

\* The elements of S that are equal but for their case are the same.
CaseApart(S) == Cardinality({Lower(s) : s \in S}) = Cardinality(S)

\* intersects holds only when all elements on the right are on the left, and it
\* holds then if the list on the right has no element twice.  iintersects does
\* so for the elements in lower case, if no two on the left, and for the second
\* part no two on the right, are the same in lower case.  Nothing is claimed of
\* other lists, of which the intersection is counted against repeated elements.
FoIntersects ==
    L.t = "[]string" /\ R.t = "[]string" =>
      LET A == ItemsOf(L.v)
          B == ItemsOf(R.v)
          fold(S) == {Lower(s) : s \in S}
          once == Cardinality(B) = Len(R.v)
      IN
      /\ EvalOp("intersects", L, R) => B \subseteq A
      /\ once /\ B \subseteq A => EvalOp("intersects", L, R)
      /\ CaseApart(A) =>
           /\ EvalOp("iintersects", L, R) => fold(B) \subseteq fold(A)
           /\ once /\ CaseApart(B) /\ fold(B) \subseteq fold(A) => EvalOp("iintersects", L, R)

\* The operators on numbers, strings, patterns and lists (evalBinaryExpr) have
\* the documented meaning for the operands of which the parts claim something.
FoOperators == FoNumbers /\ FoTrichotomy /\ FoFold /\ FoAny /\ FoIntersects /\ WcDecides
=============================================================================
