--------------------------- MODULE FilterLanguage ---------------------------
(***************************************************************************)
(* The filter language: how Parser.ParseExpr turns the tokens of a         *)
(* condition into an expression tree (pkg/filter/ql/parser.go), and what   *)
(* ValuerEval.Eval makes of the tree (pkg/filter/ql/ast.go).  A state is a *)
(* condition with its tree, a step adds a token to it, so the states are   *)
(* the conditions up to a length.  Tokens stand for their classes:         *)
(*    f a field, s a literal that may be in a list, d one that may not,    *)
(*    g the name of a function, m an expression macro, f = 's' or f = 's', *)
(*    l a list macro, ('s'), eq is = and stands for the comparisons, in    *)
(*    for in and iin, has is contains and stands for the other operators   *)
(*    of strings.                                                          *)
(***************************************************************************)
EXTENDS Naturals, Sequences

CONSTANTS
    FlMax,     \* bound: tokens of a condition
    FlTokens   \* tokens that conditions are made of

ASSUME FlAssumption ==
    FlMax \in Nat /\ FlTokens \subseteq
       {"f", "s", "d", "g", "m", "l", "eq", "in", "has", "and", "or", "not", "(", ")", ","}

VARIABLES
    tokens,  \* the condition
    ast      \* the outcome of Compile: [ok, e, at], at the first token not consumed

flVars == <<tokens, ast>>

\* token.precedence
Prec == [or |-> 1, and |-> 2, not |-> 3, eq |-> 4, in |-> 5, has |-> 5]
Operators == DOMAIN Prec

At(s, i) == IF i <= Len(s) THEN s[i] ELSE "EOF"

Leaf(t) == [kind |-> "leaf", tok |-> t]
Bin(op, l, r) == [kind |-> "bin", op |-> op, l |-> l, r |-> r, macro |-> FALSE]
Not(e, infix) == [kind |-> "not", e |-> e, infix |-> infix]
Paren(e) == [kind |-> "paren", e |-> e]
List(n) == [kind |-> "list", n |-> n]
Call(args) == [kind |-> "call", args |-> args]
MacroExpr == LET x == Bin("eq", Leaf("f"), Leaf("s")) IN
             [Bin("or", x, x) EXCEPT !.macro = TRUE]
MacroList == List(0)

Found(e, i) == [ok |-> TRUE, e |-> e, at |-> i]
\* The token that shows the error.
Failed(i) == [ok |-> FALSE, at |-> i]
-----------------------------------------------------------------------------
RECURSIVE ParseExpr(_, _), Operations(_, _, _), ParseUnaryExpr(_, _), ParseList(_, _, _),
          ParseArgs(_, _, _), Insert(_, _, _)

\* The list at i, n literals of it read before; fails at the token that is not
\* a literal, where the scanner is put back to.
ParseList(s, i, n) ==
    IF At(s, i) # "s" THEN Failed(i)
    ELSE IF At(s, i + 1) = "," THEN ParseList(s, i + 2, n + 1)
    ELSE Found(List(n + 1), i + 1)

\* The arguments of a function from i, after those in args.
ParseArgs(s, i, args) ==
    LET r == ParseExpr(s, i) IN
    IF ~r.ok THEN r
    ELSE IF At(s, r.at) = "," THEN ParseArgs(s, r.at + 1, Append(args, r.e))
    ELSE IF At(s, r.at) = ")" THEN Found(Call(Append(args, r.e)), r.at + 1)
    ELSE Failed(r.at)

\* The parenthesis is not asked for.
Unclosed(s, e, i) == Found(e, i)

Closed(s, e, i) == IF At(s, i) = ")" THEN Found(e, i + 1) ELSE Failed(i)

\* A grouped expression is tried after the list, from where the list failed.
ParseUnaryExpr(s, i) ==
    CASE At(s, i) = "(" ->
           LET l == ParseList(s, i + 1, 0)
               g == ParseExpr(s, l.at)
           IN IF l.ok THEN Closed(s, l.e, l.at)
              ELSE IF g.ok THEN Closed(s, Paren(g.e), g.at) ELSE g
      [] At(s, i) = "g" ->
           IF At(s, i + 1) # "(" THEN Failed(i + 1)
           ELSE IF At(s, i + 2) = ")" THEN Found(Call(<<>>), i + 3)
           ELSE ParseArgs(s, i + 2, <<>>)
      [] At(s, i) = "m" -> Found(MacroExpr, i + 1)
      [] At(s, i) = "l" -> Found(MacroList, i + 1)
      [] At(s, i) \in {"f", "s", "d"} -> Found(Leaf(s[i]), i + 1)
      [] OTHER -> Failed(i)

\* Precedence is not looked at.
InsertRight(e, op, rhs) ==
    IF e.kind # "bin" THEN Bin(op, e, rhs) ELSE [e EXCEPT !.r = Bin(op, e.r, rhs)]

\* Goes down the right side of tree e for as long as the operators there bind
\* less than op, and puts op above what it finds.
Insert(e, op, rhs) ==
    IF e.kind = "bin" /\ Prec[e.op] < Prec[op]
    THEN [e EXCEPT !.r = Insert(e.r, op, rhs)]
    ELSE IF op = "not" THEN Not([rhs EXCEPT !.l = e], TRUE)
    ELSE Bin(op, e, rhs)

\* What follows the operator at i: an operand, after "not" all that is left of
\* the expression, and after an infix "not" the operator it negates.
RightHand(s, i) ==
    LET r == ParseUnaryExpr(s, i + 2)
        n == ParseExpr(s, i + 2)
    IN IF s[i] = "not"
       THEN IF At(s, i + 1) \notin Operators THEN Failed(i + 1)
            ELSE IF r.ok THEN Found(Bin(s[i + 1], Leaf("f"), r.e), r.at) ELSE r
       ELSE IF At(s, i + 1) = "not"
            THEN IF n.ok THEN Found(Not(n.e, FALSE), n.at) ELSE n
            ELSE ParseUnaryExpr(s, i + 1)

\* The loop of ParseExpr with tree e at token i.
Operations(s, e, i) ==
    IF At(s, i) \notin Operators
    THEN IF At(s, i) \in {"EOF", ")", ","} THEN Found(e, i) ELSE Failed(i)
    ELSE IF s[i] = "in" /\ At(s, i + 1) \notin {"(", "l"} THEN Failed(i + 1)
    ELSE LET r == RightHand(s, i) IN
         IF r.ok THEN Operations(s, Insert(e, s[i], r.e), r.at) ELSE r

ParseExpr(s, i) ==
    LET r == ParseUnaryExpr(s, i) IN
    IF r.ok THEN Operations(s, r.e, r.at) ELSE r

\* Compile asks ParseExpr for the tree and not whether all was consumed.
Compile(s) == ParseExpr(s, 1)

FlInit == tokens = <<>> /\ ast = Compile(<<>>)

\* Nothing that is added changes a condition with an error before its end, or
\* with an end of the expression before its end.
FlNext ==
    /\ Len(tokens) < FlMax /\ ast.at > Len(tokens)
    /\ \E t \in FlTokens : tokens' = Append(tokens, t) /\ ast' = Compile(tokens')

FlSpec == FlInit /\ [][FlNext]_flVars
-----------------------------------------------------------------------------
RECURSIVE Eval(_, _, _)

\* The values: "nil", the booleans "T" and "F", the string of the literals and
\* of the lists, another string, a number, and a list.
Bool(b) == IF b THEN "T" ELSE "F"
IsBool(v) == v \in {"T", "F"}

Negated(v) == IF IsBool(v) THEN Bool(v = "F") ELSE "nil"

\* evalBinaryExpr without its first lines, after the implicit casts of nil.
Apply(op, l, r) ==
    CASE op = "and" /\ IsBool(l) -> Bool(l = "T" /\ r = "T")
      [] op = "or" /\ IsBool(l) -> Bool(IsBool(r) /\ (l = "T" \/ r = "T"))
      [] op = "eq" -> Bool(l = r /\ l \notin {"nil", "list"})
      [] op = "in" /\ l \in {"string", "other"} -> Bool(l = "string" /\ r = "list")
      [] op = "in" /\ l = "list" -> Bool(r \in {"list", "string"})
      [] op = "has" /\ l \in {"string", "other", "list"} ->
           Bool(l = r \/ {l, r} = {"list", "string"})
      [] OTHER -> "nil"

Cast(v, other) == IF v = "nil" /\ IsBool(other) THEN "F" ELSE v

\* A value that is there is taken for one that is missing.
NotMissing(e, v) == IF e.kind = "call" THEN "T" ELSE Negated(v)

\* Eval of a NotExpr depends on the kind of expression below it.
EvalNot(e, v) ==
    CASE e.kind \in {"bin", "paren"} -> Negated(v)
      [] e.kind = "call" -> IF v = "nil" THEN "T" ELSE Negated(v)
      [] OTHER -> "nil"

\* A missing value decides, too.
LazyOnNil(op, l) == (op = "and" /\ l \in {"F", "nil"}) \/ (op = "or" /\ l = "T")
\* The lazy evaluation of and and or.
Decided(op, l) == (op = "and" /\ l = "F") \/ (op = "or" /\ l = "T")

\* The value of e; env gives the field and the function their values; lazy as
\* the code is, or not.
Eval(e, env, lazy) ==
    CASE e.kind = "leaf" -> [f |-> env.f, s |-> "string", d |-> "number"][e.tok]
      [] e.kind = "list" -> "list"
      [] e.kind = "call" -> env.g
      [] e.kind = "paren" -> Eval(e.e, env, lazy)
      [] e.kind = "not" -> EvalNot(e.e, Eval(e.e, env, lazy))
      [] e.kind = "bin" ->
           LET l == Eval(e.l, env, lazy)
               r == Eval(e.r, env, lazy)
           IN IF lazy /\ Decided(e.op, l) THEN l
              ELSE Apply(e.op, Cast(l, r), Cast(r, l))

Env == [f : {"nil", "T", "F", "string", "other"}, g : {"nil", "T", "F"}]
-----------------------------------------------------------------------------
RECURSIVE Yield(_), Nodes(_), YieldAll(_)

\* The tokens a tree was made of.
YieldAll(args) ==
    IF args = <<>> THEN <<>>
    ELSE Yield(Head(args)) \o (IF Len(args) > 1 THEN <<",">> ELSE <<>>) \o YieldAll(Tail(args))

Yield(e) ==
    CASE e.kind = "leaf" -> <<e.tok>>
      [] e.kind = "list" /\ e = MacroList -> <<"l">>
      [] e.kind = "list" /\ e # MacroList -> <<"(">> \o [i \in 1 .. 2 * e.n - 1 |-> IF i % 2 = 1 THEN "s" ELSE ","]
                            \o <<")">>
      [] e.kind = "call" -> <<"g", "(">> \o YieldAll(e.args) \o <<")">>
      [] e.kind = "paren" -> <<"(">> \o Yield(e.e) \o <<")">>
      [] e.kind = "not" /\ e.infix -> Yield(e.e.l) \o <<"not", e.e.op>> \o Yield(e.e.r)
      [] e.kind = "not" /\ ~e.infix -> <<"not">> \o Yield(e.e)
      [] e.kind = "bin" /\ e = MacroExpr -> <<"m">>
      [] e.kind = "bin" /\ e # MacroExpr -> Yield(e.l) \o <<e.op>> \o Yield(e.r)

\* The nodes of a tree.
Nodes(e) ==
    {e} \cup CASE e.kind = "bin" -> Nodes(e.l) \cup Nodes(e.r)
               [] e.kind \in {"not", "paren"} -> Nodes(e.e)
               [] e.kind = "call" -> UNION {Nodes(e.args[i]) : i \in DOMAIN e.args}
               [] OTHER -> {}

\* Operators group by precedence, and from the left when it is the same.  An
\* infix "not" has a precedence of its own, whatever it negates.
Binds(e, p) == e.kind = "bin" /\ ~e.macro => Prec[e.op] >= p
Infix(e) == {n.e : n \in {x \in Nodes(e) : x.kind = "not" /\ x.infix}}
Grouped(e) ==
    \A n \in Nodes(e) : n.kind = "bin" =>
        LET p == IF n \in Infix(e) THEN Prec["not"] ELSE Prec[n.op] IN
        Binds(n.l, p) /\ Binds(n.r, p + 1)

\* A literal, a comma and something that is no literal, in parentheses.
MixedList(s) ==
    \E i, j \in DOMAIN s :
        /\ i + 2 < j /\ s[i] = "(" /\ (i > 1 => s[i - 1] # "g") /\ s[j - 1] = "," /\ s[j] # "s"
        /\ \A k \in i + 1 .. j - 2 : s[k] = IF (k - i) % 2 = 1 THEN "s" ELSE ","

\* A macro followed by an operator that binds tighter than its own.
LooseMacro(s) ==
    \E i \in 1 .. Len(s) - 1 : s[i] = "m" /\ s[i + 1] \in Operators \ {"or"}

Consumed == SubSeq(tokens, 1, ast.at - 1)

\* A condition that compiles is compiled whole: its tree has its tokens, in
\* their order.  Two conditions lose a part: one with a closing parenthesis or
\* a comma too many, of which the rest is ignored, and one with a list that
\* mixes literals and other expressions, whose literals before the first other
\* expression are dropped.
FlWhole ==
    ast.ok =>
        /\ ast.at <= Len(tokens) => tokens[ast.at] \in {")", ","}
        /\ Yield(ast.e) = Consumed \/ MixedList(Consumed) \/ LooseMacro(Consumed)

\* The operators of a tree group by precedence, from the left, and a macro is
\* a unit, unless an operator that binds tighter than the one of the macro
\* follows it and takes the right part of the macro for its operand.
FlGrouped ==
    ast.ok => Grouped(ast.e) \/ LooseMacro(Consumed)

\* not negates the result of the adjacent expression: what a "not" after an
\* operator negates is one operand or one comparison, and not several that are
\* combined by "and" and "or" outside of parentheses.
FlNotAdjacent ==
    ast.ok => \A n \in Nodes(ast.e) :
        n.kind = "not" /\ ~n.infix /\ n.e.kind = "bin" /\ ~n.e.macro
            => n.e.op \notin {"and", "or"}

\* An expression and its negation are never both true, and one of them is when
\* the expression is a boolean, except for a bare field and for a negation,
\* whose negation has no value; the negation of a missing value is true for a
\* function only.
FlNegation ==
    ast.ok => \A n \in Nodes(ast.e) : n.kind = "not" => \A env \in Env :
        LET v == Eval(n.e, env, TRUE)
            w == Eval(n, env, TRUE)
        IN /\ v = "T" => w # "T"
           /\ IsBool(v) /\ n.e.kind \notin {"leaf", "not"} => IsBool(w) /\ w # v
           /\ v = "nil" /\ w = "T" => n.e.kind = "call"

\* Lazy evaluation gives what full evaluation gives, unless an "or" has an
\* operand on its right that is neither a boolean nor missing.
FlLazy ==
    ast.ok => \A env \in Env :
        \/ Eval(ast.e, env, TRUE) = Eval(ast.e, env, FALSE)
        \/ \E n \in Nodes(ast.e) : n.kind = "bin" /\ n.op = "or"
              /\ ~IsBool(Eval(n.r, env, FALSE)) /\ Eval(n.r, env, FALSE) # "nil"

\* The tree of a condition has all its tokens, in their order and grouped by
\* precedence, but for the conditions that the parts name.
FlParsed == FlWhole /\ FlGrouped

\* The value of a condition does not depend on the lazy evaluation, and a
\* condition and its negation exclude each other, missing fields included, but
\* for the conditions that the parts name.
FlEvaluated == FlNegation /\ FlLazy
=============================================================================
