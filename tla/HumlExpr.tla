------------------------------ MODULE HumlExpr ------------------------------
(***************************************************************************)
(* The expressions of a workflow document, ${...}: the recursive descent   *)
(* of internal/huml/parser.go and the evaluator of evaluator.go.           *)
(*                                                                         *)
(* Text is a sequence of glyphs: a punctuation character, a space, a run   *)
(* of digits, or a word.  Two words or two runs of digits never stand side *)
(* by side, so a word is what readIdent reads, and the text of a value is  *)
(* cut no finer.  Numbers are exact rationals: float64, int and int64      *)
(* print and compare alike in the range used.                              *)
(*                                                                         *)
(* The operators are recursive, as the code is, and only run by TLC.       *)
(***************************************************************************)
EXTENDS Integers, Sequences, FiniteSets, SequencesExt

CONSTANTS
  NumberOf,   \* the value of each run of digits: one or two, no zero in front
  Words,      \* the glyphs that are identifiers
  UpperOf     \* the upper case of the words that have one of their own

Digits == DOMAIN NumberOf

\* What the parsers return: a tree and the position after it, or an error.
Ok(tree, at) == [ok |-> TRUE, tree |-> tree, at |-> at]
Fail == [ok |-> FALSE]
Then(r, K(_, _)) == IF r.ok THEN K(r.tree, r.at) ELSE Fail

At(s, i) == IF i \in 1 .. Len(s) THEN s[i] ELSE "end"

Stands(s, i, op) == i + Len(op) - 1 <= Len(s) /\ SubSeq(s, i, i + Len(op) - 1) = op

RECURSIVE Skip(_, _)
Skip(s, i) == IF At(s, i) \in {" ", "\t"} THEN Skip(s, i + 1) ELSE i

\* A number at i, with its sign, or none.
Signed(s, i) == At(s, i) = "-" /\ At(s, i + 1) \in Digits

\* Where the digits and dots from i on end, when no more than so many dots are taken.
RECURSIVE EndOfNumber(_, _, _)
EndOfNumber(s, i, dots) ==
  IF At(s, i) \in Digits THEN EndOfNumber(s, i + 1, dots)
  ELSE IF At(s, i) = "." /\ dots > 0 THEN EndOfNumber(s, i + 1, dots - 1)
  ELSE i

-----------------------------------------------------------------------------
(* Values: <<"bool", b>>, <<"str", glyphs>>, <<"num", p, q>>, <<"map", fields>> *)
(* with fields a function on words, or <<"nil">>; <<"table", fields>> is a *)
(* Go map of another type, which len() does not take.                      *)

Bool(b) == <<"bool", b>>
Str(t)  == <<"str", t>>
Num(p, q) == <<"num", p, q>>
Nil == <<"nil">>

RECURSIVE Gcd(_, _)
Gcd(a, b) == IF b = 0 THEN a ELSE Gcd(b, a % b)
Abs(n) == IF n < 0 THEN -n ELSE n
Ratio(p, q) ==
  LET d == Gcd(Abs(p), Abs(q)) IN
  Num((IF q < 0 THEN -p ELSE p) \div d, Abs(q) \div d)

DigitsOf(n) == CHOOSE g \in Digits : NumberOf[g] = n

Minus(n) == IF n < 0 THEN <<"-">> ELSE <<>>

\* A fraction with one decimal place has it; another is written in a form of its own.
NumberGlyphs(p, q) ==
  LET n == Abs(p) IN
  Minus(p) \o (CASE q = 1 -> <<DigitsOf(n)>>
                 [] q \in {2, 5, 10} -> <<DigitsOf(n \div q), ".", DigitsOf(((n % q) * 10) \div q)>>
                 [] OTHER -> <<DigitsOf(n), "/", DigitsOf(q)>>)

\* The value of digits with one dot at most: "2", "2." or "2.5".
Shift(digits) == IF NumberOf[digits] < 10 THEN 10 ELSE 100
FloatOf(g) ==
  IF Len(g) < 3 THEN Num(NumberOf[g[1]], 1)
  ELSE Ratio(NumberOf[g[1]] * Shift(g[3]) + NumberOf[g[3]], Shift(g[3]))

\* fmt.Sprintf("%v", v); a map is written in a form of its own.
RECURSIVE Format(_)
Format(v) ==
  CASE v[1] = "bool" -> IF v[2] THEN <<"true">> ELSE <<"false">>
    [] v[1] = "nil"  -> <<"<nil>">>
    [] v[1] = "str"  -> v[2]
    [] v[1] = "num"  -> NumberGlyphs(v[2], v[3])
    [] v[1] \in {"map", "table"} ->
         LET keys == SetToSeq(DOMAIN v[2]) IN
         <<"map[">> \o FlattenSeq([i \in DOMAIN keys |-> <<keys[i], ":">> \o Format(v[2][keys[i]])]) \o <<"]">>

toBool(v) ==
  CASE v[1] = "bool" -> v[2]
    [] v[1] = "nil"  -> FALSE
    [] v[1] = "str"  -> v[2] # <<>>
    [] v[1] = "num"  -> v[2] # 0
    [] OTHER         -> TRUE

Opposite(n) == Num(-n[2], n[3])

\* The number that the digits from i on are, with its sign, or zero.
Leading(t, i) ==
  CASE Signed(t, i) -> Opposite(FloatOf(SubSeq(t, i + 1, EndOfNumber(t, i + 1, 1) - 1)))
    [] At(t, i) \in Digits -> FloatOf(SubSeq(t, i, EndOfNumber(t, i, 1) - 1))
    [] OTHER -> Num(0, 1)

\* A number; a string counts as the one it starts with.
toFloat(v) ==
  CASE v[1] = "num"  -> v
    [] v[1] = "bool" -> Num(IF v[2] THEN 1 ELSE 0, 1)
    [] v[1] = "str"  -> Leading(v[2], Skip(v[2], 1))
    [] OTHER         -> Num(0, 1)

\* Go's conversion to int64 and its remainder, both towards zero.
Truncated(x) == IF x[2] < 0 THEN -(Abs(x[2]) \div x[3]) ELSE x[2] \div x[3]
Remainder(a, b) == IF a < 0 THEN -(Abs(a) % Abs(b)) ELSE a % Abs(b)

-----------------------------------------------------------------------------
(* Trees: <<"lit", value>>, <<"ref", path>>, <<"not", e>>, <<"bin", op, l, r>>, *)
(* <<"if", c, t, e>>, <<"call", name, args>>; an operator is its glyphs.   *)

\* The binary operators of each level, in the order the code tries them.
Levels == <<
  <<<<"|", "|">>>>,
  <<<<"&", "&">>>>,
  <<<<"=", "=">>, <<"!", "=">>, <<"<", "=">>, <<">", "=">>, <<"<">>, <<">">>>>,
  <<<<"+">>, <<"-">>>>,
  <<<<"*">>, <<"/">>, <<"%">>>>>>

Comparison == 3
Unary == 6

RECURSIVE parseExpr(_, _), parseLevel(_, _, _), parseRest(_, _, _, _), parseCompared(_, _, _, _),
          parseUnary(_, _), parseDots(_, _, _), parseArgs(_, _, _)

\* One pass over the comparisons: each is taken once, if it comes in this order.
parseCompared(s, left, i, k) ==
  IF k > Len(Levels[Comparison]) THEN Ok(left, i)
  ELSE LET op == Levels[Comparison][k] IN
       IF ~Stands(s, i, op) THEN parseCompared(s, left, i, k + 1)
       ELSE Then(parseLevel(s, i + Len(op), Comparison + 1), LAMBDA right, j :
              parseCompared(s, <<"bin", op, left, right>>, Skip(s, j), k + 1))

\* Mutant: the operators of a level group to the right.
parseRestRight(s, left, i, level) ==
  LET at == Skip(s, i)
      here == {k \in DOMAIN Levels[level] : Stands(s, at, Levels[level][k])} IN
  IF here = {} THEN Ok(left, at)
  ELSE LET op == Levels[level][CHOOSE k \in here : TRUE] IN
       Then(parseLevel(s, at + Len(op), level), LAMBDA right, j :
         Ok(<<"bin", op, left, right>>, j))

\* The loops of parseOr, parseAnd, parseAddition and parseMultiplication.
parseRest(s, left, i, level) ==
  LET at == Skip(s, i)
      here == {k \in DOMAIN Levels[level] : Stands(s, at, Levels[level][k])} IN
  IF here = {} THEN Ok(left, at)
  ELSE LET op == Levels[level][CHOOSE k \in here : TRUE] IN
       Then(parseLevel(s, at + Len(op), level + 1), LAMBDA right, j :
         parseRest(s, <<"bin", op, left, right>>, j, level))

parseLevel(s, i, level) ==
  IF level = Unary THEN parseUnary(s, i)
  ELSE Then(parseLevel(s, i, level + 1), LAMBDA left, j :
         IF level = Comparison THEN parseCompared(s, left, Skip(s, j), 1)
                               ELSE parseRest(s, left, j, level))

\* parseTernary; ParseExpression takes the tree and looks at no glyph after it.
parseExpr(s, i) ==
  Then(parseLevel(s, i, 1), LAMBDA cond, j :
    LET q == Skip(s, j) IN
    IF At(s, q) # "?" THEN Ok(cond, q)
    ELSE Then(parseExpr(s, q + 1), LAMBDA yes, k :
           LET c == Skip(s, k) IN
           IF At(s, c) # ":" THEN Fail
           ELSE Then(parseExpr(s, c + 1), LAMBDA no, l : Ok(<<"if", cond, yes, no>>, l))))

\* The rest of a path; a dot must be followed by a word.
parseDots(s, path, i) ==
  IF At(s, i) # "." THEN Ok(<<"ref", path>>, i)
  ELSE IF At(s, i + 1) \notin Words \cup Digits THEN Fail
  ELSE parseDots(s, Append(path, s[i + 1]), i + 2)

parseArgs(s, args, i) ==
  Then(parseExpr(s, i), LAMBDA arg, j :
    LET at == Skip(s, j) IN
    CASE At(s, at) = "," -> parseArgs(s, Append(args, arg), at + 1)
      [] At(s, at) = ")" -> Ok(Append(args, arg), at + 1)
      [] OTHER           -> Fail)

parseRef(s, i) ==
  CASE s[i] \in {"true", "false"} -> Ok(<<"lit", Bool(s[i] = "true")>>, i + 1)
    [] s[i] \in {"null", "nil"}   -> Ok(<<"lit", Nil>>, i + 1)
    [] At(s, i + 1) = "("         ->
         IF At(s, Skip(s, i + 2)) = ")" THEN Ok(<<"call", s[i], <<>>>>, Skip(s, i + 2) + 1)
         ELSE Then(parseArgs(s, <<>>, i + 2), LAMBDA args, j : Ok(<<"call", s[i], args>>, j))
    [] OTHER                      -> parseDots(s, <<s[i]>>, i + 1)

\* The glyphs up to the closing quote; a backslash keeps the next one.
RECURSIVE parseStringLiteral(_, _, _, _)
parseStringLiteral(s, quote, text, i) ==
  CASE At(s, i) = "end" -> Fail
    [] At(s, i) = "\\" /\ i < Len(s) -> parseStringLiteral(s, quote, Append(text, s[i + 1]), i + 2)
    [] At(s, i) = quote -> Ok(<<"lit", Str(text)>>, i + 1)
    [] OTHER -> parseStringLiteral(s, quote, Append(text, s[i]), i + 1)

\* The number from i on: its digits and dots, of which one at most is right.
parseNumber(s, i, end) ==
  IF Cardinality({k \in i .. end - 1 : s[k] = "."}) > 1 THEN Fail
  ELSE Ok(<<"lit", FloatOf(SubSeq(s, i, end - 1))>>, end)

parseNumberLiteral(s, i) ==
  IF Signed(s, i)
  THEN Then(parseNumber(s, i + 1, EndOfNumber(s, i + 1, Len(s))), LAMBDA e, j :
         Ok(<<"lit", Opposite(e[2])>>, j))
  ELSE parseNumber(s, i, EndOfNumber(s, i, Len(s)))

parsePrimary(s, i) ==
  CASE At(s, i) = "(" -> Then(parseExpr(s, i + 1), LAMBDA e, j :
                           IF At(s, Skip(s, j)) = ")" THEN Ok(e, Skip(s, j) + 1) ELSE Fail)
    [] At(s, i) \in {"'", "\""} -> parseStringLiteral(s, s[i], <<>>, i + 1)
    [] At(s, i) \in Digits \/ Signed(s, i) -> parseNumberLiteral(s, i)
    [] At(s, i) \in Words -> parseRef(s, i)
    [] OTHER -> Fail

parseUnary(s, i) ==
  LET at == Skip(s, i) IN
  IF At(s, at) = "!"
  THEN Then(parseUnary(s, at + 1), LAMBDA e, j : Ok(<<"not", e>>, j))
  ELSE parsePrimary(s, at)

ParseExpression(s) == parseExpr(s, 1)

-----------------------------------------------------------------------------
(* Evaluate: <<"ok", value>> or Error *)

Value(v) == <<"ok", v>>
Error == <<"error">>

RECURSIVE drillDown(_, _)
drillDown(v, path) ==
  IF path = <<>> THEN Value(v)
  ELSE IF v[1] # "map" \/ path[1] \notin DOMAIN v[2] THEN Error
  ELSE drillDown(v[2][path[1]], Tail(path))

\* ctx: the inputs and, by step, the outputs.  No code fills Secrets or Env: a
\* secret is not found, a variable is the empty string.
resolveRef(path, ctx) ==
  CASE path[1] = "inputs"  -> drillDown(<<"map", ctx.inputs>>, Tail(path))
    [] path[1] = "steps"   -> IF Len(path) < 2 THEN Value(<<"table", ctx.steps>>)
                              ELSE drillDown(<<"map", ctx.steps>>, Tail(path))
    [] path[1] = "env"     -> Value(IF Len(path) < 2 THEN <<"table", <<>>>> ELSE Str(<<>>))
    [] OTHER               -> Error

\* "/" asks the float, "%" the integer part.
Divisible(op, y) ==
  /\ op = <<"/">> => y[2] # 0
  /\ op = <<"%">> => Truncated(y) # 0

Below(x, y) == x[2] * y[3] < y[2] * x[3]

\* The operators on numbers.
Compute(op, x, y) ==
  CASE op = <<"<">>      -> Bool(Below(x, y))
    [] op = <<">">>      -> Bool(Below(y, x))
    [] op = <<"<", "=">> -> Bool(~Below(y, x))
    [] op = <<">", "=">> -> Bool(~Below(x, y))
    [] op = <<"+">>      -> Ratio(x[2] * y[3] + y[2] * x[3], x[3] * y[3])
    [] op = <<"-">>      -> Ratio(x[2] * y[3] - y[2] * x[3], x[3] * y[3])
    [] op = <<"*">>      -> Ratio(x[2] * y[2], x[3] * y[3])
    [] op = <<"/">>      -> Ratio(x[2] * y[3], x[3] * y[2])
    [] op = <<"%">>      -> Num(Remainder(Truncated(x), Truncated(y)), 1)

Apply(op, l, r) ==
  CASE op = <<"=", "=">> -> Bool(Format(l) = Format(r))
    [] op = <<"!", "=">> -> Bool(Format(l) # Format(r))
    [] op = <<"&", "&">> -> Bool(toBool(l) /\ toBool(r))
    [] op = <<"|", "|">> -> Bool(toBool(l) \/ toBool(r))
    [] op = <<"+">> /\ ~(l[1] = "num" /\ r[1] = "num") -> Str(Format(l) \o Format(r))
    [] OTHER -> Compute(op, toFloat(l), toFloat(r))

\* Glyph by glyph; the inverse reads the table the other way.
Upper(t) == [i \in DOMAIN t |-> IF t[i] \in DOMAIN UpperOf THEN UpperOf[t[i]] ELSE t[i]]
Lower(t) == [i \in DOMAIN t |->
               IF \E w \in DOMAIN UpperOf : UpperOf[w] = t[i]
               THEN CHOOSE w \in DOMAIN UpperOf : UpperOf[w] = t[i] ELSE t[i]]

\* The functions on arguments that are evaluated already.
evalFunc(name, a) ==
  CASE name = "len" /\ Len(a) = 1 ->
         IF a[1][1] = "str" THEN Value(Num(Len(a[1][2]), 1))
         ELSE IF a[1][1] = "map" THEN Value(Num(Cardinality(DOMAIN a[1][2]), 1))
         ELSE Error
    [] name = "toJSON" /\ Len(a) = 1 -> Value(Str(Format(a[1])))
    [] name = "upper" /\ Len(a) = 1  -> Value(Str(Upper(Format(a[1]))))
    [] name = "lower" /\ Len(a) = 1  -> Value(Str(Lower(Format(a[1]))))
    [] name = "contains" /\ Len(a) = 2 ->
         LET t == Format(a[1])
             u == Format(a[2]) IN
         Value(Bool(\E i \in 1 .. Len(t) + 1 : Stands(t, i, u)))
    [] name = "default" /\ Len(a) = 2 ->
         Value(IF a[1] = Nil \/ Format(a[1]) = <<>> THEN a[2] ELSE a[1])
    [] OTHER -> Error

\* Both operands and all arguments are evaluated, and any error is an error.
RECURSIVE Evaluate(_, _)
Evaluate(e, ctx) ==
  CASE e[1] = "lit" -> Value(e[2])
    [] e[1] = "ref" -> resolveRef(e[2], ctx)
    [] e[1] = "not" -> LET v == Evaluate(e[2], ctx) IN
                       IF v = Error THEN Error ELSE Value(Bool(~toBool(v[2])))
    [] e[1] = "if"  -> LET c == Evaluate(e[2], ctx) IN
                       IF c = Error THEN Error
                       ELSE Evaluate(IF toBool(c[2]) THEN e[3] ELSE e[4], ctx)
    [] e[1] = "bin" -> LET l == Evaluate(e[3], ctx)
                           r == Evaluate(e[4], ctx) IN
                       IF l = Error \/ r = Error THEN Error
                       ELSE IF Divisible(e[2], toFloat(r[2]))
                            THEN Value(Apply(e[2], l[2], r[2])) ELSE Error
    [] e[1] = "call" -> LET vs == [i \in DOMAIN e[3] |-> Evaluate(e[3][i], ctx)] IN
                        IF \E i \in DOMAIN vs : vs[i] = Error THEN Error
                        ELSE evalFunc(e[2], [i \in DOMAIN vs |-> vs[i][2]])

-----------------------------------------------------------------------------
(* EvaluateString *)

\* The position of the brace that closes what was opened before i, or the end:
\* quotes are not looked at.
RECURSIVE Closing(_, _, _)
Closing(t, i, depth) ==
  LET d == IF At(t, i) = "{" THEN depth + 1
           ELSE IF At(t, i) = "}" THEN depth - 1 ELSE depth IN
  IF i > Len(t) \/ d = 0 THEN i ELSE Closing(t, i + 1, d)

\* <<"ok", glyphs>> or Error: the text with the value of each ${...} in place.
RECURSIVE EvaluateString(_, _)
EvaluateString(t, ctx) ==
  IF t = <<>> THEN <<"ok", <<>>>>
  ELSE IF Stands(t, 1, <<"$", "{">>)
  THEN LET close == Closing(t, 3, 1)
           tree == ParseExpression(SubSeq(t, 3, close - 1))
           rest == EvaluateString(SubSeq(t, close + 1, Len(t)), ctx) IN
       IF ~tree.ok \/ rest = Error THEN Error
       ELSE LET v == Evaluate(tree.tree, ctx) IN
            IF v = Error THEN Error ELSE <<"ok", Format(v[2]) \o rest[2]>>
  ELSE LET rest == EvaluateString(Tail(t), ctx) IN
       IF rest = Error THEN Error ELSE <<"ok", <<t[1]>> \o rest[2]>>
=============================================================================
