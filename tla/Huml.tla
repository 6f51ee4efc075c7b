-------------------------------- MODULE Huml --------------------------------
(***************************************************************************)
(* The way of a workflow document from its text to the decision about each *)
(* step: the lexer, the parser and the conversion of internal/huml         *)
(* (lexer.go, parser.go, convert.go: ParseHUML), and the evaluation of     *)
(* "when" and "command" at the head of executeStep (engine/executor.go).   *)
(*                                                                         *)
(* A document is given as the tree its author has in mind and printed to   *)
(* glyphs (see HumlExpr) in one of several layouts; the code has to find   *)
(* the tree again, and to do with it what the tree means.                  *)
(***************************************************************************)
EXTENDS HumlExpr

CONSTANTS
  Documents,  \* [name, body]: the trees
  Layouts,    \* [gap, sep, comma]: glyphs around operators, after a statement,
              \* and between the items of a list
  Contexts,   \* [inputs, steps]: what an execution knows when a step starts
  BadBytes    \* the glyphs that are bytes of an output but no UTF-8

VARIABLES
  doc, layout,  \* what the author wrote
  stage,        \* how far the code is
  tokens,       \* of the lexer
  tree,         \* of the parser
  def,          \* model.WorkflowDefinition
  ctx,          \* the evaluation context of the step that starts
  outcome       \* what became of each step: failed, skipped or a command

vars == <<doc, layout, stage, tokens, tree, def, ctx, outcome>>

-----------------------------------------------------------------------------
(* The lexer: tokens are <<type, glyphs>> *)

Single == {"{", "}", "=", ":", ",", ".", "[", "]", "|"}

\* The token of a run of letters, digits, "_" and "-".
Identifier(g) ==
  CASE g \in {<<"true">>, <<"false">>} -> <<"bool", g>>
    [] g \in {<<"null">>, <<"nil">>}   -> <<"null", g>>
    [] OTHER                           -> <<"ident", g>>

RECURSIVE readString(_, _, _)

\* The glyphs up to the closing quote with the escapes undone, newlines included.
readString(s, text, i) ==
  CASE At(s, i) = "end" -> Fail
    [] At(s, i) = "\\" /\ i < Len(s) ->
         readString(s, text \o (CASE s[i + 1] = "n" -> <<"\n">>
                                  [] s[i + 1] = "t" -> <<"\t">>
                                  [] s[i + 1] \in {"\"", "\\"} -> <<s[i + 1]>>
                                  [] OTHER -> <<"\\", s[i + 1]>>), i + 2)
    [] At(s, i) = "\"" -> Ok(text, i + 1)
    [] OTHER -> readString(s, Append(text, s[i]), i + 1)

RECURSIVE EndOfWord(_, _), EndOfLine(_, _)
EndOfWord(s, i) == IF At(s, i) \in Words \cup Digits \cup {"-"} THEN EndOfWord(s, i + 1) ELSE i
EndOfLine(s, i) == IF At(s, i) \in {"\n", "end"} THEN i ELSE EndOfLine(s, i + 1)

\* Mutant: the braces inside an expression are not counted.
readExpressionFlat(s, i) ==
  LET close == CHOOSE j \in i .. Len(s) + 1 :
                 At(s, j) \in {"}", "end"} /\ \A k \in i .. j - 1 : s[k] # "}" IN
  IF close > Len(s) THEN Fail ELSE Ok(SubSeq(s, i, close - 1), close + 1)

readExpression(s, i) ==
  LET close == Closing(s, i, 1) IN
  IF close > Len(s) THEN Fail ELSE Ok(SubSeq(s, i, close - 1), close + 1)

\* The tokens from glyph i on, after those read; what no case knows is dropped.
RECURSIVE Tokenize(_, _, _)
Tokenize(s, read, i) ==
  CASE At(s, i) = "end"  -> Ok(Append(read, <<"eof", <<>>>>), i)
    [] At(s, i) = "#"    -> Tokenize(s, read, EndOfLine(s, i))
    [] At(s, i) = "\n"   -> Tokenize(s, Append(read, <<"newline", <<>>>>), i + 1)
    [] At(s, i) \in Single -> Tokenize(s, Append(read, <<s[i], <<>>>>), i + 1)
    [] At(s, i) = "\""   -> Then(readString(s, <<>>, i + 1), LAMBDA g, j :
                              Tokenize(s, Append(read, <<"string", g>>), j))
    [] Stands(s, i, <<"$", "{">>) -> Then(readExpression(s, i + 2), LAMBDA g, j :
                              Tokenize(s, Append(read, <<"expression", g>>), j))
    [] At(s, i) \in Digits \/ Signed(s, i) ->
         LET j == EndOfNumber(s, IF Signed(s, i) THEN i + 1 ELSE i, 1) IN
         Tokenize(s, Append(read, <<"number", SubSeq(s, i, j - 1)>>), j)
    [] At(s, i) \in Words -> Tokenize(s, Append(read, Identifier(SubSeq(s, i, EndOfWord(s, i) - 1))),
                                      EndOfWord(s, i))
    [] OTHER             -> Tokenize(s, read, i + 1)

-----------------------------------------------------------------------------
(* The parser.  Statements: <<"assign", key, value>>, <<"block", type, name,  *)
(* body>>, <<"id", glyphs>>.  Values: <<"string", g>>, <<"number", g>>,       *)
(* <<"bool", b>>, <<"null">>, <<"expression", raw, tree>>, <<"id", g>>,       *)
(* <<"list", items>>.                                                         *)

BlockKeywords == {<<w>> : w \in {"step", "input", "approval", "retry", "compensation", "workflow"}}

Kind(k, i) == IF i <= Len(k) THEN k[i][1] ELSE "eof"

RECURSIVE skipNewlines(_, _)
skipNewlines(k, i) == IF Kind(k, i) = "newline" THEN skipNewlines(k, i + 1) ELSE i

RECURSIVE parseValue(_, _), parseItems(_, _, _), parseBody(_, _, _)

parseValue(k, i) ==
  CASE Kind(k, i) \in {"string", "number"} -> Ok(k[i], i + 1)
    [] Kind(k, i) = "bool"  -> Ok(<<"bool", k[i][2] = <<"true">>>>, i + 1)
    [] Kind(k, i) = "null"  -> Ok(<<"null">>, i + 1)
    [] Kind(k, i) = "ident" -> Ok(<<"id", k[i][2]>>, i + 1)
    [] Kind(k, i) = "expression" -> Then(ParseExpression(k[i][2]), LAMBDA e, j :
                                      Ok(<<"expression", k[i][2], e>>, i + 1))
    [] Kind(k, i) = "["     -> parseItems(k, <<>>, skipNewlines(k, i + 1))
    [] OTHER                -> Fail

\* The rest of a list: commas are optional.
parseItems(k, items, i) ==
  CASE Kind(k, i) = "]"   -> Ok(<<"list", items>>, i + 1)
    [] Kind(k, i) = "eof" -> Fail
    [] OTHER -> Then(parseValue(k, i), LAMBDA v, j :
         LET at == skipNewlines(k, j) IN
         parseItems(k, Append(items, v), IF Kind(k, at) = "," THEN skipNewlines(k, at + 1) ELSE at))

\* The name, if there is one, and the body in braces, from i on.
parseBraced(k, i) ==
  LET named == Kind(k, i) = "string"
      open == IF named THEN i + 1 ELSE i IN
  IF Kind(k, open) # "{" THEN Fail
  ELSE Then(parseBody(k, <<>>, open + 1), LAMBDA body, j :
         IF Kind(k, j) # "}" THEN Fail
         ELSE Ok([name |-> IF named THEN k[i][2] ELSE <<>>, body |-> body], j + 1))

\* parseBody and parseStatement: a token that starts no statement is dropped.
parseBody(k, nodes, start) ==
  LET i == skipNewlines(k, start) IN
  CASE Kind(k, i) \in {"}", "eof"} -> Ok(nodes, i)
    [] Kind(k, i) = "ident" /\ k[i][2] \in BlockKeywords ->
         Then(parseBraced(k, i + 1), LAMBDA b, j :
           parseBody(k, Append(nodes, <<"block", k[i][2], b.name, b.body>>), j))
    [] Kind(k, i) = "ident" /\ k[i][2] \notin BlockKeywords /\ Kind(k, i + 1) = "=" ->
         Then(parseValue(k, i + 2), LAMBDA v, j :
           parseBody(k, Append(nodes, <<"assign", k[i][2], v>>), j))
    [] Kind(k, i) = "ident" /\ k[i][2] \notin BlockKeywords /\ Kind(k, i + 1) # "=" ->
         parseBody(k, Append(nodes, <<"id", k[i][2]>>), i + 1)
    [] OTHER -> parseBody(k, nodes, i + 1)

\* Parse: nothing after the closing brace is looked at.
ParseTokens(k) ==
  LET i == skipNewlines(k, 1) IN
  IF Kind(k, i) = "ident" /\ k[i][2] = <<"workflow">> THEN parseBraced(k, i + 1) ELSE Fail

-----------------------------------------------------------------------------
(* Convert *)

None == <<"none">>

LastOf(S) == CHOOSE i \in S : \A j \in S : j <= i

\* The value a body assigns to a key, the last one if there are several.
Assigned(body, key) ==
  LET at == {i \in DOMAIN body : body[i][1] = "assign" /\ body[i][2] = <<key>>} IN
  IF at = {} THEN None ELSE body[LastOf(at)][3]

Blocks(body, type) == SelectSeq(body, LAMBDA n : n[1] = "block" /\ n[2] = <<type>>)

\* A value that is no text is printed as the Go struct it is.
nodeToString(v) ==
  CASE v = None -> <<>>
    [] v[1] \in {"string", "id", "number"} -> v[2]
    [] v[1] = "expression" -> <<"$", "{">> \o v[2] \o <<"}">>
    [] OTHER -> <<"&{...}">>

nodeToBool(v) == v = <<"bool", TRUE>>

\* The digits are strung together, the sign and the dot are passed over: 2.5 is 25.
nodeToInt(v) ==
  IF v[1] # "number" THEN 0
  ELSE FoldLeft(LAMBDA n, g : IF g \in Digits THEN n * Shift(g) + NumberOf[g] ELSE n, 0, v[2])

\* Numbers become text; a bare identifier becomes nil.
RECURSIVE nodeToAny(_)
nodeToAny(v) ==
  CASE v[1] \in {"string", "number", "expression"} -> Str(nodeToString(v))
    [] v[1] = "bool" -> Bool(v[2])
    [] v[1] = "list" -> <<"list", [i \in DOMAIN v[2] |-> nodeToAny(v[2][i])]>>
    [] OTHER -> Nil

nodeToSlice(v) == IF v[1] = "list" THEN nodeToAny(v)[2] ELSE <<>>

\* Mutant: the list is read with nodeToAny, as other lists are.
nodeToStringSliceAny(v) ==
  IF v[1] = "list" THEN [i \in DOMAIN v[2] |-> nodeToAny(v[2][i])] ELSE <<>>

nodeToStringSlice(v) ==
  IF v[1] = "list" THEN [i \in DOMAIN v[2] |-> nodeToString(v[2][i])] ELSE <<>>

\* The rest of a body goes into a map of settings.
Settings(body, fields) ==
  [key \in {body[i][2] : i \in {j \in DOMAIN body : body[j][1] = "assign"}} \ fields |->
     nodeToAny(body[LastOf({i \in DOMAIN body : body[i][1] = "assign" /\ body[i][2] = key})][3])]

Texts(body, keys) == [key \in keys |-> nodeToString(Assigned(body, key))]

convertInput(b) ==
  [name |-> b[3], text |-> Texts(b[4], {"type", "description"}),
   required |-> nodeToBool(Assigned(b[4], "required")),
   default |-> nodeToAny(Assigned(b[4], "default")),
   enum |-> nodeToSlice(Assigned(b[4], "enum"))]

convertRetry(b) ==
  [max_attempts |-> nodeToInt(Assigned(b[4], "max_attempts")),
   text |-> Texts(b[4], {"backoff", "initial_wait", "max_wait"})]

convertCompensation(b) ==
  [text |-> Texts(b[4], {"runner", "command"}),
   config |-> Settings(b[4], {<<"runner">>, <<"command">>})]

StepTexts == {"runner", "image", "command", "host", "timeout", "when", "name"}

\* The last block of a kind counts; <<>> is a nil pointer.
convertStep(b) ==
  LET retries == Blocks(b[4], "retry")
      comps == Blocks(b[4], "compensation") IN
  [id |-> b[3], text |-> Texts(b[4], StepTexts),
   depends_on |-> nodeToStringSlice(Assigned(b[4], "depends_on")),
   retry |-> IF retries = <<>> THEN <<>> ELSE <<convertRetry(Last(retries))>>,
   compensation |-> IF comps = <<>> THEN <<>> ELSE <<convertCompensation(Last(comps))>>,
   config |-> Settings(b[4], {<<k>> : k \in StepTexts \cup {"depends_on"}})]

convertApproval(b) ==
  [id |-> b[3], text |-> Texts(b[4], {"when", "message"}),
   depends_on |-> nodeToStringSlice(Assigned(b[4], "depends_on")),
   required_roles |-> nodeToStringSlice(Assigned(b[4], "required_roles"))]

Convert(node) ==
  LET All(type, F(_)) == [i \in DOMAIN Blocks(node.body, type) |-> F(Blocks(node.body, type)[i])] IN
  [name |-> node.name, text |-> Texts(node.body, {"version", "description"}),
   inputs |-> All("input", convertInput),
   steps |-> All("step", convertStep),
   approvals |-> All("approval", convertApproval)]

-----------------------------------------------------------------------------
(* The head of executeStep *)

\* Mutant: only "false" skips the step.
SkippedOnFalse(text) == text = <<"false">>
Skipped(text) == text \in {<<"false">>, <<>>}

\* The condition, if there is one, decides; then the command is put together.
executeStep(step, c) ==
  LET cond == EvaluateString(step.text["when"], c)
      command == EvaluateString(step.text["command"], c) IN
  CASE step.text["when"] # <<>> /\ cond = Error -> <<"failed">>
    [] step.text["when"] # <<>> /\ cond # Error /\ Skipped(cond[2]) -> <<"skipped">>
    [] OTHER -> IF command = Error THEN <<"failed">> ELSE <<"run", command[2]>>

\* Mutant: the outputs are left in the checkpoint.
buildEvalContextBare(c) == [c EXCEPT !.steps = <<>>]

\* A value after json.Marshal and Unmarshal: bytes that are no UTF-8 are replaced.
RECURSIVE Marshalled(_)
Marshalled(v) ==
  CASE v[1] = "str" -> Str([i \in DOMAIN v[2] |-> IF v[2][i] \in BadBytes THEN "U+FFFD" ELSE v[2][i]])
    [] v[1] = "map" -> <<"map", [key \in DOMAIN v[2] |-> Marshalled(v[2][key])]>>
    [] OTHER -> v

\* What a resumed execution knows: of a completed step the outputs of the
\* checkpoint, if it has any.
buildEvalContext(c) ==
  [c EXCEPT !.steps = [id \in {s \in DOMAIN c.steps : c.steps[s][2] # <<>>} |-> Marshalled(c.steps[id])]]

-----------------------------------------------------------------------------
(* The author.  Values: <<"text", pieces>> with pieces <<"glyphs", g>> and     *)
(* <<"expr", e>>, and <<"expr", e>>, <<"number", g>>, <<"bool", b>>, <<"null">>, *)
(* <<"id", g>>, <<"list", items>>.                                            *)

\* An expression with the parentheses its operators need and no more; a
\* comparison of comparisons needs them on both sides.
LevelOf(op) == CHOOSE l \in DOMAIN Levels : \E k \in DOMAIN Levels[l] : Levels[l][k] = op

RECURSIVE Show(_, _, _)
Show(e, level, gap) ==
  LET own == CASE e[1] = "if" -> 0 [] e[1] = "bin" -> LevelOf(e[2])
               [] e[1] = "not" -> Unary [] OTHER -> Unary + 1
      shown ==
        CASE e[1] = "lit" -> IF e[2][1] = "str" THEN <<"'">> \o e[2][2] \o <<"'">> ELSE
                             IF e[2] = Nil THEN <<"null">> ELSE Format(e[2])
          [] e[1] = "ref" -> <<e[2][1]>> \o FlattenSeq([i \in 1 .. Len(e[2]) - 1 |-> <<".", e[2][i + 1]>>])
          [] e[1] = "not" -> <<"!">> \o gap \o Show(e[2], Unary, gap)
          [] e[1] = "bin" -> Show(e[3], IF own = Comparison THEN own + 1 ELSE own, gap)
                             \o gap \o e[2] \o gap \o Show(e[4], own + 1, gap)
          [] e[1] = "if"  -> Show(e[2], 1, gap) \o gap \o <<"?">> \o gap \o Show(e[3], 0, gap)
                             \o gap \o <<":">> \o gap \o Show(e[4], 0, gap)
          [] e[1] = "call" -> <<e[2], "(">> \o FlattenSeq([i \in DOMAIN e[3] |->
                                (IF i = 1 THEN <<>> ELSE <<",">>) \o gap \o Show(e[3][i], 0, gap) \o gap])
                              \o <<")">> IN
  IF own < level THEN <<"(">> \o gap \o shown \o gap \o <<")">> ELSE shown

Source(e) == Show(e, 0, layout.gap)

\* The text a string stands for.
Raw(pieces) ==
  FlattenSeq([i \in DOMAIN pieces |->
    IF pieces[i][1] = "glyphs" THEN pieces[i][2]
    ELSE <<"$", "{">> \o Source(pieces[i][2]) \o <<"}">>])

Quoted(g) ==
  <<"\"">> \o FlattenSeq([i \in DOMAIN g |-> CASE g[i] \in {"\"", "\\"} -> <<"\\", g[i]>>
                                              [] g[i] = "\t" -> <<"\\", "t">>
                                              [] OTHER -> <<g[i]>>]) \o <<"\"">>

RECURSIVE ShowValue(_)
ShowValue(v) ==
  CASE v[1] = "text" -> Quoted(Raw(v[2]))
    [] v[1] = "expr" -> <<"$", "{">> \o Source(v[2]) \o <<"}">>
    [] v[1] = "bool" -> <<IF v[2] THEN "true" ELSE "false">>
    [] v[1] = "null" -> <<"null">>
    [] v[1] = "list" -> <<"[">> \o FlattenSeq([i \in DOMAIN v[2] |->
                          (IF i = 1 THEN <<>> ELSE layout.comma) \o ShowValue(v[2][i])]) \o <<"]">>
    [] OTHER -> v[2]

RECURSIVE ShowBody(_)
ShowBody(body) ==
  FlattenSeq([i \in DOMAIN body |->
    (IF body[i][1] = "assign" THEN body[i][2] \o <<"=">> \o ShowValue(body[i][3])
     ELSE body[i][2] \o (IF body[i][3] = <<>> THEN <<>> ELSE Quoted(body[i][3]))
          \o <<"{">> \o layout.sep \o ShowBody(body[i][4]) \o <<"}">>)
    \o layout.sep])

Text == layout.sep \o <<"workflow">> \o Quoted(doc.name) \o <<"{">> \o ShowBody(doc.body) \o <<"}">>

\* The trees the parser should find.
RECURSIVE ValueMeant(_)
ValueMeant(v) ==
  CASE v[1] = "text" -> <<"string", Raw(v[2])>>
    [] v[1] = "expr" -> <<"expression", Source(v[2]), v[2]>>
    [] v[1] = "list" -> <<"list", [i \in DOMAIN v[2] |-> ValueMeant(v[2][i])]>>
    [] OTHER -> v

RECURSIVE BodyMeant(_)
BodyMeant(body) ==
  [i \in DOMAIN body |->
     IF body[i][1] = "assign" THEN <<"assign", body[i][2], ValueMeant(body[i][3])>>
     ELSE <<"block", body[i][2], body[i][3], BodyMeant(body[i][4])>>]

-----------------------------------------------------------------------------
(* ParseHUML, and the start of a step *)

Init ==
  /\ doc \in Documents /\ layout \in Layouts
  /\ stage = "written"
  /\ tokens = <<>> /\ tree = None /\ def = None /\ ctx = None /\ outcome = None

Lex ==
  /\ stage = "written"
  /\ LET r == Tokenize(Text, <<>>, 1) IN
     /\ stage' = IF r.ok THEN "lexed" ELSE "refused"
     /\ tokens' = IF r.ok THEN r.tree ELSE <<>>
  /\ UNCHANGED <<doc, layout, tree, def, ctx, outcome>>

Parse ==
  /\ stage = "lexed"
  /\ LET r == ParseTokens(tokens) IN
     /\ stage' = IF r.ok THEN "parsed" ELSE "refused"
     /\ tree' = IF r.ok THEN r.tree ELSE None
  /\ tokens' = <<>>
  /\ UNCHANGED <<doc, layout, def, ctx, outcome>>

ConvertTree ==
  /\ stage = "parsed"
  /\ stage' = "converted"
  /\ def' = Convert(tree)
  /\ UNCHANGED <<doc, layout, tokens, tree, ctx, outcome>>

\* Each step, in a run that did all of what it knows itself.
Start ==
  /\ stage = "converted"
  /\ stage' = "started"
  /\ ctx' \in Contexts
  /\ outcome' = [i \in DOMAIN def.steps |-> executeStep(def.steps[i], ctx')]
  /\ UNCHANGED <<doc, layout, tokens, tree, def>>

\* The same in a run that has it from a checkpoint.
StartResumed ==
  /\ stage = "converted"
  /\ stage' = "resumed"
  /\ ctx' \in Contexts
  /\ outcome' = [i \in DOMAIN def.steps |-> executeStep(def.steps[i], buildEvalContext(ctx'))]
  /\ UNCHANGED <<doc, layout, tokens, tree, def>>

Next == Lex \/ Parse \/ ConvertTree \/ Start \/ StartResumed

Spec == Init /\ [][Next]_vars

-----------------------------------------------------------------------------
(* What must hold *)

\* The expressions written bare, and those in texts.
RECURSIVE Bare(_), Quotes(_)
Bare(v) ==
  CASE v[1] = "expr" -> {v[2]}
    [] v[1] = "list" -> UNION {Bare(v[2][i]) : i \in DOMAIN v[2]}
    [] OTHER -> {}
Quotes(v) ==
  CASE v[1] = "text" -> {v[2][i][2] : i \in {j \in DOMAIN v[2] : v[2][j][1] = "expr"}}
    [] v[1] = "list" -> UNION {Quotes(v[2][i]) : i \in DOMAIN v[2]}
    [] OTHER -> {}

RECURSIVE Values(_)
Values(body) ==
  UNION {IF body[i][1] = "assign" THEN {body[i][3]} ELSE Values(body[i][4]) : i \in DOMAIN body}

\* An expression the code can find the end of: it is written on one line, and its
\* braces are balanced, those in the literals included. Of any other the lexer and
\* EvaluateString take too little or too much, since quotes are not looked at
\* (lexer.go:240, evaluator.go:81), and what ParseExpression does not understand
\* after a first expression it drops (parser.go:289).
Regular(e) ==
  LET g == Source(e) IN
  /\ \A i \in DOMAIN g : g[i] # "\n"
  /\ Closing(g \o <<"}">>, 1, 1) = Len(g) + 1

ReadsWell == \A v \in Values(doc.body) : \A e \in Bare(v) : Regular(e)

\* The parser finds the tree the document was written from: blocks, values and
\* the expressions in them, whatever the layout, the optional commas and the
\* parentheses that precedence saves; as long as the expressions written bare are
\* Regular (lexer.go, parser.go).
RoundTrip ==
  ReadsWell =>
    /\ stage # "refused"
    /\ stage = "parsed" => tree = [name |-> doc.name, body |-> BodyMeant(doc.body)]

\* The value of a tree where "and" and "or" look at no more than they need.
RECURSIVE Meaning(_, _)
Meaning(e, c) ==
  LET left == Meaning(e[3], c)
      right == Meaning(e[4], c) IN
  CASE e[1] = "bin" /\ e[2] = <<"&", "&">> ->
         IF left = Error \/ ~toBool(left[2]) THEN (IF left = Error THEN Error ELSE Value(Bool(FALSE)))
         ELSE IF right = Error THEN Error ELSE Value(Bool(toBool(right[2])))
    [] e[1] = "bin" /\ e[2] = <<"|", "|">> ->
         IF left = Error \/ toBool(left[2]) THEN (IF left = Error THEN Error ELSE Value(Bool(TRUE)))
         ELSE IF right = Error THEN Error ELSE Value(Bool(toBool(right[2])))
    [] e[1] = "bin" /\ e[2] \notin {<<"&", "&">>, <<"|", "|">>} ->
         IF left = Error \/ right = Error \/ ~Divisible(e[2], toFloat(right[2])) THEN Error
         ELSE Value(Apply(e[2], left[2], right[2]))
    [] e[1] = "not" -> LET v == Meaning(e[2], c) IN
                       IF v = Error THEN Error ELSE Value(Bool(~toBool(v[2])))
    [] e[1] = "if"  -> LET v == Meaning(e[2], c) IN
                       IF v = Error THEN Error ELSE Meaning(IF toBool(v[2]) THEN e[3] ELSE e[4], c)
    [] OTHER -> Evaluate(e, c)

StepBlocks == SelectSeq(doc.body, LAMBDA n : n[1] = "block" /\ n[2] = <<"step">>)

\* What the author gave a key: the last word on it counts.
Given(body, key) ==
  LET said == SelectSeq(body, LAMBDA n : n[1] = "assign" /\ n[2] = <<key>>) IN
  IF said = <<>> THEN None ELSE Last(said)[3]

\* A condition in the author's hand: an expression, in quotes or not.
Condition(v) ==
  CASE v[1] = "expr" -> v[2]
    [] v[1] = "text" /\ Len(v[2]) = 1 /\ v[2][1][1] = "expr" -> v[2][1][2]
    [] OTHER -> None

\* The values of a step that hold expressions: one of them is an error.
Erroneous(body) ==
  \E i \in DOMAIN body : body[i][1] = "assign" /\
    LET v == body[i][3] IN
    CASE v[1] = "expr" -> Evaluate(v[2], ctx) = Error
      [] v[1] = "text" -> \E j \in DOMAIN v[2] : v[2][j][1] = "expr" /\ Evaluate(v[2][j][2], ctx) = Error
      [] OTHER -> FALSE

\* A step whose condition is written as an expression, in quotes or bare, is
\* skipped when it is false or prints as nothing and not otherwise, and fails
\* only if a value of it is an error: as long as the expressions of the step are
\* Regular, the way through the braces of the lexer, the conversion to text and
\* EvaluateString changes nothing, and neither does it that both operands of "and"
\* and "or" are evaluated, unless one of them is an error (executor.go:101-113).
SkipsAsMeant ==
  stage = "started" /\ ReadsWell =>
    \A i \in DOMAIN outcome :
      LET body == StepBlocks[i][4]
          when == Given(body, "when")
          e == IF when = None THEN None ELSE Condition(when) IN
      (\A v \in Values(body) : \A q \in Quotes(v) : Regular(q)) =>
        IF outcome[i] = <<"failed">> THEN Erroneous(body)
        ELSE e # None =>
          (outcome[i] = <<"skipped">>) <=>
            (Meaning(e, ctx) # Error /\ Format(Meaning(e, ctx)[2]) \in {<<>>, <<"false">>})

\* The command that runs is the text of the document with the value of each
\* expression in its place and all that stands after it, as long as the
\* expressions in it are Regular (executor.go:115, evaluator.go:65-104).
CommandAsMeant ==
  stage = "started" /\ ReadsWell =>
    \A i \in DOMAIN outcome :
      LET command == Given(StepBlocks[i][4], "command") IN
      outcome[i][1] = "run" /\ command # None /\ command[1] = "text"
        /\ (\A q \in Quotes(command) : Regular(q)) =>
          outcome[i][2] = FlattenSeq([j \in DOMAIN command[2] |->
            IF command[2][j][1] = "glyphs" THEN command[2][j][2]
            ELSE Format(Meaning(command[2][j][2], ctx)[2])])

\* The references of a tree.
RECURSIVE Paths(_)
Paths(e) ==
  CASE e[1] = "ref" -> {e[2]}
    [] e[1] = "not" -> Paths(e[2])
    [] e[1] = "bin" -> Paths(e[3]) \cup Paths(e[4])
    [] e[1] = "if"  -> Paths(e[2]) \cup Paths(e[3]) \cup Paths(e[4])
    [] e[1] = "call" -> UNION {Paths(e[3][i]) : i \in DOMAIN e[3]}
    [] OTHER -> {}

ValuePaths(v) ==
  CASE v[1] = "expr" -> Paths(v[2])
    [] v[1] = "text" -> UNION {Paths(v[2][i][2]) : i \in {j \in DOMAIN v[2] : v[2][j][1] = "expr"}}
    [] OTHER -> {}

StepPaths(body) ==
  UNION {ValuePaths(body[i][3]) : i \in {j \in DOMAIN body : body[j][1] = "assign"}}

\* The value a reference has is the same after a resumption: it is not to all the
\* outputs of a step or of all steps, which tell whether a skipped step was there,
\* and the output is UTF-8, which a command need not print (local.go:60).
Lasts(path) ==
  path[1] = "steps" =>
    LET v == resolveRef(path, ctx) IN
    Len(path) > 2 /\ (v # Error => Marshalled(v[2]) = v[2])

\* A resumed execution decides and runs what the first run would have, as long as
\* the values the expressions of the step refer to survive the JSON of the
\* checkpoint (executor.go:76, 354, 396, 408-419).
ResumesAlike ==
  stage = "resumed" =>
    \A i \in DOMAIN outcome :
      (\A path \in StepPaths(StepBlocks[i][4]) : Lasts(path))
        => outcome[i] = executeStep(def.steps[i], ctx)

\* The text of a value, where a text belongs; a flag, null or a list has none.
HasText(v) == v[1] \in {"none", "text", "expr", "id", "number"}

TextMeant(v) ==
  CASE v = None       -> <<>>
    [] v[1] = "text"  -> Raw(v[2])
    [] v[1] = "expr"  -> <<"$", "{">> \o Source(v[2]) \o <<"}">>
    [] OTHER          -> v[2]

\* A value of any type, with numbers as text; a bare word is taken for null.
RECURSIVE AnyMeant(_)
AnyMeant(v) ==
  CASE v[1] \in {"text", "expr", "number"} -> Str(TextMeant(v))
    [] v[1] = "bool" -> Bool(v[2])
    [] v[1] = "list" -> <<"list", [i \in DOMAIN v[2] |-> AnyMeant(v[2][i])]>>
    [] OTHER         -> Nil

TextsAs(body, texts) ==
  \A key \in DOMAIN texts :
    HasText(Given(body, key)) => texts[key] = TextMeant(Given(body, key))

NamesAs(v, names) ==
  IF v[1] # "list" THEN names = <<>>
  ELSE /\ Len(names) = Len(v[2])
       /\ \A i \in DOMAIN names : HasText(v[2][i]) => names[i] = TextMeant(v[2][i])

SettingsAs(body, config, fields) ==
  config = [key \in {body[i][2] : i \in {j \in DOMAIN body : body[j][1] = "assign"}}
                      \ {<<k>> : k \in fields} |-> AnyMeant(Given(body, key[1]))]

\* The number of attempts, when it is a number without a sign and a dot.
RetryAs(body, retry) ==
  LET max == Given(body, "max_attempts") IN
  /\ TextsAs(body, retry.text)
  /\ max = None => retry.max_attempts = 0
  /\ max[1] = "number" /\ Len(max[2]) = 1 => retry.max_attempts = NumberOf[max[2][1]]

CompensationAs(body, comp) ==
  TextsAs(body, comp.text) /\ SettingsAs(body, comp.config, {"runner", "command"})

\* A block that may be missing: the last of its kind counts.
LastAs(body, type, got, As(_, _)) ==
  LET blocks == SelectSeq(body, LAMBDA n : n[1] = "block" /\ n[2] = <<type>>) IN
  IF blocks = <<>> THEN got = <<>> ELSE Len(got) = 1 /\ As(Last(blocks)[4], got[1])

InputAs(body, input) ==
  LET enum == Given(body, "enum") IN
  /\ TextsAs(body, input.text)
  /\ input.required = (Given(body, "required") = <<"bool", TRUE>>)
  /\ input.default = AnyMeant(Given(body, "default"))
  /\ input.enum = IF enum[1] = "list" THEN AnyMeant(enum)[2] ELSE <<>>

StepAs(body, step) ==
  /\ TextsAs(body, step.text)
  /\ NamesAs(Given(body, "depends_on"), step.depends_on)
  /\ LastAs(body, "retry", step.retry, RetryAs)
  /\ LastAs(body, "compensation", step.compensation, CompensationAs)
  /\ SettingsAs(body, step.config, StepTexts \cup {"depends_on"})

ApprovalAs(body, approval) ==
  /\ TextsAs(body, approval.text)
  /\ NamesAs(Given(body, "depends_on"), approval.depends_on)
  /\ NamesAs(Given(body, "required_roles"), approval.required_roles)

\* Every declaration of the document is in the definition, in its order and under
\* its name, with every field written in it, and no field of another block gets in.
\* Left open is what the conversion does lose: a flag, null or list where a text
\* belongs, and the sign and the dot of max_attempts; and a bare word among the
\* settings is taken for null (convert.go).
Declared ==
  LET Holds(type, defs, Name(_), As(_, _)) ==
        LET blocks == SelectSeq(doc.body, LAMBDA n : n[1] = "block" /\ n[2] = <<type>>) IN
        /\ Len(defs) = Len(blocks)
        /\ \A i \in DOMAIN defs : Name(defs[i]) = blocks[i][3] /\ As(blocks[i][4], defs[i]) IN
  stage = "converted" /\ ReadsWell =>
    /\ def.name = doc.name
    /\ TextsAs(doc.body, def.text)
    /\ Holds("input", def.inputs, LAMBDA d : d.name, InputAs)
    /\ Holds("step", def.steps, LAMBDA d : d.id, StepAs)
    /\ Holds("approval", def.approvals, LAMBDA d : d.id, ApprovalAs)
=============================================================================
