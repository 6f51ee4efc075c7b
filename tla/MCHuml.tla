------------------------------- MODULE MCHuml -------------------------------
(* Workflow documents for Huml: a few with every kind of block and value,  *)
(* and one-step documents around the expressions of depth two, braces that *)
(* do not match and outputs that are no text among them.                   *)
EXTENDS Huml, TLC

MCNumberOf == [g \in {ToString(i) : i \in 0 .. 60} |-> CHOOSE i \in 0 .. 60 : ToString(i) = g]

MCWords == {"workflow", "step", "input", "approval", "retry", "compensation",
            "runner", "image", "command", "host", "timeout", "when", "name", "depends_on",
            "type", "description", "required", "default", "enum", "version", "message",
            "required_roles", "max_attempts", "backoff", "initial_wait", "max_wait", "env_vars",
            "inputs", "steps", "env", "secrets", "build", "gone", "ship", "gate", "release",
            "tag", "raw", "n", "flag", "shell", "prod", "PROD", "exponential", "note",
            "true", "false", "null", "len", "upper", "lower", "contains", "toJSON"}

MCBadBytes == {"<FE>", "<FF>"}

MCUpperOf == [w \in {"prod"} |-> "PROD"]

MCContexts == {
  [inputs |-> [n |-> Num(5, 1), env |-> Str(<<"prod">>), flag |-> Bool(FALSE)],
   steps |-> [build |-> <<"map", [tag |-> Str(<<"PROD">>), n |-> Num(2, 1), raw |-> Str(<<"prod", "<FF>">>)]>>,
              gone |-> <<"map", <<>>>>]],
  [inputs |-> [n |-> Num(0, 1), env |-> Str(<<>>), flag |-> Bool(TRUE)],
   steps |-> [build |-> <<"map", [tag |-> Str(<<"prod">>), n |-> Num(1, 2), raw |-> Str(<<"2", ".", "5">>)]>>]] }

-----------------------------------------------------------------------------
(* Expressions *)

Ref(path) == <<"ref", path>>
Lit(v) == <<"lit", v>>
N == Ref(<<"inputs", "n">>)
E == Ref(<<"inputs", "env">>)
F == Ref(<<"inputs", "flag">>)
Tag == Ref(<<"steps", "build", "tag">>)
Missing == Ref(<<"steps", "gone", "tag">>)
Gone == Ref(<<"steps", "gone">>)
Prod == Lit(Str(<<"prod">>))
MinusTwo == Lit(Num(-2, 1))
Three == Lit(Num(3, 1))
Half == Lit(Num(-5, 2))
RawOut == Ref(<<"steps", "build", "raw">>)

\* Braces in literals: balanced, and not.
Braces == {<<"{", "n", "}">>, <<"}">>, <<"{">>, <<"}", "{">>}

Ops == UNION {{Levels[l][k] : k \in DOMAIN Levels[l]} : l \in DOMAIN Levels}

Binary(L, O, R) == {<<"bin", o, l, r>> : o \in O, l \in L, r \in R}

\* Every pair of operators, nested to the left and to the right.
Pairs == Binary(Binary({N}, Ops, {MinusTwo}), Ops, {Three})
         \cup Binary({Three}, Ops, Binary({MinusTwo}, Ops, {N}))

Mixed ==
  LET C == Binary({E, Tag}, {<<"=", "=">>, <<"!", "=">>, <<"<", "=">>}, {Prod})
      Fs == {F, Missing, Lit(Nil), Lit(Str(<<>>)), Gone, Lit(Str(<<"{", "n", "}">>)), RawOut, Half} IN
  C \cup Fs \cup {<<"not", e>> : e \in C \cup Fs}
    \cup Binary(C \cup {F}, {<<"&", "&">>, <<"|", "|">>}, Fs \cup C)
    \cup {<<"if", c, t, e>> : c \in C \cup {F}, t \in {N, <<"if", F, MinusTwo, E>>}, e \in {Three, Missing}}
    \cup {<<"bin", <<"*">>, <<"if", F, N, MinusTwo>>, Three>>, <<"not", <<"bin", <<"+">>, N, MinusTwo>>>>}
    \cup {<<"call", f, <<a>>>> : f \in {"len", "upper", "lower", "toJSON"}, a \in Fs \cup {E, Tag, N}}
    \cup {<<"call", "contains", <<a, b>>>> : a \in {E, Tag}, b \in {Prod, <<"call", "lower", <<Tag>>>>}}
    \cup {<<"call", "default", <<a, b>>>> : a \in {E, Missing, Lit(Nil)}, b \in {Prod, N}}
    \cup {<<"call", "contains", <<a, Lit(Str(g))>>>> : a \in {E, RawOut}, g \in Braces}
    \cup {<<"call", "upper", <<Lit(Str(g))>>>> : g \in Braces}
    \cup Binary({RawOut, Half}, {<<"+">>, <<"*">>, <<"<">>}, {Three, Half})
    \cup {<<"call", "len", <<>>>>, Ref(<<"secrets", "n">>), Ref(<<"env", "n">>)}

-----------------------------------------------------------------------------
(* Documents *)

Glyphs(g) == <<"glyphs", g>>
Set(key, value) == <<"assign", <<key>>, value>>
Plain(g) == <<"text", <<Glyphs(g)>>>>
Block(type, name, body) == <<"block", <<type>>, name, body>>
Workflow(body) == [name |-> <<"release">>, body |-> body]

OneStep(body) == Workflow(<<Block("step", <<"ship">>, body)>>)

Command == <<"text", <<Glyphs(<<"shell", " ", "\"">>), <<"expr", E>>, Glyphs(<<"\"", "\\", "n">>), <<"expr", N>>>>>>

\* The condition bare, the condition in quotes, and the command.
Around(e) ==
  { OneStep(<<Set("when", <<"expr", e>>), Set("command", Command)>>),
    OneStep(<<Set("when", <<"text", <<<<"expr", e>>>>>>)>>),
    OneStep(<<Set("command", <<"text", <<Glyphs(<<"shell", " ">>), <<"expr", e>>, Glyphs(<<" ", "tag">>)>>>>)>>) }

List(items) == <<"list", items>>
Id(w) == <<"id", <<w>>>>

Inputs == Workflow(<<
  Set("version", <<"number", <<"2">>>>),
  Block("input", <<"n">>, <<Set("type", Id("n")), Set("required", <<"bool", TRUE>>),
                            Set("description", Plain(<<"note">>)),
                            Set("default", <<"number", <<"-", "2", ".", "5">>>>)>>),
  Block("approval", <<"gate">>, <<Set("when", <<"expr", F>>)>>),
  Block("input", <<"env">>, <<Set("enum", List(<<Plain(<<"prod">>), Plain(<<"n">>)>>)), Set("default", <<"null">>)>>)>>)

Retried == OneStep(<<Set("runner", Plain(<<"shell">>)), Set("command", Command),
  Block("retry", <<>>, <<Set("max_attempts", <<"number", <<"3">>>>), Set("backoff", Plain(<<"exponential">>)),
    Set("initial_wait", Plain(<<"2", "n">>)), Set("max_wait", <<"number", <<"60">>>>)>>),
  Set("note", List(<<List(<<>>), <<"bool", FALSE>>, <<"expr", Tag>>>>))>>)

Gated == Workflow(<<
  Block("step", <<"build">>, <<Set("note", Plain(<<"tag">>))>>),
  Block("approval", <<"gate">>, <<Set("depends_on", List(<<Plain(<<"build">>)>>)),
    Set("when", <<"expr", F>>), Set("message", Plain(<<"note">>)),
    Set("required_roles", List(<<Id("prod"), Plain(<<"n">>), <<"number", <<"7">>>>>>))>>),
  Block("step", <<"ship">>, <<Set("depends_on", List(<<Id("build"), Plain(<<"gate">>)>>)),
    Set("when", <<"bool", FALSE>>)>>) >>)

Compensated == OneStep(<<
  Block("compensation", <<>>, <<Set("command", Plain(<<"shell">>)), Set("note", <<"null">>),
                                Set("runner", Id("shell")), Set("tag", Id("n"))>>),
  Set("command", Command), Set("host", Plain(<<"{", " ", "}", "#", "\t">>))>>)

Structural == {
  Inputs, Retried, Gated, Compensated, Workflow(<<>>), OneStep(<<>>),
  OneStep(<<Set("command", Plain(<<"n">>)), Set("command", Plain(<<"tag">>)),
            Set("when", Plain(<<"false">>)), Set("when", Plain(<<>>))>>),
  OneStep(<<Block("retry", <<>>, <<>>), Block("retry", <<"n">>, <<Set("max_attempts", <<"number", <<"5">>>>)>>),
            Block("compensation", <<>>, <<Set("command", Command)>>), Block("compensation", <<>>, <<>>),
            Set("name", <<"bool", TRUE>>)>>),
  OneStep(<<Block("retry", <<>>, <<Set("max_attempts", <<"number", <<"-", "3">>>>)>>),
            Set("command", Command)>>),
  OneStep(<<Block("retry", <<>>, <<Set("max_attempts", <<"number", <<"2", ".", "5">>>>),
                                   Set("max_wait", <<"bool", TRUE>>)>>)>>),
  Workflow(<<Block("step", <<>>, <<>>), Block("approval", <<>>, <<Set("depends_on", List(<<>>))>>),
             Block("workflow", <<"note">>, <<Block("step", <<"gone">>, <<>>)>>)>>) }

MCDocuments == Structural \cup UNION {Around(e) : e \in Pairs \cup Mixed}

\* Tight and spaced, the two extremes of what stands between statements, and
\* expressions over several lines.
MCLayouts == {
  [gap |-> <<>>, sep |-> <<" ">>, comma |-> <<"\n">>],
  [gap |-> <<"\n">>, sep |-> <<"\n">>, comma |-> <<",">>],
  [gap |-> <<" ", "\t">>, sep |-> <<" ", "#", "step", "{", "\n", "\n">>, comma |-> <<" ", ",", "\n">>] }
=============================================================================
