-------------------------------- MODULE MCDag -------------------------------
(* Every definition of three declarations, up to the names, for TLC. *)
EXTENDS Dag, TLC

CONSTANTS a, b, c

\* No dependency, one, or two, the same one twice included.
Needs == {<<>>, <<a>>, <<b>>, <<c>>,
          <<a, a>>, <<a, b>>, <<a, c>>, <<b, b>>, <<b, c>>, <<c, c>>}

\* Names in the order of their first use: duplicates, clashes of a step and an
\* approval, and dependencies on c undeclared are among them.
MCDefinitions ==
  {<<[kind |-> k[1], id |-> i[1], needs |-> n[1]],
     [kind |-> k[2], id |-> i[2], needs |-> n[2]],
     [kind |-> k[3], id |-> i[3], needs |-> n[3]]>> :
     k \in {<<"step", "step", "step">>, <<"step", "step", "approval">>,
            <<"step", "approval", "approval">>},
     i \in {<<a, b, c>>, <<a, b, b>>, <<a, b, a>>},
     n \in Needs \X Needs \X Needs}
=============================================================================
