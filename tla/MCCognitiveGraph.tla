-------------------------- MODULE MCCognitiveGraph --------------------------
(* Three memories over four words, in two scopes. *)
EXTENDS CognitiveGraph

M(id, text, concepts, importance, scope) ==
    [id |-> id, text |-> text, concepts |-> concepts, importance |-> importance, scope |-> scope]

MCInputs ==
    { M(1, <<5, 6>>, <<1, 2>>, 1, "none"),
      M(1, <<6>>, <<3>>, 4, "none"),
      M(2, <<5, 5>>, <<2, 1>>, 4, "alice"),
      M(3, <<7>>, <<2, 3>>, 0, "none") }
MCOpening == { {M(1, <<5, 6>>, <<1, 2>>, 1, "none"), M(2, <<5, 5>>, <<2, 1>>, 4, "alice")},
               {M(1, <<5, 6>>, <<1, 2>>, 1, "none"), M(3, <<7>>, <<2, 3>>, 0, "none"),
                M(2, <<5, 5>>, <<2, 1>>, 4, "alice")} }
MCQueries == { <<2>>, <<5, 2>> }
MCHits == { <<[id |-> 1, score |-> 90]>>, <<[id |-> 3, score |-> 80], [id |-> 2, score |-> 10]>> }
MCScopes == {"none", "alice"}
MCCallers == {"none", "bob"}

=============================================================================
