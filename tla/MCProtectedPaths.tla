-------------------------- MODULE MCProtectedPaths -------------------------
(* Oracles in tests, some of them behind a link, and steps that protect them *)
(* in the three tiers.                                                       *)
EXTENDS ProtectedPaths

MCNames == <<"a", "d", "data", "lib", "tests">>
File(c) == [kind |-> "file", what |-> c]
Link(t) == [kind |-> "link", what |-> t]

MCPaths == {<<"data">>, <<"lib">>, <<"tests">>, <<"tests", "a">>, <<"tests", "d", "a">>}
MCStrayPaths == {<<"tests", "a">>}
MCEntries == {File("bad"), Fresh, Link(<<"data">>)}
MCTrees == {(<<"data">> :> Fresh) @@ (<<"data", "a">> :> File("x")) @@ (<<"tests">> :> Fresh)
            @@ (<<"tests", "a">> :> File("y")) @@ (<<"tests", "d">> :> Fresh) @@ (<<"tests", "d", "a">> :> File("x"))
            @@ (<<"lib">> :> Link(<<"data">>))}

Step(deny, tier, judged) == [deny |-> deny, tier |-> tier, judged |-> judged]
MCSteps == [work |-> Step({<<"tests", "**">>}, "none", TRUE),
            draft |-> Step({<<"tests", "**">>}, "none", FALSE),
            pick |-> Step({<<"**", "d", "*">>, <<"lib", "**">>}, "rules", FALSE),
            bind |-> Step({<<"tests", "**">>, <<"lib">>}, "bind", TRUE)]

\* Two directories with the same link in them, and a worker that puts a link to one for the other.
TwinTrees == {(<<"data">> :> Fresh) @@ (<<"data", "a">> :> Link(<<"lib">>)) @@ (<<"lib">> :> File("x"))
              @@ (<<"tests">> :> Fresh) @@ (<<"tests", "a">> :> Link(<<"lib">>))}
TwinSteps == [work |-> Step({<<"**", "a">>}, "none", TRUE)]
============================================================================
