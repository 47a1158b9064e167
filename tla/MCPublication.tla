--------------------------- MODULE MCPublication ---------------------------
(* Instances of Publication for model checking.                            *)
EXTENDS Publication

\* Every text of up to two characters of the kinds that the code tells apart,
\* and some longer or stranger ones.
Chars == {"a", ".", "-", "/", " "}
Texts == BoundedSeq(Chars, 2)
Odd == {<<"A">>, <<"a", "A">>, <<"a", "/", "nodes">>, <<"nodes">>, <<"a", "+">>, <<"\t">>, <<"a", "/", "/", "A">>,
        <<"a", ".", " ", "a">>, <<"-", "a", "_">>, <<".", "a", "-">>}
RawTexts == Texts \cup Odd
OneText == {<<"a">>}

KindNames == {<<"serve", "/", "usage">>}
ScopeNames == {<<"enabled">>, <<"a", "A">>}

\* Every character of a topic.
Characters ==
    <<"/", "a", "-", "_", "nodes", "events", "availability", "default", "serve", "usage",
      "agent", "error", "online", "mac">>

\* Around the first limit of the length field.
ShortAndLong == {<<>>, <<7, 7, 7>>}
=============================================================================
