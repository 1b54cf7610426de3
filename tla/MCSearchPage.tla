---------------------------- MODULE MCSearchPage ----------------------------
(* Instances of SearchPage for TLC.                                        *)
EXTENDS SearchPage

Name(text, children) == [id |-> convertToId(text), children |-> children]

\* Two sections, of which the first has a page of results for its initial.
SmallSections == (0 :> <<"b">>) @@ (1 :> <<"s">>)

SmallData ==
  <<0, "b">> :> <<Name(<<"b", "_">>, 2), Name(<<"b", "_", "o">>, 0), Name(<<"b", "o">>, 0)>>

SearchLabel == <<"s", "e">>

SmallTexts == {<<>>, <<" ", "b", "_">>}
=============================================================================
