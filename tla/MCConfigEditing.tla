--------------------------- MODULE MCConfigEditing ---------------------------
(* Two pages on one configuration with one model; the cfg sets the bounds.     *)
EXTENDS ConfigEditing

OneModel ==
  Mapping([models |-> Mapping([a |->
    Mapping([schedule  |-> Mapping([every |-> Scalar("v")]),
             archive   |-> Mapping([includes |-> List(<<Scalar("v")>>)]),
             databases |-> Mapping([main |-> Mapping([type   |-> Scalar("mysql"),
                                                      tables |-> List(<<Scalar("v")>>)])])])])])

\* The same after a hand has left two sections without content.
Hollow == Mapping(With(With(OneModel.entries, "web", Scalar("null")), "models",
  Mapping([a |-> Mapping(With(ValueAt(OneModel, <<"models", "a">>).entries, "databases",
                              Scalar("null")))])))

BothConfigs == {OneModel, Hollow}

CONSTANTS p1, p2

\* The first page edits one part of the configuration and the other the schedule
\* of the same model, once; or a page alone edits whatever it likes.
Part(path, e, r) == [path |-> path, edits |-> e, reads |-> r]
EachTopic ==
  {p1 :> part @@ p2 :> Part(<<"models", "a", "schedule", "every">>, 1, 1) :
     part \in {Part(<<"models", "a", "schedule">>, 1, 1), Part(<<"models", "a", "archive">>, 1, 1),
               Part(<<"models", "a", "databases">>, 1, 1), Part(<<"models", "b">>, 1, 1),
               Part(<<"web">>, 1, 2), Part(<<"workdir">>, 1, 1)}}
  \cup {p1 :> part @@ p2 :> Part(<<>>, 0, 0) :
          part \in {Part(<<"models", "a", "schedule">>, 3, 1), Part(<<>>, 2, 1)}}
===============================================================================
