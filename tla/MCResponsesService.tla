-------------------------- MODULE MCResponsesService --------------------------
(***************************************************************************)
(* ResponsesService for TLC: two models, each with a graph of its own, one *)
(* compiled with a database checkpointer and one without any; or the first *)
(* of them alone.                                                          *)
(***************************************************************************)
EXTENDS ResponsesService, TLC

TwoModels == {"durable", "plain"}
TwoGraphs == {"graph d", "graph p"}
OwnGraphs == "durable" :> "graph d" @@ "plain" :> "graph p"
Database == {"database"}
OneCompiled == "graph d" :> "database" @@ "graph p" :> None

FromUser == {<<0>>}
Repeated == {<<-1, 0>>}

OneModel == {"durable"}
OneGraph == "durable" :> "graph d"
=============================================================================
