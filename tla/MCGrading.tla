------------------------------- MODULE MCGrading -------------------------------
(***************************************************************************)
(* Two passes of every kind over one row, and vectors of every kind of     *)
(* criterion.                                                              *)
(***************************************************************************)
EXTENDS GradePass

MCVectors == {<<"rule", "agent_ref">>, <<"llm", "unknown">>, <<"skipped", "agent">>}

MCPasses == {p \in [resume : BOOLEAN, host : BOOLEAN, inPlace : BOOLEAN, inside : BOOLEAN] :
               p.resume => p.inPlace /\ ~ p.inside}
=============================================================================
