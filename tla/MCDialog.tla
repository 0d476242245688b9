------------------------------ MODULE MCDialog ------------------------------
(***************************************************************************)
(* Instance of Dialog: every user, timing and way of grading, up to three  *)
(* turns, a token budget and a run limit that some dialogs reach.          *)
(***************************************************************************)
EXTENDS Dialog

MCConfigs ==
  {c \in [user : {"pinned", "pure", "script"}, maxTurns : {1, 3}, check : Timings,
          stopOnPass : BOOLEAN, grade : BOOLEAN,
          budget : {3, Unlimited}, limit : {2, Unlimited}] : Valid(c)}
=============================================================================
