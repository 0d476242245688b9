------------------------- MODULE MCPermissionStack -------------------------
(* Instance of PermissionStack: a window nested in another, and one that   *)
(* overlaps both.                                                          *)
EXTENDS PermissionStack

TwoPaths == <<"reference", "task_dir">>
Same     == [w \in Windows |-> 0]
Layout   == [w \in Windows |-> IF w = "inner" THEN "outer" ELSE w]
=============================================================================
