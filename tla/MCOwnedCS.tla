----------------------------- MODULE MCOwnedCS -----------------------------
(* Small instances of OwnedCS. *)
EXTENDS OwnedCS

CONSTANTS draw1, draw2, remover

ThreadSet == {draw1, draw2, remover}

(* The classes of the program: 1 for drawing, 2 for removing fonts. *)
ProgramClass == [t \in ThreadSet |-> IF t = remover THEN 2 ELSE 1]
=============================================================================
