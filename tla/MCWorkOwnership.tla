--------------------------- MODULE MCWorkOwnership ---------------------------
(* Two or three Attempts around one workspace. *)
EXTENDS WorkOwnership, TLC

CONSTANTS managed, pull, generic, shared

MCMode == [c \in Commands |-> CASE c = managed -> "managed" [] c = pull -> "pull" [] c = generic -> "generic"]
MCUnitOf == [c \in Commands |-> c]
MCWorkspace == [c \in Commands |-> shared]
MCScopes == [c \in Commands |-> {shared}]
MCOverlap == {<<shared, shared>>}
=============================================================================
