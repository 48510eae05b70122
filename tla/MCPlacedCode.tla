---------------------------- MODULE MCPlacedCode ----------------------------
(* Functions lowered from the families of PlacementPrograms. *)
EXTENDS PlacedCode, PlacementPrograms

CONSTANTS
  Shapes,    \* the families of the run
  Outside    \* the functions outside them

MCPrograms == {ProgramOf(key) : key \in (Shapes \X (DOMAIN Values) \X (DOMAIN Values)) \cup {<<d>> : d \in Outside}}
MCCallerSavedPool == <<6, 7, 12>>
MCCalleeSavedPool == <<8, 9, 10, 11>>
=============================================================================
