------------------------- MODULE MCOmniCoordinator -------------------------
(* Small instances of OmniCoordinator.                                     *)
EXTENDS OmniCoordinator

CONSTANT i1
=============================================================================
