------------------------ MODULE MC_ConfigLoadLayers ------------------------
(***************************************************************************)
(* The instance of MC_ConfigLoad, checked against the layered resolution  *)
(* of LayeredConfig through the refinement mapping of ConfigLoadLayers.   *)
(***************************************************************************)
EXTENDS MC_ConfigLoad, ConfigLoadLayers
=============================================================================
