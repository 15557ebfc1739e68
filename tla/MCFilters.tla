------------------------------ MODULE MCFilters ------------------------------
(***************************************************************************)
(* Every filter of VapStd, one after another, with two frames in progress. *)
(***************************************************************************)
EXTENDS FilterHost

CONSTANT IntMax

LOCAL VapStd == INSTANCE FilterCatalog

MCCatalog == VapStd!Filters
=============================================================================
