----------------------- MODULE MCContainerTransaction -----------------------
(***************************************************************************)
(* Instances of ContainerTransaction for TLC.                              *)
(***************************************************************************)
EXTENDS ContainerTransaction
=============================================================================
