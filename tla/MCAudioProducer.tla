-------------------------- MODULE MCAudioProducer --------------------------
(***************************************************************************)
(* Two threads of media, a pool of two bundles, bundles that hold one      *)
(* large or two small samples.                                             *)
(***************************************************************************)
EXTENDS AudioProducer
=============================================================================
