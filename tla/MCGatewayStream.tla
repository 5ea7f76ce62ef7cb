--------------------------- MODULE MCGatewayStream ---------------------------
(***************************************************************************)
(* An instance of GatewayStream for TLC.  The clients are interchangeable, *)
(* but the run checks liveness, for which symmetry is not sound.           *)
(***************************************************************************)
EXTENDS GatewayStream

CONSTANTS c1, c2, c3
=============================================================================
