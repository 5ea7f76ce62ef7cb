---------------------------- MODULE MCSystemHealth -----------------------------
(***************************************************************************)
(* Two services, one with a pipeline and one that may publish orders.      *)
(***************************************************************************)
EXTENDS SystemHealth

MCUpstreams == <<"market-service", "execution-service">>
MCSubjects == {HealthEvent, <<"v2", "order", "submitted">>, <<"order", "submitted">>}
=============================================================================
