-------------------------- MODULE MCMetricsServer --------------------------
(* MetricsServer for TLC: the serving thread, and one that prints pages;   *)
(* three observations and no connection, or one and one, or two            *)
(* connections.                                                            *)
EXTENDS MetricsServer

CONSTANT printer
MCScrapers == {Server, printer}
MCLoads == {<<3, 0>>, <<1, 1>>, <<0, 2>>}
=============================================================================
