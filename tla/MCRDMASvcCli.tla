---------------------------- MODULE MCRDMASvcCli ----------------------------
(* Two agents with one application thread each.                            *)
EXTENDS RDMASvcCli, TLC

CONSTANTS a1, a2, t1, t2

MCAgents == {a1, a2}
MCThreads == {t1, t2}
MCAgentOf == (t1 :> a1) @@ (t2 :> a2)
=============================================================================
