---------------------------- MODULE MCRipNetwork ----------------------------
(* Instances of RipNetwork; the cfg picks the topology.                      *)
EXTENDS RipNetwork, MCTopology

\* The line is a network without a circle, the others are not.
ASSUME WhichCircle == NoCircle <=> Attach = LineAttach

=============================================================================
