----------------------------- MODULE MCPodKill -----------------------------
(* A small instance of PodKill for TLC: three pods run, two more names are *)
(* free for their replacements, and one count is not positive.             *)
EXTENDS PodKill

CONSTANTS p1, p2, p3, p4, p5

MCPods   == {p1, p2, p3, p4, p5}
MCFirst  == {p1, p2, p3}
MCCounts == {0, 2}
============================================================================
