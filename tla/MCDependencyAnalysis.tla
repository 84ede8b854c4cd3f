------------------------ MODULE MCDependencyAnalysis ------------------------
(* DependencyAnalysis for TLC: all graphs over three workers, in the       *)
(* states the rules tell apart.  timeout_retry stands for a failed worker  *)
(* that may run again, a missing id for one that may not.                  *)
EXTENDS DependencyAnalysis

K(life, prompted) == [life |-> life, prompted |-> prompted]

MCKinds == {K("queued", TRUE), K("queued", FALSE), K("active_wait", TRUE),
            K("timeout_retry", TRUE), K("done_collect", TRUE)}
=============================================================================
