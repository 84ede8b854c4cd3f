------------------------ MODULE MCProjectCopyCleanup ------------------------
(* ProjectCopyCleanup for TLC: two prefixes and a directory outside them.  *)
EXTENDS ProjectCopyCleanup, TLC

CONSTANTS d1, d2, d3, w1, w2, w3

All == {"workspace_collection", "workspace_item", "project_copy_refresh"}

MCRoutes == {All, All \ {"project_copy_refresh"}, {"project_copy_refresh"}}

MCRequests ==
  {[mode |-> "standalone", entries |-> <<{d1}>>, assumed |-> {}]} \cup
  {[mode |-> "run", entries |-> <<{d1}, {d2}>>, assumed |-> a] :
     a \in {{}, {d1}}}

\* w3 has an id that cannot be put into a path.
MCSpaces ==
  {w1 :> s[1] @@ w2 :> s[2] @@ w3 :> s[3] :
     s \in {<<d1, d2, Gone>>, <<d1, d1, Gone>>, <<Gone, Gone, d1>>}}

MCWorlds ==
  [disk : {{}, {d3}, {d1, d3}}, copies : {{d1}, {d1, d2, d3}},
   sandboxes : {{}, {d2}}, workspaces : MCSpaces]
=============================================================================
