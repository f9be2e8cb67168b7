--------------------------- MODULE MCDeployWorker ---------------------------
(***************************************************************************)
(* Instances of DeployWorker for TLC: two deployments of one service on a  *)
(* node, and three deployments of three services on the panel host.        *)
(***************************************************************************)
EXTENDS DeployWorker

CONSTANTS shop, blog, wiki, panel, node

ThreeRows == 1..3
TwoRows == 1..2
TwoOfOne == <<shop, shop>>
Apart == <<shop, blog, wiki>>
OnPanel == [s \in Services |-> panel]
OnNode == [s \in Services |-> node]
NoRows == {}
FirstRow == {1}
SecondRow == {2}

=============================================================================
