--------------------------- MODULE MCPlannerControl ---------------------------
(***************************************************************************)
(* Instances of PlannerControl for TLC.                                    *)
(***************************************************************************)
EXTENDS PlannerControl

ThreeRequests == 1..3
FirstTwo == {1, 2}
FirstProcess == {0}
MixedCalls ==
  [route |-> {<<"route", 1>>, <<"route", 2>>, <<"ask", 1>>, <<"approve", 1>>},
   flow |-> {<<"node", 1>>, <<"execute", 1>>}]
SomeDenied == {<<"route", 2>>}
=============================================================================
