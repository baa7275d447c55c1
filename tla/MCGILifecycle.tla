--------------------------- MODULE MCGILifecycle ---------------------------
(***************************************************************************)
(* Values of the constants of GILifecycle.tla for its runs.                *)
(***************************************************************************)
EXTENDS GILifecycle

CONSTANTS m1, m2, v1, v2

AllFundable == Models \X (1..MaxGI)
ThreeFundable == {<<m1, 1>>, <<m1, 2>>, <<m2, 1>>}
NoneRemovable == {}
OneRemovable == {<<m1, "auditor">>}
=============================================================================
