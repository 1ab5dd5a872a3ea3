---------------------------- MODULE MCCourseOrder ----------------------------
(***************************************************************************)
(* Three items, and orders of which two wait for each other.               *)
(***************************************************************************)
EXTENDS CourseOrder

CONSTANTS x1, x2, x3

ThreeOrders == {<<x1, x2>>, <<x2, x1>>, <<x3, x1, x2>>}
=============================================================================
