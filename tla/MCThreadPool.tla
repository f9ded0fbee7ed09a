---------------------------- MODULE MCThreadPool ----------------------------
(* Small instances of ThreadPool for TLC.  Tasks are model values; in the   *)
(* scripts "c" and "d" are cancels that may not find their order and the    *)
(* others are new orders.  With the cancels in between the dispatcher is    *)
(* still submitting when the worker resubmits one: into a ring with room,   *)
(* into a full one, and while the dispatcher is inside push.                *)
EXTENDS ThreadPool

CONSTANTS n1, n2, n3, c, d

MCCancelsBetween == <<c, n1, d, n2, n3>>
MCCancelFirst == <<c, n1>>
=============================================================================
