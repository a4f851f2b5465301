---------------------------- MODULE MCThreadPool ----------------------------
(* ThreadPool for TLC.  Its runs check liveness too, where a symmetry      *)
(* reduction is not sound: the constants are plain sets of model values.   *)
EXTENDS ThreadPool
=============================================================================
