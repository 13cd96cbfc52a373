---------------------------- MODULE MCThreadPool ----------------------------
(* Instances of ThreadPool for TLC. *)
EXTENDS ThreadPool

CONSTANTS t1, t2, t3, t4

FourThreads == {t1, t2, t3, t4}
=============================================================================
