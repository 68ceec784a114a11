---------------------------- MODULE MCThreadPool ----------------------------
(* Small instances of ThreadPool: threads and tasks are model values.      *)
EXTENDS ThreadPool

=============================================================================
