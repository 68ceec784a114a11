---------------------------- MODULE MCServerStop ----------------------------
(* Connections that share, or follow each other under, few descriptors.    *)
EXTENDS ServerStop

OneFd  == {4}
TwoFds == {4, 5}

(* As the fixture of test/server.cpp: no task is enqueued.                 *)
TestCares == {{"idle"}}

(* An application that tidies up as it likes before it waits for the end   *)
(* of the loop and of its tasks, and one that sees to everything.          *)
TidyCares == {{"wait", "idle"}, {"inside", "wait", "idle", "alone"}}

=============================================================================
