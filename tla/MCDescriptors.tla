--------------------------- MODULE MCDescriptors ---------------------------
(* Three sockets that may listen, connect and accept from one another, and *)
(* two descriptors.                                                        *)
EXTENDS Descriptors, TLC

CONSTANTS s1, s2, s3

MCObjects == {s1, s2, s3}
MCFds     == {3, 4}
Symmetry  == Permutations(MCObjects)

=============================================================================
