------------------------------ MODULE MCServer ------------------------------
(* Three connections and three descriptors above the standard ones.        *)
EXTENDS Server

ThreeFds == {4, 5, 6}

=============================================================================
