---------------------------- MODULE MCStateStream ----------------------------
(* Instances of StateStream for TLC; the other constants are set in the cfg. *)
EXTENDS StateStream

CONSTANTS b1, b2

(* Three branches: a short one parts from the others at the genesis, the other
   two after their first block. *)
ThreeBranches ==
    {<<b1>>, <<b1, b1>>, <<b1, b1, b1>>, <<b1, b2>>, <<b1, b2, b2>>,
     <<b2>>, <<b2, b2>>}
=============================================================================
