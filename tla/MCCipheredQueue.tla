-------------------------- MODULE MCCipheredQueue --------------------------
(***************************************************************************)
(* Words at both ends of every loop of characters, an empty one and one    *)
(* with an illegal character (Z+0).                                        *)
(***************************************************************************)
EXTENDS CipheredQueue

Words == {<< 65, 122, 57 >>, << 90, 43, 48 >>, << >>}
=============================================================================
