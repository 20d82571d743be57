--------------------------- MODULE MCCryptoStream ---------------------------
(***************************************************************************)
(* Four bytes in at most four packets of one or two bytes: frames overlap, *)
(* arrive in any order, and one fragment may wait.                         *)
(***************************************************************************)
EXTENDS CryptoStream
=============================================================================
