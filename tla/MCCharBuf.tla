------------------------------ MODULE MCCharBuf ------------------------------
(* CharBuf with a three-byte target, in a buffer of five bytes.            *)
EXTENDS CharBuf, TLC

Linux == <<1, 2, 1>>
Strings == {Linux, <<1, 2>>, <<2, 2, 2, 2, 2, 2>>}
Symmetry == Permutations(Proc)
==============================================================================
