---------------------------- MODULE MCHttpSession ----------------------------
(* HttpSession for TLC: bodies that are empty, short, of one chunk exactly,   *)
(* and of two chunks and a half.                                              *)
EXTENDS HttpSession
MCBodySizes == {0, 1, 2, 5}
=============================================================================
