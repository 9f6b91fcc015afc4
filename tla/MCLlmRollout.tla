---------------------------- MODULE MCLlmRollout ----------------------------
(* Two launches, of which the second asks for one more episode of every    *)
(* board; the second board is a smaller one.                               *)
EXTENDS LlmRollout

OneThenTwo == <<1, 2>>
ThreeAndTwo == <<3, 2>>
=============================================================================
