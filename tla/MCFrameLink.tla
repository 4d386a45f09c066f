----------------------------- MODULE MCFrameLink -----------------------------
(* FrameLink for TLC: messages of one, two and one bytes.                     *)
EXTENDS FrameLink
CONSTANTS m1, m2, m3
MCSize == [m \in {m1, m2, m3} |-> IF m = m2 THEN 2 ELSE 1]
=============================================================================
