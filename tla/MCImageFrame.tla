---------------------------- MODULE MCImageFrame ----------------------------
(* Instances of ImageFrame for TLC: the limits of the code scaled down. *)
EXTENDS ImageFrame

SomeWidths  == 1..52
SomeHeights == 1..20 \cup {33, 40, 61}
SomeSamples == {0, 1, 128, 254, 255}
=============================================================================
