--------------------------- MODULE MCMediaEncode ---------------------------
(* Instances of MediaEncode for TLC: pairs of calls that run side by side. *)
EXTENDS MediaEncode

CONSTANTS c1, c2

Pair(r1, f1, r2, f2) ==
    [c \in Calls |-> IF c = c1 THEN [route |-> r1, form |-> f1] ELSE [route |-> r2, form |-> f2]]

EveryRoute ==
    { Pair("image", "jpeg420", "regen", "exotic"),
      Pair("image", "exotic", "video", "video"),
      Pair("b", "wide", "d", "jpeg444"),
      Pair("image", "wide", "d", "wide"),
      Pair("c", "native", "image", "jpeg444") }
=============================================================================
