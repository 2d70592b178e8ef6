--------------------------- MODULE MCPostPipeline ---------------------------
(* Instances of PostPipeline for TLC. *)
EXTENDS PostPipeline

CONSTANTS p1, p2, p3, ann, bob, n1, n2, n3, u

TwoOwners  == [p \in Posts |-> IF p = p1 THEN ann ELSE bob]
SameUrl    == [p \in Posts |-> u]
OwnUrls    == [p \in Posts |-> p]
SameName   == [p \in Posts |-> n1]
OwnNames   == [p \in Posts |-> CASE p = p1 -> n1 [] p = p2 -> n2 [] OTHER -> n3]
AllImages  == [n \in Names |-> "image"]
EveryKind  == [n \in Names |-> CASE n = n1 -> "image" [] n = n2 -> "video" [] OTHER -> "other"]
AllSimilar == Posts \X Posts
TwoFaultSets == {{"item", "db", "redis"}, {"item", "redis"}}
NoFaults   == {{}}
OnlyRedis  == {{"redis"}}
OnlySelf   == {<<p, p>> : p \in Posts}
=============================================================================
