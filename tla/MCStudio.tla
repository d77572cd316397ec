------------------------------ MODULE MCStudio ------------------------------
(* Instances of Studio for TLC. *)
EXTENDS Studio

SiteAndDemand == {{"site", "demand"}, {"demand"}, {"money"}}
SiteAlone == {{"site"}}

Pack(posts, n, rest) ==
    [posts |-> [Written(posts, 0) EXCEPT !.posts = n],
     email |-> Written(rest, 0), video_props |-> Written(rest, 0)]

SomePacks == {Pack("clean", Slots, "flagged"), Pack("flagged", 1, "clean")}
=============================================================================
