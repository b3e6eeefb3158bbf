------------------------------- MODULE MCScreen -------------------------------
(* Screen for TLC, which follows a page less far the more rows there are to  *)
(* be seen: as long as nobody watches, any screen may be captured; while     *)
(* somebody does, only the first row goes on changing its pixels, and what   *)
(* is under way to the page is bounded.                                      *)
EXTENDS Screen, TLC

CONSTANTS Ground,        (* what the other rows show while somebody watches *)
          MaxUnderWay,   (* bound on the tiles under way to a page          *)
          MaxOneRow      (* that bound while all there is is one row high   *)

Watched(v) == stage[v] # "off" \/ canvas[v] # NoFrame

Tiles(updates) == FoldLeft(LAMBDA n, update : n + Len(update.regions), 0, updates)
UnderWay(v) == Len(decoding[v]) + Tiles(Pending(v))

Beneath(picture) == {picture[r] : r \in DOMAIN picture \ {1}}
Grounded == Beneath(prev) \cup Beneath(told) \subseteq {Ground, Blank}

OneRow(v) == DOMAIN prev \cup DOMAIN told \cup DOMAIN canvas[v] \subseteq {1}

Followed ==
  \A v \in Viewer : Watched(v) =>
    /\ Grounded
    /\ UnderWay(v) <= IF OneRow(v) THEN MaxOneRow ELSE MaxUnderWay
=============================================================================
