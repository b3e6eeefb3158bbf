------------------------------ MODULE TileStream ------------------------------
(***************************************************************************)
(* How a screen becomes updates and updates become a screen again: the     *)
(* encoder of iapetusd/src/stream.rs, the gateway's TileCache and what a   *)
(* viewer's canvas shows once an update is drawn.                          *)
(*                                                                         *)
(* The screen is a column of rows, a row being any part of it that changes *)
(* as one; a region is a run of rows with the pixels it carries, as a      *)
(* function on those rows. X11Display keeps the size it was opened with;   *)
(* encode and apply take a frame of any size, and so does this. Bytes,     *)
(* JPEG and the sequence number are left out: nothing reads seq but the    *)
(* page's status line.                                                     *)
(***************************************************************************)
EXTENDS Naturals, Sequences, FiniteSets, FiniteSetsExt, SequencesExt

CONSTANTS Pixel,      (* what a row can show                               *)
          Blank,      (* what a canvas shows where nothing was drawn       *)
          Heights,    (* the screen sizes there are                        *)
          MaxRegions, (* MAX_REGIONS, the bound on the cache               *)
          Threads     (* encode_threads, how many encode at once           *)

ASSUME BlankAssumption == Blank \notin Pixel
ASSUME SizeAssumption == Heights \subseteq Nat \ {0} /\ {MaxRegions, Threads} \subseteq Nat \ {0}

Screens == UNION {[1..n -> Pixel] : n \in Heights}
NoFrame == <<>>
Rows == UNION {1..n : n \in Heights}

Height(picture) == Cardinality(DOMAIN picture)
Part(picture, rows) == [r \in rows |-> picture[r]]

-----------------------------------------------------------------------------
(* TileEncoder                                                              *)
Invalidated == NoFrame
Keyframe(prev, frame) == DOMAIN prev # DOMAIN frame

DirtyOfPrev(prev, frame) ==
  {r \in DOMAIN frame \cap DOMAIN prev : prev[r] # frame[r]}

Differs(prev, frame, r) == prev[r] # frame[r]

Dirty(prev, frame) ==
  {r \in DOMAIN frame : Keyframe(prev, frame) \/ Differs(prev, frame, r)}

(* COALESCE_ABOVE = 0.25 *)
Coalesced(dirty, frame) == 4 * Cardinality(dirty) > Height(frame) /\ Cardinality(dirty) > 1

(* A box left whole, or cut in two bands where there are threads for them,  *)
(* wherever that may be.                                                    *)
Cuts(box) == IF Threads = 1 THEN {} ELSE box \ {Max(box)}

Banded(box) ==
  {<<box>>} \cup {<<{r \in box : r <= cut}, {r \in box : r > cut}>> : cut \in Cuts(box)}

(* One box per dirty row, in order down the screen.                         *)
Single(dirty) ==
  {[i \in 1..Cardinality(dirty) |-> {row[i]}] :
     row \in {f \in [1..Cardinality(dirty) -> dirty] :
               dirty = {f[i] : i \in DOMAIN f} /\ \A i, j \in DOMAIN f : i < j => f[i] < f[j]}}

(* The regions an update may carry.                                         *)
Layouts(dirty, frame) ==
  IF dirty = {} THEN {<<>>}
  ELSE IF Coalesced(dirty, frame) THEN Banded(Min(dirty)..Max(dirty))
  ELSE Single(dirty)

Updates(prev, frame) ==
  {[keyframe |-> Keyframe(prev, frame), height |-> Height(frame),
    regions |-> [i \in DOMAIN rows |-> Part(frame, rows[i])]] :
      rows \in Layouts(Dirty(prev, frame), frame)}

RowsIn(regions) == UNION {DOMAIN regions[i] : i \in DOMAIN regions}
RowsOf(update) == RowsIn(update.regions)

-----------------------------------------------------------------------------
(* A canvas: resized when the update says so, then drawn on. Shown is what  *)
(* an update stands for, its regions drawn in order; a page draws each when *)
(* it is decoded (Screen!Draw).                                             *)
Fitted(picture, n) == IF DOMAIN picture = 1..n THEN picture ELSE [r \in 1..n |-> Blank]

Painted(picture, region) ==
  [r \in DOMAIN picture |-> IF r \in DOMAIN region THEN region[r] ELSE picture[r]]

Shown(picture, update) ==
  FoldLeft(Painted, Fitted(picture, update.height), update.regions)

ShownAll(picture, updates) == FoldLeft(Shown, picture, updates)

(* The rows that show an older picture for good once region i is drawn      *)
(* before the earlier regions still to come, and no later one is to come.   *)
Overtaken(regions, i) ==
  {r \in DOMAIN regions[i] :
     /\ \E j \in 1..(i - 1) : r \in DOMAIN regions[j]
     /\ \A j \in (i + 1)..Len(regions) : r \notin DOMAIN regions[j]}

-----------------------------------------------------------------------------
(* TileCache                                                                *)
EmptyCache == [height |-> 0, regions |-> <<>>]

Covers(region, old) == DOMAIN old \subseteq DOMAIN region

(* regions.retain(|old| !r.covers(old))                                     *)
Retained(region, kept, old) == IF Covers(region, old) THEN kept ELSE Append(kept, old)

Uncovered(regions, region) ==
  FoldLeft(LAMBDA kept, old : Retained(region, kept, old), <<>>, regions)

KeptInPlace(regions, region) ==
  IF \E i \in DOMAIN regions : DOMAIN regions[i] = DOMAIN region
  THEN [i \in DOMAIN regions |->
          IF DOMAIN regions[i] = DOMAIN region THEN region ELSE regions[i]]
  ELSE Append(Uncovered(regions, region), region)

Kept(regions, region) == Append(Uncovered(regions, region), region)

AppliedUnbounded(cache, update) ==
  LET before == IF update.keyframe \/ cache.height # update.height THEN <<>> ELSE cache.regions
  IN  [height |-> update.height, regions |-> FoldLeft(Kept, before, update.regions)]

Applied(cache, update) ==
  LET before == IF update.keyframe \/ cache.height # update.height THEN <<>> ELSE cache.regions
      after  == FoldLeft(Kept, before, update.regions)
  IN  [height |-> update.height, regions |-> IF Len(after) > MaxRegions THEN <<>> ELSE after]

(* The keyframe a viewer is bootstrapped with.                              *)
Bootstrap(cache) == [keyframe |-> TRUE, height |-> cache.height, regions |-> cache.regions]
=============================================================================
