-------------------------------- MODULE Screen --------------------------------
(***************************************************************************)
(* The picture's way from the desktop to the browsers: run in              *)
(* iapetusd/src/viewer_link.rs captures, encodes and sends; guest_socket   *)
(* in iapetus-gateway/src/main.rs keeps the TileCache and publishes to the *)
(* frames channel; viewer_socket bootstraps a viewer from the cache and    *)
(* relays what follows; viewer.html asks for a keyframe when it connects   *)
(* and when it is told it lagged. The page resizes its canvas when an      *)
(* update arrives and draws each tile when it is decoded, whatever else is *)
(* being decoded, and goes on doing so when its socket is lost.            *)
(*                                                                         *)
(* XDamage, the frame interval and IDLE_RESYNC decide when the guest       *)
(* captures, not what: a capture may happen at any time, finds any screen, *)
(* and happens in the end. What the guest sends and the gateway has not    *)
(* read holds the guest up, so sending and reading are one step. A request *)
(* for a keyframe goes viewer - gateway - pump - input task - kf channel;  *)
(* of that way the model has the first leg (asking) and the last (asks).   *)
(***************************************************************************)
EXTENDS TileStream

CONSTANTS Viewer,
          Backlog,  (* capacity of the frames channel                      *)
          MaxAsks,  (* bound on the keyframe requests under way            *)
          MaxDecoding  (* bound on the tiles a page is decoding            *)

ASSUME ChannelAssumption == {Backlog, MaxAsks, MaxDecoding} \subseteq Nat \ {0}

VARIABLES
  guest,     (* is viewer_link::run running, or waiting to dial again?     *)
  socket,    (* the socket the gateway's guest slot is taken by            *)
  listening, (* does the gateway's pump still write to it?                 *)
  prev,      (* TileEncoder.prev, which is the screen last captured        *)
  asks,      (* keyframe requests in the kf channel                        *)
  cache,     (* App.cache                                                  *)
  ingest,    (* the update guest_socket has cached and not yet published   *)
  stage,     (* where viewer_socket is                                     *)
  inbox,     (* the viewer's receiver on the frames channel                *)
  lagged,    (* will its next recv return Lagged?                          *)
  asking,    (* a keyframe request is under way from the browser           *)
  canvas,    (* what the browser shows                                     *)
  decoding,  (* the tiles it has received and not drawn, as they arrived   *)
  told,      (* history: the picture the guest has told the gateway        *)
  missed,    (* history: rows whose newest pixels the viewer never got     *)
  overdrawn  (* history: rows where an older tile is drawn after a newer   *)

guestVars == <<guest, prev, asks>>
gatewayVars == <<cache, ingest, told>>
pageVars == <<canvas, decoding, missed, overdrawn>>
viewerVars == <<stage, inbox, lagged, asking, pageVars>>
vars == <<guestVars, socket, listening, gatewayVars, viewerVars>>

Runs == {rows \in SUBSET Rows : \E lo, hi \in Rows : rows = lo..hi}
Region == UNION {[rows -> Pixel] : rows \in Runs}
Update == [keyframe : BOOLEAN, height : Heights, regions : Seq(Region)]
Canvas == {NoFrame} \cup UNION {[1..n -> Pixel \cup {Blank}] : n \in Heights}

TypeOK ==
  /\ prev \in Screens \cup {NoFrame}
  /\ guest \in {"down", "up"} /\ socket \in {"none", "open", "broken"}
  /\ listening \in BOOLEAN /\ asks \in 0..MaxAsks
  /\ ingest \in Seq(Update) /\ Len(ingest) <= 1
  /\ cache \in [height : Nat, regions : Seq(Region)] /\ Len(cache.regions) <= MaxRegions
  /\ stage \in [Viewer -> {"off", "subscribed", "on"}]
  /\ inbox \in [Viewer -> Seq(Update)] /\ \A v \in Viewer : Len(inbox[v]) <= Backlog
  /\ lagged \in [Viewer -> BOOLEAN] /\ asking \in [Viewer -> BOOLEAN]
  /\ canvas \in [Viewer -> Canvas] /\ told \in Canvas
  /\ decoding \in [Viewer -> Seq(Region)] /\ \A v \in Viewer : Len(decoding[v]) <= MaxDecoding
  /\ missed \in [Viewer -> SUBSET Rows] /\ overdrawn \in [Viewer -> SUBSET Rows]

Init ==
  /\ guest = "down" /\ prev = NoFrame /\ asks = 0
  /\ socket = "none" /\ listening = FALSE
  /\ cache = EmptyCache /\ ingest = <<>> /\ told = NoFrame
  /\ stage = [v \in Viewer |-> "off"] /\ inbox = [v \in Viewer |-> <<>>]
  /\ lagged = [v \in Viewer |-> FALSE] /\ asking = [v \in Viewer |-> FALSE]
  /\ canvas = [v \in Viewer |-> NoFrame] /\ decoding = [v \in Viewer |-> <<>>]
  /\ missed = [v \in Viewer |-> {}] /\ overdrawn = [v \in Viewer |-> {}]

-----------------------------------------------------------------------------
(* The guest's end                                                          *)
(* The slot must be free: the gateway answers 409 while it is taken.        *)
Dial ==
  /\ guest = "down" /\ socket = "none"
  /\ guest' = "up" /\ prev' = NoFrame /\ asks' = 0
  /\ socket' = "open" /\ listening' = TRUE
  /\ UNCHANGED <<gatewayVars, viewerVars>>

(* An update as guest_socket takes it: cached first, published later.       *)
Ingest(update) ==
  /\ cache' = Applied(cache, update)
  /\ told' = Shown(told, update)
  /\ ingest' = <<update>>

(* One turn of the loop in run: a keyframe request invalidates the encoder, *)
(* and an update without tiles is not sent.                                 *)
Stream ==
  /\ guest = "up" /\ ingest = <<>>
  /\ asks' = IF asks > 0 THEN asks - 1 ELSE 0
  /\ \E frame \in Screens :
       /\ prev' = frame
       /\ \E update \in Updates(IF asks > 0 THEN Invalidated ELSE prev, frame) :
            IF update.regions = <<>> THEN UNCHANGED gatewayVars ELSE Ingest(update)
  /\ UNCHANGED <<guest, socket, listening, viewerVars>>

(* run returns, and with it the writing half of the socket and the kf       *)
(* channel are dropped.                                                     *)
Return == guest' = "down" /\ prev' = NoFrame /\ asks' = 0

(* An error of the capture or the encoder: run returns past the abort of    *)
(* the input task, which goes on reading, so the socket stays open.         *)
CaptureFails ==
  /\ guest = "up" /\ Return
  /\ UNCHANGED <<socket, listening, gatewayVars, viewerVars>>

LinkBreaks ==
  /\ socket = "open" /\ socket' = "broken"
  /\ Return
  /\ UNCHANGED <<listening, gatewayVars, viewerVars>>

-----------------------------------------------------------------------------
(* The gateway                                                              *)
PumpEnds ==
  /\ listening /\ listening' = FALSE
  /\ UNCHANGED <<guestVars, socket, gatewayVars, viewerVars>>

Subscribed == {v \in Viewer : stage[v] # "off"}
Overrun(v) == Len(inbox[v]) = Backlog

(* A receiver Backlog behind loses the oldest update and learns of it at    *)
(* its next recv.                                                           *)
Publish ==
  /\ ingest # <<>> /\ ingest' = <<>>
  /\ inbox' = [v \in Viewer |->
       IF v \notin Subscribed THEN inbox[v]
       ELSE Append(IF Overrun(v) THEN Tail(inbox[v]) ELSE inbox[v], ingest[1])]
  /\ lagged' = [v \in Viewer |-> lagged[v] \/ (v \in Subscribed /\ Overrun(v))]
  /\ missed' = [v \in Viewer |->
       missed[v] \cup IF v \in Subscribed /\ Overrun(v) THEN RowsOf(inbox[v][1]) ELSE {}]
  /\ UNCHANGED <<guestVars, socket, listening, cache, told,
                 stage, asking, canvas, decoding, overdrawn>>

(* guest_socket leaves its loop and gives the slot back.                    *)
Detach ==
  /\ socket = "broken" /\ ingest = <<>>
  /\ socket' = "none" /\ listening' = FALSE
  /\ UNCHANGED <<guestVars, gatewayVars, viewerVars>>

(* A request reaches the guest's loop if the pump still writes and the loop *)
(* still runs; beyond the bound two requests count as one.                  *)
RequestKeyframe ==
  asks' = IF listening /\ guest = "up" /\ asks < MaxAsks THEN asks + 1 ELSE asks

-----------------------------------------------------------------------------
(* A viewer                                                                 *)
(* An update reaches the page, which resizes its canvas at once and leaves  *)
(* the tiles to be decoded. What is still being decoded for a canvas of     *)
(* another size is drawn on the new one.                                    *)
Resizes(v, update) == DOMAIN canvas[v] # 1..update.height

ReceiveUnlessBusy(v, update) ==
  IF decoding[v] # <<>> THEN UNCHANGED pageVars
  ELSE /\ canvas' = [canvas EXCEPT ![v] = Fitted(canvas[v], update.height)]
       /\ decoding' = [decoding EXCEPT ![v] = update.regions]
       /\ missed' = [missed EXCEPT ![v] = missed[v] \ RowsOf(update)]
       /\ overdrawn' = [overdrawn EXCEPT ![v] = overdrawn[v] \ RowsOf(update)]

Receive(v, update) ==
  /\ Len(decoding[v]) + Len(update.regions) <= MaxDecoding
  /\ canvas' = [canvas EXCEPT ![v] = Fitted(canvas[v], update.height)]
  /\ decoding' = [decoding EXCEPT ![v] = decoding[v] \o update.regions]
  /\ missed' = [missed EXCEPT ![v] = missed[v] \ RowsOf(update)]
  /\ overdrawn' = [overdrawn EXCEPT ![v] =
       (overdrawn[v] \cup IF Resizes(v, update) THEN RowsIn(decoding[v]) ELSE {}) \ RowsOf(update)]

(* A tile is decoded, and drawn.                                            *)
Draw(v) ==
  /\ \E i \in DOMAIN decoding[v] :
       /\ canvas' = [canvas EXCEPT ![v] = Painted(canvas[v], decoding[v][i])]
       /\ decoding' = [decoding EXCEPT ![v] = RemoveAt(decoding[v], i)]
       /\ overdrawn' = [overdrawn EXCEPT ![v] = overdrawn[v] \cup Overtaken(decoding[v], i)]
  /\ UNCHANGED <<guestVars, socket, listening, gatewayVars,
                 stage, inbox, lagged, asking, missed>>

Subscribe(v) ==
  /\ stage[v] = "off" /\ stage' = [stage EXCEPT ![v] = "subscribed"]
  /\ UNCHANGED <<guestVars, socket, listening, gatewayVars,
                 inbox, lagged, asking, pageVars>>

(* The bootstrap, or a request where nothing is cached; the page asks for a *)
(* keyframe of its own as soon as it is connected.                          *)
Join(v) ==
  /\ stage[v] = "subscribed" /\ stage' = [stage EXCEPT ![v] = "on"]
  /\ asking' = [asking EXCEPT ![v] = TRUE]
  /\ IF cache.regions = <<>>
     THEN RequestKeyframe /\ UNCHANGED pageVars
     ELSE Receive(v, Bootstrap(cache)) /\ UNCHANGED asks
  /\ UNCHANGED <<guest, prev, socket, listening, gatewayVars, inbox, lagged>>

Ask(v) ==
  /\ asking[v] /\ asking' = [asking EXCEPT ![v] = FALSE]
  /\ RequestKeyframe
  /\ UNCHANGED <<guest, prev, socket, listening, gatewayVars,
                 stage, inbox, lagged, pageVars>>

RelayLagSilently(v) ==
  /\ stage[v] = "on" /\ lagged[v]
  /\ lagged' = [lagged EXCEPT ![v] = FALSE]
  /\ UNCHANGED <<guestVars, socket, listening, gatewayVars, stage, inbox, asking, pageVars>>

RelayLagResubscribing(v) ==
  /\ stage[v] = "on" /\ lagged[v]
  /\ lagged' = [lagged EXCEPT ![v] = FALSE] /\ asking' = [asking EXCEPT ![v] = TRUE]
  /\ inbox' = [inbox EXCEPT ![v] = <<>>]
  /\ UNCHANGED <<guestVars, socket, listening, gatewayVars, stage, pageVars>>

(* recv returned Lagged: the page is told, and answers with a request.      *)
RelayLag(v) ==
  /\ stage[v] = "on" /\ lagged[v]
  /\ lagged' = [lagged EXCEPT ![v] = FALSE] /\ asking' = [asking EXCEPT ![v] = TRUE]
  /\ UNCHANGED <<guestVars, socket, listening, gatewayVars, stage, inbox, pageVars>>

Relay(v) ==
  /\ stage[v] = "on" /\ ~lagged[v] /\ inbox[v] # <<>>
  /\ Receive(v, Head(inbox[v]))
  /\ inbox' = [inbox EXCEPT ![v] = Tail(inbox[v])]
  /\ UNCHANGED <<guestVars, socket, listening, gatewayVars, stage, lagged, asking>>

(* The socket closes under the page: it keeps its canvas, draws what it is    *)
(* decoding, and connects again.                                            *)
Drop(v) ==
  /\ stage[v] # "off" /\ stage' = [stage EXCEPT ![v] = "off"]
  /\ inbox' = [inbox EXCEPT ![v] = <<>>] /\ lagged' = [lagged EXCEPT ![v] = FALSE]
  /\ asking' = [asking EXCEPT ![v] = FALSE]
  /\ missed' = [missed EXCEPT ![v] = Rows]
  /\ UNCHANGED <<guestVars, socket, listening, gatewayVars, canvas, decoding, overdrawn>>

Leave(v) ==
  /\ stage[v] # "off" /\ stage' = [stage EXCEPT ![v] = "off"]
  /\ inbox' = [inbox EXCEPT ![v] = <<>>] /\ lagged' = [lagged EXCEPT ![v] = FALSE]
  /\ asking' = [asking EXCEPT ![v] = FALSE] /\ canvas' = [canvas EXCEPT ![v] = NoFrame]
  /\ decoding' = [decoding EXCEPT ![v] = <<>>]
  /\ missed' = [missed EXCEPT ![v] = {}] /\ overdrawn' = [overdrawn EXCEPT ![v] = {}]
  /\ UNCHANGED <<guestVars, socket, listening, gatewayVars>>

-----------------------------------------------------------------------------
Serve(v) == Join(v) \/ Ask(v) \/ RelayLag(v) \/ Relay(v)

Next ==
  \/ Dial \/ Stream \/ CaptureFails \/ LinkBreaks
  \/ PumpEnds \/ Publish \/ Detach
  \/ \E v \in Viewer : Subscribe(v) \/ Serve(v) \/ Draw(v) \/ Drop(v) \/ Leave(v)

Spec == Init /\ [][Next]_vars

(* A turn of the loop that has something to do however still the desktop.   *)
Due == asks > 0 \/ prev = NoFrame

(* The tasks run: the guest redials and goes round its loop - which changes *)
(* nothing unless a capture is due or finds a change - and the gateway      *)
(* handles what arrives, a viewer's task and its page do their part. The    *)
(* relay's fairness is strong: Publish makes a lagging receiver's next recv *)
(* fail once more, but the keyframe a lag calls for takes a round trip over *)
(* two sockets and does not forever beat the task to its next recv. What is *)
(* decoded is drawn, in no order. The desktop, the network and the viewers  *)
(* may do as they like.                                                     *)
FairSpec ==
  /\ Spec
  /\ WF_vars(Dial) /\ WF_vars(Due /\ Stream)
  /\ WF_vars(Publish) /\ WF_vars(Detach)
  /\ \A v \in Viewer : WF_vars(Join(v)) /\ WF_vars(Ask(v)) /\ WF_vars(RelayLag(v))
                       /\ SF_vars(Relay(v)) /\ WF_vars(Draw(v))

-----------------------------------------------------------------------------
Agrees(picture, reference) ==
  \A r \in DOMAIN picture : picture[r] = Blank \/ (r \in DOMAIN reference /\ picture[r] = reference[r])

(* The encoder's reference frame is the picture its updates make up at the  *)
(* other end: a diff is never made against a frame the gateway does not     *)
(* have (encode, invalidate, and a new encoder per connection).             *)
ReferenceIsShared == prev # NoFrame => told = prev

(* A viewer bootstrapped from the cache never sees a patch of the past: the *)
(* regions drawn in the order they are kept show what the guest told last,  *)
(* though they overlap (TileCache::apply, keyframe).                        *)
CacheIsCurrent ==
  cache.regions # <<>> => Agrees(Shown(NoFrame, Bootstrap(cache)), told)

(* What a page shows, is decoding and has waiting for it adds up to what    *)
(* the guest has told. A row is off it for two reasons alone: a lag or a    *)
(* lost socket cost the page its newest pixels, or the page drew an older   *)
(* tile after a newer one (applyUpdate). Between the bootstrap and the      *)
(* channel nothing is lost, and the channel never turns updates round.      *)
Arrived(v) == FoldLeft(Painted, canvas[v], decoding[v])
Pending(v) == inbox[v] \o ingest

FollowsStream ==
  \A v \in Viewer : stage[v] = "on" =>
    LET coming == ShownAll(Arrived(v), Pending(v))
        lost   == (missed[v] \cup overdrawn[v])
                    \ UNION {RowsOf(Pending(v)[i]) : i \in DOMAIN Pending(v)}
    IN  \A r \in DOMAIN coming \ lost :
          coming[r] = Blank \/ (r \in DOMAIN told /\ coming[r] = told[r])

(* A desktop that holds still is seen: whatever changed, lagged or was      *)
(* dropped before, a viewer that stays while the stream runs and the pump   *)
(* writes ends up showing the screen, but for the rows where the page drew  *)
(* an older tile last.                                                      *)
Stays(v) == stage[v] = "on" /\ guest = "up" /\ listening

CatchesUp ==
  \A v \in Viewer :
    <>[]Stays(v) /\ <>[][FALSE]_prev
    => <>[](/\ DOMAIN canvas[v] = DOMAIN prev
            /\ \A r \in DOMAIN prev \ overdrawn[v] : canvas[v][r] = prev[r])

(* "a gateway restart should not leave a Desktop permanently unwatchable"   *)
(* (iapetusd/src/main.rs:194): whatever ended the stream, it comes back.    *)
StreamComesBack == guest = "down" ~> guest = "up"
=============================================================================
