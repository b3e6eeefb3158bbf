---------------------------- MODULE GatewayControl ----------------------------
(***************************************************************************)
(* The control plane of one Desktop inside iapetus-gateway/src/main.rs:    *)
(* the viewer sockets, the guest socket and the reaper timer, sharing one  *)
(* control lease, the to_guest channel and the control_events channel.     *)
(*                                                                         *)
(* Every task runs on its own; a step ends where the code releases the     *)
(* lease mutex or hands a message to a channel, so another task may come   *)
(* between a lease decision and the messages it causes. Clocks are left to *)
(* ControlLease.tla: here a writer lapses at any moment (WriteArbiter).    *)
(*                                                                         *)
(* Of the traffic to the guest the model keeps what the handover rules     *)
(* speak about: whose input has been queued since the last release_all.    *)
(* That a handler tells the viewers is a stage of it; what the event says  *)
(* is left out, as are `denied` events, the snapshot and keyframe requests.*)
(***************************************************************************)
EXTENDS FiniteSets, Naturals

CONSTANTS Viewer,        (* viewer sockets; the socket is its lease session  *)
          Writers,       (* those whose token resolves to Control::Write     *)
          Guest,         (* connections to /ingest                           *)
          GuestSession,  (* "guest:agent", shared by all guest connections   *)
          NoSession,
          Reaper         (* the one-second timer task                        *)

ASSUME TaskAssumption ==
  /\ Writers \subseteq Viewer
  /\ Viewer \cap Guest = {}
  /\ {GuestSession, NoSession} \cap (Viewer \cup Guest) = {}
  /\ GuestSession # NoSession
  /\ Reaper \notin Viewer \cup Guest

Session == Viewer \cup {GuestSession}
Task == Viewer \cup Guest \cup {Reaper}

VARIABLES writer, kind, lapsed,  (* App.lease                                *)
          stage,      (* where each task is in its handler                   *)
          closing,    (* tasks whose socket has ended                        *)
          claimed,    (* App.guest_attached                                  *)
          listening,  (* does to_guest have a receiver (the guest's pump)?   *)
          held,       (* sessions with input queued since the last release_all *)
          stray       (* inputs each viewer got through since losing the lease *)

leaseVars == <<writer, kind, lapsed>>
taskVars == <<stage, closing, claimed>>
channelVars == <<listening, held, stray>>
vars == <<leaseVars, taskVars, channelVars>>

Lease == INSTANCE WriteArbiter

Stage == {"new", "idle", "checked", "marked", "clear", "tell", "gone",
          "out", "upgrading", "subscribed", "leaving", "unslot"}

TypeOK ==
  /\ Lease!TypeOK
  /\ stage \in [Task -> Stage]
  /\ closing \subseteq Viewer \cup Guest
  /\ claimed \in BOOLEAN /\ listening \in BOOLEAN
  /\ held \subseteq Viewer
  /\ stray \in [Viewer -> 0..2]

Init ==
  /\ Lease!Init
  /\ stage = [t \in Task |-> IF t \in Viewer THEN "new" ELSE IF t \in Guest THEN "out" ELSE "idle"]
  /\ closing = {}
  /\ claimed = FALSE /\ listening = FALSE
  /\ held = {}
  /\ stray = [v \in Viewer |-> 0]

Goto(t, s) == stage' = [stage EXCEPT ![t] = s]

(* to_guest.send of a release_all: lost when nobody is subscribed.          *)
QueueReleaseAll == held' = IF listening THEN {} ELSE held

-----------------------------------------------------------------------------
AfterBroadcastResume(t) == "idle"
AfterBroadcast(t) ==
  IF t \notin closing THEN "idle" ELSE IF t \in Guest THEN "unslot" ELSE "gone"

(* broadcast_control, and what the handler does after it.                   *)
Tell(t) ==
  /\ stage[t] = "tell" /\ Goto(t, AfterBroadcast(t))
  /\ UNCHANGED <<leaseVars, closing, claimed, channelVars>>

(* The release_all that follows a preemption, a release or a reaping.       *)
SendReleaseAll(t) ==
  /\ stage[t] = "clear" /\ Goto(t, "tell")
  /\ QueueReleaseAll
  /\ UNCHANGED <<leaseVars, closing, claimed, listening, stray>>

Broadcast(t) == SendReleaseAll(t) \/ Tell(t)

-----------------------------------------------------------------------------
(* viewer_socket                                                            *)
OpenViewer(v) ==
  /\ stage[v] = "new" /\ Goto(v, "idle")
  /\ UNCHANGED <<leaseVars, closing, claimed, channelVars>>

(* handle_acquire. A read-only token, or a refusal, only answers `denied`.  *)
AcquireAnyLevel(v) ==
  /\ stage[v] = "idle"
  /\ \/ Lease!Preempt(v) /\ Goto(v, "clear")
     \/ (Lease!Grant(v, "human") \/ Lease!KeepOwn(v)) /\ Goto(v, "tell")
  /\ stray' = [stray EXCEPT ![v] = 0]
  /\ UNCHANGED <<closing, claimed, listening, held>>

Acquire(v) == v \in Writers /\ AcquireAnyLevel(v)

(* handle_release                                                           *)
Relinquish(v) ==
  /\ stage[v] = "idle" /\ Lease!Release(v) /\ Goto(v, "clear")
  /\ UNCHANGED <<closing, claimed, channelVars>>

(* Input: holds_write, mark_input and the send are three separate steps. A  *)
(* viewer that fails the check has its message dropped.                     *)
Pass(v) ==
  /\ stage[v] = "idle" /\ Goto(v, "checked")
  /\ UNCHANGED <<leaseVars, closing, claimed, channelVars>>

CheckToken(v) == v \in Writers /\ Pass(v)
CheckInput(v) == writer = v /\ Pass(v)

MarkInput(v) ==
  /\ stage[v] = "checked" /\ Goto(v, "marked")
  /\ Lease!Renew(v) \/ (writer # v /\ UNCHANGED leaseVars)
  /\ UNCHANGED <<closing, claimed, channelVars>>

Forward(v, author) ==
  /\ stage[v] = "marked" /\ Goto(v, "idle")
  /\ held' = IF listening THEN held \cup {author} ELSE held
  /\ stray' = IF writer # v /\ stray[v] < 2 THEN [stray EXCEPT ![v] = @ + 1] ELSE stray
  /\ UNCHANGED <<leaseVars, closing, claimed, listening>>

SendInputAsHolder(v) == Forward(v, writer)
SendInput(v) == Forward(v, v)

(* The tab closes: the lease is freed and release_all sent under one lock,  *)
(* and the holder is broadcast whether or not it changed.                   *)
CloseKeepingLease(v) ==
  /\ stage[v] = "idle" /\ Goto(v, "tell")
  /\ closing' = closing \cup {v}
  /\ UNCHANGED <<leaseVars, claimed, channelVars>>

CloseViewer(v) ==
  /\ stage[v] = "idle" /\ Goto(v, "tell")
  /\ closing' = closing \cup {v}
  /\ \/ Lease!Release(v) /\ QueueReleaseAll
     \/ writer # v /\ UNCHANGED <<leaseVars, held>>
  /\ UNCHANGED <<claimed, listening, stray>>

ViewerStep(v) ==
  \/ OpenViewer(v) \/ Acquire(v) \/ Relinquish(v) \/ CloseViewer(v)
  \/ CheckInput(v) \/ MarkInput(v) \/ SendInput(v)

-----------------------------------------------------------------------------
(* ingest_ws and guest_socket                                               *)
TryClaimGuest == ~claimed /\ claimed' = TRUE
ReleaseGuest == claimed' = FALSE

ClaimSlot(g) ==
  /\ stage[g] = "out" /\ TryClaimGuest /\ Goto(g, "upgrading")
  /\ UNCHANGED <<leaseVars, closing, channelVars>>

Subscribe(g) ==
  /\ stage[g] = "upgrading" /\ Goto(g, "subscribed")
  /\ listening' = TRUE
  /\ UNCHANGED <<leaseVars, closing, claimed, held, stray>>

(* The result of acquire is ignored: a guest that finds a human holding the *)
(* lease attaches all the same.                                             *)
AttachGuest(g) ==
  /\ stage[g] = "subscribed" /\ Goto(g, "tell")
  /\ \/ Lease!Grant(GuestSession, "agent")
     \/ Lease!KeepOwn(GuestSession)
     \/ Lease!Refuse(GuestSession, "agent")
  /\ UNCHANGED <<closing, claimed, channelVars>>

(* The pump ends for good on a failed write, and when its receiver lagged.  *)
PumpEnds ==
  /\ listening /\ \E g \in Guest : stage[g] = "idle"
  /\ listening' = FALSE
  /\ UNCHANGED <<leaseVars, taskVars, held, stray>>

GuestHangsUp(g) ==
  /\ stage[g] = "idle" /\ Goto(g, "leaving")
  /\ listening' = FALSE
  /\ closing' = closing \cup {g}
  /\ UNCHANGED <<leaseVars, claimed, held, stray>>

(* No release_all here: the guest is taken to have released its keys.       *)
LeaveLease(g) ==
  /\ stage[g] = "leaving" /\ Goto(g, "tell")
  /\ Lease!Release(GuestSession) \/ (writer # GuestSession /\ UNCHANGED leaseVars)
  /\ UNCHANGED <<closing, channelVars>>

DetachAndFree(g) == LeaveLease(g) /\ ReleaseGuest
DetachGuest(g) == LeaveLease(g) /\ UNCHANGED claimed

FreeSlot(g) ==
  /\ stage[g] = "unslot" /\ Goto(g, "out")
  /\ ReleaseGuest
  /\ closing' = closing \ {g}
  /\ UNCHANGED <<leaseVars, channelVars>>

GuestStep(g) ==
  ClaimSlot(g) \/ Subscribe(g) \/ AttachGuest(g) \/ GuestHangsUp(g) \/ DetachGuest(g) \/ FreeSlot(g)

-----------------------------------------------------------------------------
(* reap_lease, on the timer                                                 *)
Reap ==
  /\ stage[Reaper] = "idle" /\ Lease!Reclaim /\ Goto(Reaper, "clear")
  /\ UNCHANGED <<closing, claimed, channelVars>>

LapseWriter == Lease!Lapse /\ UNCHANGED <<taskVars, channelVars>>

Next ==
  \/ \E v \in Viewer : ViewerStep(v)
  \/ \E g \in Guest : GuestStep(g)
  \/ \E t \in Task : Broadcast(t)
  \/ PumpEnds \/ Reap \/ LapseWriter

Spec == Init /\ [][Next]_vars

(* Every spawned task runs: a handler that has begun finishes, and the      *)
(* reaper fires. Nothing obliges a user, a guest or a clock to act.         *)
FairSpec ==
  /\ Spec
  /\ \A t \in Task : WF_vars(Broadcast(t))
  /\ \A v \in Viewer : WF_vars(MarkInput(v) \/ SendInput(v))
  /\ \A g \in Guest : WF_vars(Subscribe(g) \/ AttachGuest(g) \/ DetachGuest(g) \/ FreeSlot(g))
  /\ WF_vars(Reap)

-----------------------------------------------------------------------------
(* The lease is never left with someone who is not there: a viewer holds it *)
(* only while its socket is open, the guest session only while a guest      *)
(* connection is attached, however teardown interleaves with acquires.      *)
HolderIsPresent ==
  /\ \A v \in Viewer : writer = v => stage[v] \notin {"new", "gone"} /\ v \notin closing
  /\ writer = GuestSession =>
       \E g \in Guest : stage[g] \in {"tell", "idle", "leaving"}

(* One Desktop, one stream: between its claim and the end of its teardown a *)
(* guest connection is alone, so the release and the events of an old       *)
(* connection can never hit the lease of the next one.                      *)
OneGuest ==
  /\ \A g, h \in Guest : stage[g] # "out" /\ stage[h] # "out" => g = h
  /\ claimed <=> \E g \in Guest : stage[g] # "out"

(* A read-only token moves nothing: it never becomes the writer and none of *)
(* its input is ever queued for the guest.                                  *)
ReadersNeverDrive == writer \notin Viewer \ Writers /\ held \subseteq Writers

(* The check and the send are not atomic, so a viewer that loses the lease  *)
(* may still get input through - but one message at most, the one its       *)
(* handler had already let pass.                                            *)
OneStrayInput == \A v \in Viewer : stray[v] <= 1

(* Handover resets input state: input of two sessions never reaches the     *)
(* guest without a release_all in between.                                  *)
CleanHandover == Cardinality(held) <= 1

(* Whoever leaves is seen to leave: a viewer or a guest that hangs up while *)
(* holding the lease frees it, and in the end the slot as well.             *)
LeaversLeave ==
  /\ \A v \in Viewer : v \in closing ~> stage[v] = "gone"
  /\ \A g \in Guest : g \in closing ~> stage[g] = "out"
=============================================================================
