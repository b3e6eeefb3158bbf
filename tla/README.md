# A TLA+ development of iapetus

iapetus gives an AI agent and its human supervisors one remote desktop to
operate. This directory holds TLA+ modules that model its control logic, the TLC
configurations that check them on small instances, and TLAPS proofs of the
properties that matter most. Every definition is translated from the Rust
sources; `PROJECT.json` maps each to the lines it stands for.

1. [The system](#1-the-system) – components, state, interactions, what is hard
2. [The modules](#2-the-modules) – what models what, and how
3. [The runs](#3-the-runs) – what TLC checks, bounds, fairness
4. [The proofs](#4-the-proofs)
5. [Divergences found](#5-divergences-found)
6. [What is not modelled](#6-what-is-not-modelled)
7. [Plan](#7-plan)

## 1. The system

    agent ──HTTP──▶ ┌──────────────┐ ◀──WebSocket── viewer tab (viewer.html)
                    │   gateway    │ ◀──WebSocket── viewer tab
    Control Plane   └──────▲───────┘
       │   (tokens)        │ /ingest: screen updates up; input, release_all,
       │                   │          keyframe requests, agent actions down
       │ gRPC stream  ┌────┴──────┐
       └─────────────▶│ iapetusd  │  ── X11: capture, keyboard, pointer
                      └───────────┘

| Component | Source | State it keeps | Operations |
|---|---|---|---|
| Control lease | `iapetus-proto/src/lease.rs` | the one holder of WRITE with its three timestamps | acquire, mark_input, heartbeat, release, reap |
| Gateway, control half | `iapetus-gateway/src/main.rs` | the lease, the guest slot, the `to_guest` and `control_events` broadcast channels, one task per socket, the reaper timer | ingest_ws/guest_socket, view_ws/viewer_socket, handle_acquire, handle_release, reap_lease, broadcast_control |
| Gateway, action half | same | `pending`: action id to oneshot, the id counter | `POST /v1/action`, result matching in guest_socket |
| Gateway, screen half | same | `TileCache`, the `frames` broadcast channel | apply, keyframe, viewer bootstrap, lag notice |
| Guest channel | `iapetusd/src/channel.rs`, `main.rs` | the session, a queue of 8, the clock gate, a worker, back-off | run_forever, connect_and_run, run_session, SIGTERM |
| Action dispatch | `iapetusd/src/dispatch.rs` | last_input_at, clock offset | execute, execute_batch, wait_for, release_all |
| Frame source | `iapetusd/src/frame.rs` | the latest whole-screen frame | capture_now, capture_after |
| X11 drivers | `iapetusd/src/platform/x11.rs` | held keys and buttons; the scratch keycode | click, key, key_down/up, type_text, release_all, capture |
| Viewer link | `iapetusd/src/viewer_link.rs` | tile encoder, reply and keyframe channels | run: capture loop and input task |
| Screen encoder | `iapetusd/src/stream.rs` | previous frame, sequence number | encode, invalidate |
| Processes | `iapetusd/src/platform/unix.rs` | per call a child, two pipes and two reader threads; the process table is the system's | run (shell.exec, app.install), launch (app.launch) |
| Tokens | `iapetus-auth`, `iapetus-controlplane` | signing key, revocation list, jti counter; two wall clocks | issue, refresh, revoke, verify, restart |
| Viewer page | `iapetus-gateway/src/viewer.html` | own session, pending acquire, canvas | acquire, release, draw |

How they interact. Viewers send `acquire`, `release` and input to the gateway
over their sockets; each socket is a task and shares the lease through a mutex
with the others, the guest's socket task and a one-second reaper. What a lease
change causes - a `release_all` to the guest, a `control` event to the viewers -
goes through broadcast channels after the mutex has been released. The guest's
daemon either dials the gateway (`--stream`), taking input and pushing tiles, or
the Control Plane (`--connect`), executing requests in arrival order from a
bounded queue; `--stream` and `--connect` are processes of their own. Both end in
the same Dispatcher, whose calls run on a blocking pool and share the X11 drivers,
the frame cache and the process driver. An agent's `POST /v1/action` goes down
the viewers' way to the guest and its answer comes back between screen updates,
matched by id. Whoever connects to the gateway shows a token the Control Plane
signed; the two processes share nothing but a public key.

What is hard here, and what makes each part correct:

* **Lease**: three kinds of timeouts and preemptions meet in one record. Only a
  human may displace a live holder, and only an agent; nobody loses a live lease
  silently; an agent that is alive never idles out; a lapsed holder is reclaimed.
* **Gateway**: the lease is taken and released in one step, its consequences
  come later. The lease must not stay with somebody who has left; a reader never
  drives; the loser's input stops; input state is clean at handover; viewers are
  told of every change.
* **Agent actions**: a reply, a timeout, a client that hangs up, a guest that
  redials and a full reply channel race. An action is taken up at most once and
  never after a refusal; a caller gets one outcome, never another's result, and
  gets one; no entry of `pending` outlives its request but where nobody can tell.
* **Screen**: diffs against a reference nobody sees, a cache of overlapping
  regions, a channel that drops the oldest update, redials, a page that decodes
  tiles at its own pace. The reference is what the other end has; a bootstrap never
  lists an older region after a newer one; a viewer misses nothing but what a lag or
  a late tile costs it, and catches up with the rest.
* **Guest channel**: three concurrent parts, errors anywhere, reconnects. Actions
  in arrival order, at most once; nothing before the clock is known; nothing of
  an old connection on a new one; late answers dropped; never stuck.
* **Dispatch, frames, input**: threads over one keyboard and one frame cache.
  What is down is known to be down, failed calls included, but for two ways out
  that are named; the scratch keycode is given back; a screenshot is stamped no
  earlier than the end of input it was measured by.
* **Processes**: a timeout kills a process group by number while numbers are
  handed out again; readers are joined without a deadline. The kill hits nobody
  else; the answer says truthfully what is missing and what was stopped; a call
  returns unless a process out of its reach keeps its pipe; nobody stays a zombie.
* **Tokens**: chains of refreshes, restarts with other keys, clocks apart. No
  chain gives more or lasts longer than its first token; what is reported revoked
  is what was revoked, restarts apart.

The hazards behind these, each with its source line, are in `PROJECT.json`.

## 2. The modules

| Module | Models | Depends on |
|---|---|---|
| `WriteArbiter` | what the lease promises, without clocks: the abstract specification | – |
| `ControlLease` | `lease.rs`, all of it, with a clock | refines `WriteArbiter` |
| `GatewayLease` | the calls the gateway makes on the lease, with the clock | extends `ControlLease` |
| `GatewayControl` | viewer sockets, guest socket, reaper, `to_guest` | uses `WriteArbiter`'s actions for the lease |
| `ActionService` | what `POST /v1/action` promises its caller: the abstract specification | – |
| `GatewayActions` | the handler, `pending`, the way to the guest and back, `viewer_link.rs`' input task and reply channel | refines `ActionService` |
| `GuestChannel` | `channel.rs` and SIGTERM: connection, read loop, heartbeats, queue, gate, worker, blocking pool | – |
| `X11Input` | keyboard and pointer injection: driver calls as steps | – |
| `FrameSource` | `frame.rs` over the X11 capture | – |
| `Dispatcher` | `dispatch.rs`: actions over the two | extends `X11Input`, `FrameSource` |
| `ShellRun` | `unix.rs`: run and launch over a process table | – |
| `TileStream` | encoder (`stream.rs`), `TileCache`, what drawing an update does to a canvas: pure operators | – |
| `Screen` | `viewer_link.rs`' capture loop, the gateway's ingest and frames channel, the viewer's receiver, and the canvas of its page | extends `TileStream` |
| `Tokens` | the Control Plane's token service, `auth::verify`, the gateway's admission | – |
| `MC*` | constants' values, symmetry and state constraints for TLC | |
| `*_proofs` | theorems about the module they are named after | |

**ControlLease.** One action per operation and per outcome of `acquire`; `now` is
a variable since callers pass it in. `reply` is what the last call returned, so
that "the caller was told" can be said. `acquire` reaps first: `LiveHolder` is
the holder after that, and a lapsed holder's `Revoked` is dropped as in the code.
Calls that change nothing and return nothing are stuttering. Timestamps are
counted in units the configuration chooses; the code only ever compares
differences, and a u64 of milliseconds does not overflow. The actor's id and the
retry hint decide nothing and are left out.

**GatewayControl.** A task's place in its handler is `stage[t]`; an action ends
where the code releases the lease mutex or sends to a channel. So `acquire` ends
at stage "clear" (a release_all is due) or "tell" (a broadcast is due). That the
handler broadcasts is a stage; what the event says is left out. Clocks are reduced to
`lapsed`, as `WriteArbiter` has it: `ControlLease` implements that specification,
so everything that holds here of a lease that lapses at any moment holds of the
one with the clocks. Of the traffic to the guest the model keeps whose input was
queued since the last release_all (`held`). Two variables exist for the
properties: `held` and `stray`. A guest's pump may stop at any moment (a failed
write, a lagged receiver) and never restarts, as in the code.

**ActionService, GatewayActions.** A request is somewhere in its handler
(`stage`) and its action somewhere on the way (`place`), on one of the guest's
connections (`via`); each queue on the way is first in first out, which one
number per request (`turn`) says for all of them. The three things a handler does
with `pending` are steps of their own, because the lock is released between them,
and so are the expiry of the timeout and the removal that follows it. `ClientLeaves`
is axum dropping the handler's future: nothing removes the entry. `pump` is the
task that writes to the guest and may stop while the guest stays (`PumpEnds`).
A socket that breaks still yields a prefix in each direction. At the guest, one
message is handled at a time; the reply channel has room for `ReplyCap` and is
drained after a capture; `LoopEnds` has the three ways out of the capture loop, of
which two pass by the abort of the input task. What a body says decides only
whether the gateway (400) or the guest rejects it, so any request may meet either.
The refinement maps the eight stages to the six things a client can know.

**GuestChannel.** The Control Plane and the network are an environment that may put
any frame on the wire, end the stream cleanly or break it (losing a suffix) and stop
reading. A request in `Command` is a command, which may never return. `phase`
follows run_forever, from connecting (`Configure`, or `Misconfigured` where no retry
helps) through run_session to the wait before the next dial; `waiting` is the
request whose `queue_tx.send` has not returned; `worker` is where the worker task
is; `running` are the actions in `spawn_blocking`, which an aborted worker leaves
behind; the heartbeat task is started and aborted with the session. `Terminate` is
SIGTERM: main drops run_forever at whatever await it is in, which detaches the
heartbeat task and the worker: they go on (`outOpen`, `beating`) until `DropRuntime`
ends the tasks at their next await and waits for what runs in the blocking pool;
then the process exits. Deadlines are a set of requests that have become late at
some moment after they were read. The HTTP handshake, TLS, Hello contents and
back-off delays are left out: they only decide when, not what.

**X11Input, FrameSource, Dispatcher.** A driver call is a sequence of steps
(press, lift, note in the held list, forget, drain, bind and restore of the
scratch keycode) and threads interleave between steps: each fake event and each
lock of a held list is one. `bound` says whether the scratch keycode has a
character; all threads share it. Threads may be on any keys, the same ones
included. `escaped` is history: what a call left down and forgot, which happens in
two ways (a combo that met a modifier it does not know; a release forgotten after
another thread's press), until it is lifted or noted again. Both are divergences
(section 5) and the exceptions in `NothingUntracked`. Frames carry times of a clock
(`now`) that runs freely and need not move between two steps. A capture reads its
pixels in one step and stamps them in a later one; the end of an input is taken in
one step (`TakeTime`) and stored under the lock in another (`MarkInput`), and
other threads act in between. `Locked` is the lock on `last_input_at` that
`match *self.last_input_at.lock().unwrap()` holds for the whole capture. Actions
are kept as the driver calls they make; those that make none (launch, install,
shell) are the empty sequence followed by `mark_input`.

**ShellRun.** Programs are an environment: they fork, with or without sudo and
with some of their output redirected, leave their session, write, and end. A
pid is free when no process and no group has it, as POSIX has it, and is handed
out again at once. `run` is its loop (`polling`, `checking`, `killed`,
`ended`/`stopped`), its two readers, which stop for good at the hard ceiling, and
the join and cut at the end. The daemon may not signal what runs as root, since
images/linux-base makes it an ordinary user with sudo.

**Tokens.** A token is its claims and the key it is signed with; a signature
verifies under that key alone. Both wall clocks run, at most `Drift` apart. A
restart may bring another key and forgets the revocation list and the counter, which
are in memory only; the jtis start over while tokens of earlier runs are still
valid. Two things exist for the properties: `revocations`, every revocation ever
made with the run it was made in, which no restart empties, and each token's
`origin`, what its chain of refreshes began with.

**TileStream, Screen.** The screen is a column of rows that change as one, a region
a run of rows with its pixels; coalescing into a bounding box and cutting into
bands, one per encoding thread (`Threads`), keep their rules, JPEG is the identity
on what is compared (quality is constant, and nothing compares decoded pixels). A
capture may happen at any time and find any screen: damage, the frame interval and
the two-second resync decide only when. `prev` is the encoder's reference, `ingest`
the update that is cached and not yet published, `inbox` the viewer's receiver with
capacity `Backlog`. `socket` is the gateway's slot and what its connection is: after
an error return of `run` it stays open because the detached input task holds it. The
page is viewer.html as it runs: its handler is not awaited, so `Receive` resizes the
canvas at once and leaves every region of the update in `decoding`, and `Draw` puts
any one of those on the canvas, in any order and whatever else has been received
since. A dropped socket leaves the page its canvas; a closed tab does not. Three
variables are history: `told` is the picture the updates make up, `missed` the rows
whose newest pixels a viewer lost to a lag or a dropped socket, `overdrawn` the rows
on which an older tile was drawn over a newer one.

## 3. The runs

Passing runs:

| Run | Question | Instance |
|---|---|---|
| `control_lease` | arbitration, timeouts and reporting; does the lease implement the clockless arbiter, liveness included? | 3 sessions, intervals {1,2}, 3 missed, idle gap 5, clock to 9 |
| `gateway_control` | presence, exclusivity of the guest slot, read-only tokens, stray input; is whoever hangs up gone in the end? | 2 writers, 1 reader, 2 guests |
| `agent_actions` | does the action path implement the service, its one outcome per request included? what stays in `pending`? do replies leave the guest? | 2 requests, 2 connections, reply channel of 1 |
| `guest_channel` | order, gate, deadlines, aborts, SIGTERM; is an ended stream left? | 5 requests (one without an action, one with a deadline, one a command), queue of 2, one frame on the wire, 2 connections |
| `dispatcher` | held keys, the scratch keycode, screenshots | 2 executing threads on the same two keys, button and scratch keycode, and the streamer, all capturing; clock to 3 |
| `shell_run` | whom does a kill hit, is the answer true, do calls return, are zombies reaped? | 1 shell call, 1 launch, 2 pids, cap 1, ceiling 2, pipe 2, 3 units written |
| `screen` | encoder reference, cache, bootstrap; does a page follow the stream through lags, drops, joins and late tiles, and catch up? | screens of 1 and 2 rows, 2 pixel values, 2 encoding threads, 1 viewer, cache of 2 regions, channel of 1, 2 tiles under way (3 of a screen of one row), 1 keyframe request under way |
| `tokens` | caps over chains, restarts and two clocks; what is_revoked knows of all that was ever revoked | caps 3 and 2, lifetimes 2 and 1, revocations 1, drift 1, clocks to 5 (to 3 once something was revoked), 3 tokens, 3 revocations, 1 restart, 2 keys |

Violation runs (`handover_race`, `human_idle`, `gate_jam`, `stream_orphan`) each
check the one property quoted in section 5.

Why the bounds suffice. Lease: two contenders and the holder are all the arbitration
table distinguishes; the clock passes both timeouts at least once, with intervals
for which a silent holder expires before the idle gap (3 units) and after it (6
units). Gateway: a handover needs two viewers, a reconnect race two guest
connections, an observer one reader. Actions: two requests are enough for one's
reply to reach the other, for a reply channel of one to be full, and for the second
to be sent on the next connection while the first is still executing on the last.
Channel: one request at the gate, two queued and one waiting fill every place a
request can be; the fifth lets the stream refuse one past them. A wire of one frame
only limits how far the Control Plane runs ahead. Dispatcher: a chord needs two keys
and a race for a key two threads on the same one; a stale cache needs an executing
thread and a capturing one, and ends stored out of order two executing ones. Keys
and frames share no state, so `KeysOrFrames` cuts the states in which both are in
use: while keys are nothing captures and the clock stands, while frames are captured
actions make no driver call. The clock is SystemTime, assumed not to be set back;
two steps may fall on the same instant, and the comparisons of the code are
translated with their `>=`. Processes: two pids are the least with which a shell has
a child, and a pid is used again by the other call while the first call still knows
it; the ceiling is above the cap and below what may be written, so output is cut by
either. Screen: two rows give a region that covers, one that is covered and one that
overlaps without covering, and with the second screen size a resize; a cache of two
overflows on the third region and a channel of one lags on the second update. As
long as nobody watches, any screen may be captured. Once somebody does, `Followed`
cuts the states in which a row but the first changes its pixels (such a row is still
told from a blank one, so that a lost one shows) and those in which more than two
tiles are decoding or waiting for the page, three where all there is is one row
high: two are the least with which tiles pass each other or a channel of one lags,
three let a late one be overdrawn in turn. What is cut is how far a page may fall
behind, and `CatchesUp` is checked of the behaviours that stay within; no symmetry
is used there. Viewers do not affect each other except by asking for keyframes,
which a single viewer also does when it connects. Tokens: three tokens are a chain
of two refreshes, past the smaller cap with the shorter lifetime, or a chain and a
token issued beside it; the clocks pass both caps. One restart gives two runs with
the same jtis; three revocations are two of one token, of which the later counts,
and one of another with its jti. No cap asks what was revoked, and is_revoked asks
neither the gateway's clock nor who signed a token, so `CapsOrRevocations` keeps the
clocks shorter and the key the same once something was revoked. The one symmetry is
that of the two executing threads in `dispatcher`.

Fairness. `ControlLease`: the reaper only - the gateway runs it on a timer no
request can hold up. `GatewayControl`: spawned tasks run, so a handler that has
begun goes on, and the reaper fires; users, guests and clocks are not obliged to
anything. `GatewayActions`: handlers, the gateway's read loop and the guest's tasks
run, driver calls return, the timer of the timeout fires, and a capture is never
more than the resync's two seconds away; clients, redials and the network are free.
That driver calls return is needed for `RepliesLeave` from "running" on: a
shell.exec need not (`Held`), and then its reply does not come either; the caller's
one outcome rests on the timer alone. `GuestChannel`: the runtime polls the reader
and the worker when they can go on, the handshake is timed out, and driver calls
return but for those in `Command`; nothing is assumed of the Control Plane except
that the outgoing stream either drains or closes. `EndedStreamIsLeft` says what is
left of the promise: the stream is left, and a stopped daemon exits, unless the
worker is held at the gate with the queue full or waits for a command that has not
returned. `Screen`: the guest's loop (where a keyframe is due; a still desktop gives
it nothing to send), the gateway's tasks and the page run; relaying is strongly
fair, because every publication can make a lagging receiver's next recv fail again
and the keyframe a lag calls for takes a round trip over two sockets, which does not
forever beat the task to its next recv; what is decoded is drawn, in no order
(`Draw`); the desktop, the network and the viewers are free. `CatchesUp` therefore
speaks of a desktop that holds still and a viewer, a stream and a pump that stay,
and of the rows that no older tile was drawn over, which need not recover.
`ShellRun`: the daemon's threads go on and time passes; programs may sit still for
ever, which is what `CallsReturn` is about. `Tokens` and `Dispatcher` have no
fairness: nothing in them has to happen. `CHECK_DEADLOCK FALSE` is set where the
system may stop: the channel after a shutdown or an exit, requests and calls that
are all done (`agent_actions`, `shell_run`), and configurations whose bounded clock,
tokens or connections run out (the runs of `Tokens` and `Screen`, `human_idle`,
`gate_jam`).

Every property of a passing run has a mutant in `PROJECT.json`: a plausible bug
in one mapped definition under which TLC finds the property violated. The mutated
forms stand next to the definitions they replace (`...Anyway`, `...Silently`,
`...Unnoted`, `...Sweeping` and so on) and are used by no specification.

## 4. The proofs

Every theorem is proved for any sets of sessions, viewers, requests, threads, pids
or keys and any bounds, under the assumptions the modules state about their
constants (model values are distinct, capacities and lifetimes are positive).
Eight modules hold them; in each, an inductive invariant is named in parts, one
lemma per action or per conjunct shows that the steps preserve it, and the
theorems follow from it.

`ControlLease_proofs`: `TypeOK`, `ClockOrder`, `OneWayPreemption`,
`LossIsReported`, `AgentNeverIdlesOut`, and that the lease implements the safety
part of `WriteArbiter`. The inductive invariant is `TypeOK` with `ClockOrder`:
the action properties need the typing (a holder is a record whose session is not
`NoSession`), and the refinement needs `ClockOrder` so that a fresh or renewed
holder is seen not to be lapsed - which also uses that intervals, the missed
count and the idle gap are positive (`IntervalAssumption`, `LimitsAssumption`).
The three action properties share the lemma that a step that takes a live lease
is a release by its holder or a preemption.

`GatewayControl_proofs`: `TypeOK`, `HolderIsPresent`, `OneGuest`,
`ReadersNeverDrive` and `OneStrayInput`. None is inductive alone. The invariant
adds where each kind of task may be (a viewer is never at a guest's stage and so
on), that a closing task is on its way out, that the slot is claimed exactly while
one connection is in it, and that a viewer between its check and its send has at
most a stray input still to come while one that has lost the lease and is idle has
none.

`GatewayActions_proofs`: `TypeOK`, `NothingLeftBehind`, and that the action path
implements the safety part of `ActionService`. The invariant says that ids are
their requests' own (`IdsAreOwn`), that an entry of `pending` is the entry of
exactly the request with its id (`EntriesAreOwn`), and at which places an action
may be at each stage of its handler (`Placed`); the refinement then maps every
step to a step or a stutter. The set of requests is assumed finite, so that there
is a highest id and a next turn.

`GuestChannel_proofs`: the five safety properties of its run and `TypeOK`. The
invariant is about a line: the wire, the waiting request, the queue, the one the
worker holds, those begun and those told are sets of requests, each wholly before
the next, each sorted, all of the connection that is open or of earlier ones; and
the gate is shut until a heartbeat of this session (`GateShut`). An abort or a
redial empties some of the places and never moves a request back. `LateIsDropped`
says of both ends that a request past its deadline before it began is not begun
and one past it before its answer is not answered; `OrphanedByAbortOnly` that
an execution is left without a worker by an abort or SIGTERM only, and that
heartbeats are sent in a session that is read or by a daemon being terminated.

`Dispatcher_proofs`: `TypeOK`, `NothingUntracked`, `ShotIsWhatWasAsked` and
`ShotIsStampedFresh`. For frames, what a capture under way holds is whole or a
region as its caller asked, and no time taken lies in the future: not a stamp, an
end taken and not yet stored, nor `last_input_at`; so what a screenshot reads and
stamps under the lock is no older than that (`FrameInv`, of `Clocked` and `Fresh`).
For keys (`KeyInv`), what an actor still has to do is shaped: a press is followed by
the note or the lift of each of its keys, a bind of the scratch keycode by its
restore, and a forget comes after the lift of what it forgets; so whatever an actor
stops at - and any call may fail - what is down is known, or is in `escaped`, into
which only the two named ways lead. Nothing is assumed of which thread uses which
key.

`ShellRun_proofs`: `TypeOK`, `AnswerIsHonest` and `KillsItsOwn`. A call's child is
in the table, as a process or a zombie, until it is waited for, so its pid is not
handed out again (`OwnChildren`); a group of that number has members of that call
only (`OwnGroups`); what is in the pipes and buffers adds up to what was written
(`Tally`); and what was found at the end stays true until the answer
(`AnswerStands`, `StoppedIsStopped`).

`Tokens_proofs`: `TypeOK`, `NothingOutlivesItsCap` and `RevocationIsExact`. Each
token is tied to its origin (`Rooted`: issue instant, actor, level, audience and
cap), whatever chain led to it; jtis of one run are distinct (`JtisAreOwn`) and
the list has, for each jti, the latest of the revocations of this run that carry it
(`ListIsExact`). `RevocationIsExact` compares is_revoked with the whole history: it
says which revocations a restart loses (`Standing` are those of this run) and which
other token a jti given out twice pulls (`NamesakeRevoked`).

`Screen_proofs`: `TypeOK`, `ReferenceIsShared`, `CacheIsCurrent` and
`FollowsStream`, and two results about the operators of `TileStream` they rest on:
an update made against what a canvas shows, or against nothing, makes it show the
frame (`UpdateShowsFrame`), and `TileCache::apply` keeps a cache that depicts the
picture one that depicts it (`AppliedDepicts`). A third says what the page may rely
on: within one update the order of the tiles does not matter
(`AnyOrderWithinUpdate`). Nothing bounds the number of rows,
pixels, viewers, regions or updates. The argument:

* What a fold over regions or updates computes is shown by induction. The
  library's least-element theorem for sets of naturals gives `UpTo` (induction
  along 0..m), this gives that the recursion behind a fold has a solution
  (`FoldIsDefined`), and so each fold is a run h with the base at h[0] and the step
  applied to h[n-1] and the n-th element at h[n] (`PaintRun`, `KeepRun`,
  `UncoveredRun`, `ShowRun`).
* A row of a drawn picture shows the last region that has it (`PaintedAll`), and
  retain leaves the last region of every row the new one does not cover
  (`UncoveredKeeps`). Hence the cache's part of the invariant, `CacheInv`: for every
  row of what was told, the last cached region with that row, if there is one, has
  its current pixels. `CacheIsCurrent` speaks of the bootstrap only and is not
  inductive: what the next retain drops has to be known region by region.
* Two canvases on which the same updates are drawn differ only where nothing was
  drawn since (`Over`), and leaving out the oldest update changes only rows it drew
  and no later one did (`LeftOut`) - provided the update after it has its size or is
  whole, which is why `PendingInv` says so of neighbours in the channel. It also
  says that what waits for a viewer never draws what was replaced, whatever is
  drawn on (`LeadTo`): that is what lets a viewer join between two updates, with
  or without a bootstrap.
* A page is compared by what it will show once everything received is drawn
  (`Arrived`), since any tile may be drawn next. Receiving an update changes that as
  drawing it on the spot would (`Reception`, from `ReceivedAll` and `RowsInAre`);
  drawing one tile changes it only on rows the tile shares with an older one that is
  still decoding and with no newer one (`Overtaken`; `DrawnAll`, `DrawKeeps`), which
  is what `overdrawn` collects. Two pictures alike but on lost rows stay so when the same
  updates follow (`AlikeFollows`).
* `Outside`: who is not served has an empty canvas with nothing decoding, or one
  with every row missed.

Out of the provers' reach, and only model-checked: liveness (the fairness
conjuncts of `ImplementsArbiter` and `ImplementsService`, `LeaversLeave`,
`EndedStreamIsLeft`, `CatchesUp`, `RepliesLeave`, `CallsReturn`,
`ZombiesAreReaped`). Every invariant and every safety property that a passing run
checks is also a theorem; for the two refinements, the theorem is about their
safety part.

## 5. Divergences found

Shown by a run:

| Run | What the source says | What happens |
|---|---|---|
| `handover_race` | main.rs:530 "Even a clean release leaves a clean input state for whoever is next" | the lease is free before the release_all is queued: the next holder's input can come first, and then has its keys lifted by the late release_all. A lease taken over lazily after a lapse gets none |
| `human_idle` | lease.rs:375 "the viewer heartbeats every 30s even while nobody types" | nobody calls heartbeat: an idle human, and the attached guest, lose the lease after 90 s |
| `gate_jam` | channel.rs:330, 483: the hold resolves on the next heartbeat; dropping the gate keeps the session from waiting forever | with a full queue behind a held worker the reader reads neither the heartbeat nor the end of the stream |
| `stream_orphan` | iapetusd/src/main.rs:193 redials so that a Desktop is not left "permanently unwatchable" | an error return of `run` skips `input_task.abort()`; the task keeps the socket, the gateway the slot, and every redial gets 409 |

Met while modelling; the models do what the code does:

* viewer.html:209 "drawing in arrival order is not required because tiles never
  overlap". Those of one update do not (`AnyOrderWithinUpdate`); those of two updates,
  and the regions of a bootstrap, do. The handlers are not awaited, so an older tile
  decoded last stays over the newer one until that row changes again: `overdrawn`,
  the exception in `FollowsStream` and `CatchesUp`.
* x11.rs:664 modifiers are released "even if the main key failed, so a bad combo
  cannot leave Ctrl latched". An unknown modifier after a known one returns
  (x11.rs:650) before that loop, with the known one down and in no list: the first
  way into `escaped`.
* dispatch.rs:241 release_all "Releases every held key and pointer button". With two
  threads on one key (an action orphaned by an abort, channel.rs:431, beside the next
  worker's) the `retain` of one's release (x11.rs:690) forgets what the other has
  pressed and noted since the key went up: the second way into `escaped`, and the two
  exceptions in `NothingUntracked`.
* frame.rs:47 "a cached frame older than that is discarded"; dispatch.rs:231 anchors a
  screenshot "to the action before it". `mark_input` (dispatch.rs:269) reads the clock
  before it has the lock, so two threads may store their ends in the wrong order; then
  last_input_at goes back and a frame from before a thread's own input is served to it.
  `ShotIsStampedFresh` is about last_input_at as stored for this reason.
* x11.rs:239 "Stamp the time the pixels were actually read"; frame.rs:45 "captured at
  or after `not_before`". The stamp is taken after the reply (x11.rs:241): an input that
  ends in between is older than the stamp and not in the pixels. So
  `ShotIsStampedFresh` says of pixels only that a screenshot which captures shows a
  screen no older than last_input_at.
* Control Plane lib.rs:382 "The revocation handle must be unique, or revoking one token
  pulls another". The counter starts over with the service while tokens of the last run
  are still valid: `NamesakeRevoked` in `RevocationIsExact`.
* Control Plane lib.rs:160 and PRD.md:1407: refreshable when the token "has not been
  revoked", otherwise 401 (1410). `refresh` (lib.rs:168) does not ask `is_revoked`.
* Nothing else asks it either: not the gateway, which shares
  nothing with the Control Plane but a public key. PRD.md:1333 and 1389 want a
  revoked token refused. And the list is in memory only: a restart takes back what
  was revoked (`RevocationIsExact` states that).
* A failed WebSocket upgrade after `try_claim_guest` (main.rs:307-310) leaves
  `guest_attached` set for good; `Subscribe` has every claimed connection go on.
* The lease holder's messages are forwarded as they are (main.rs:469), so one may
  carry an `id`, and the guest's echo of it is matched in `pending` (main.rs:352-357)
  against an agent's request. The page sends none, and `GatewayActions` has none.
* SIGTERM detaches the heartbeat task and the worker instead of ending them
  (main.rs:434-441): until the runtime is dropped, the Control Plane may still hear
  heartbeats, and answers, from a daemon that reads nothing any more.
* A deadline runs from when the guest read the request (channel.rs:266-270), not
  from when it was sent, so an answer may come after the Control Plane has given up;
  the comment there says so.
* viewer_link.rs:182: an agent that sent an id "is owed an answer"; `release_all`
  and a keyframe request with an id get none, and the caller waits for its timeout.
* `POST /v1/action` forwards without asking the lease: an agent's input mixes
  with the human's who holds it.
* Control Plane lib.rs:174: a refresh that lands past the wall is "refused rather
  than issued dead-on-arrival". It renews an agent's token for up to 24 h, but the
  gateway (main.rs:754) caps every token at 8 h, so those are dead on arrival there.
* auth lib.rs:139: "Rotation keeps the new and old key here in parallel". Every
  key is published as `k1`, so two cannot be told apart; `Tokens` has one key at a
  time.
* unix.rs:195 "Keep draining so the child does not block on a full pipe": the reader
  returns and closes the pipe, and the writer gets SIGPIPE. A background process
  that keeps the pipe open keeps `run` from returning by its deadline
  (unix.rs:96): the exception `Held` of `CallsReturn`. What a command runs with
  sudo (images/linux-base) the daemon cannot kill.
* dispatch.rs:414 answers NoDriver for `wait_for_window` after the program has been
  launched, and the caller never learns its pid.
* channel.rs:607 "Only a session that actually stayed up earns a fresh curve": the
  time spent connecting counts as staying up.
* SIGTERM waits for what runs in the blocking pool, for however long that is.
* dispatch.rs:283 holds `last_input_at` for the whole capture; a driver panic in it
  poisons the lock and every later screenshot and input with it.

## 6. What is not modelled

Listed with reasons under `components`: encoding and codecs, ids, limits, the
catalog, generated message code, the secret store, the command line, the fake
platform, SDKs, images and scripts. Within the modelled components:

* Gateway: `denied` events and what a `control` event says; the page session that
  a tab takes from it; the dev shared secrets; a body that is JSON but no object.
* Channel: back-off delays, the reported clock offset, `execute_batch` (the daemon
  never calls it).
* Dispatch: text, coordinates, X connection failures, and the modes of wait_for
  that only read. Which character the scratch keycode has: two threads that type
  characters outside the layout rebind it under each other (x11.rs:537), of which the
  model keeps whether it is bound. `--stream` and `--connect` are separate processes,
  each with its own held list; that the two together hold a key is not modelled.
* Processes: an error of `try_wait`, with which `run` returns early (unix.rs:144); a
  read error (unix.rs:200), on which a reader stops as at the end of its pipe; and a
  reader that panicked (unix.rs:149-150), whose output is taken to be empty.
* Screen: malformed updates, a panic in an encoding thread, an image the page cannot
  decode, the snapshot a viewer gets on joining. `LinkBreaks` has the guest down at
  once; `viewer_link::run` returns at its next failing send (viewer_link.rs:281-293),
  so what it encodes in between is lost, which no one sees. After the cache is
  cleared for want of room (main.rs:132) it is not rebuilt, so that a bootstrap may
  be partial: `CacheIsCurrent` says that what is in it is current, not that it is all;
  `CatchesUp` has the rest from the page's own request for a keyframe.

## 7. Plan

Done, in this order: the lease and its arbiter, the gateway's control half, the
guest channel, dispatch with its drivers and frame cache, the screen stream; then
the action path and its service, tokens, processes, SIGTERM, and the proofs of
section 4. Left:

1. **Viewer page**: which session a tab takes for its own, over `control` events
   that are put together from two reads of the lease and sent unlocked.
2. **Back-off and batches** as pure functions against their definitions.
3. **Proofs**: an abstract specification of the screen stream - a told picture and,
   per viewer, the rows that lag behind it - that `Screen` implements.
