------------------------------ MODULE Dispatcher ------------------------------
(***************************************************************************)
(* Action execution on the Desktop, iapetusd/src/dispatch.rs, over the     *)
(* input driver and the frame source. An actor is a thread that executes   *)
(* actions one after another: the channel worker's or the viewer link's,   *)
(* and, after a reconnect, what an earlier one left running. The streamer  *)
(* captures for the viewers all the while.                                 *)
(*                                                                         *)
(* Kept of an action are the driver calls it makes, whether it then counts *)
(* as input (mark_input), and for a screenshot which frame it is given.    *)
(* Launching, installing and shell commands make no driver call and count  *)
(* as input when they succeed.                                             *)
(***************************************************************************)
EXTENDS X11Input, FrameSource

CONSTANTS Streamer,  (* the viewer link's capture loop                      *)
          Used       (* bound: the keys that actions use, any actor's any   *)

ASSUME ActorAssumption ==
  /\ Streamer \notin Actor /\ Thread = Actor \cup {Streamer}
  /\ Used \subseteq Key

VARIABLES doing,     (* what each actor is about                            *)
          taken,     (* the time its last input ended                       *)
          lastInput, (* last_input_at                                       *)
          shot       (* the last screenshot: what it asked for and was given*)

dispatchVars == <<doing, taken, lastInput, shot>>

vars == <<inputVars, frameVars, dispatchVars>>

Doing == {"idle", "input", "marking", "failing", "releasing", "screenshot", "watching"}

TypeOK ==
  /\ InputTypeOK
  /\ FrameTypeOK
  /\ doing \in [Actor -> Doing]
  /\ taken \in [Actor -> Time \cup {Never}] /\ lastInput \in Time \cup {Never}
  /\ shot \in [asked: BOOLEAN, frame: Frame \cup {NoFrame}]

Init ==
  /\ InputInit /\ FrameInit
  /\ doing = [a \in Actor |-> "idle"]
  /\ taken = [a \in Actor |-> Never] /\ lastInput = Never
  /\ shot = [asked |-> FALSE, frame |-> NoFrame]

Become(a, what) == doing' = [doing EXCEPT ![a] = what]

Start(a, what, steps) ==
  /\ doing[a] = "idle" /\ Become(a, what)
  /\ todo' = [todo EXCEPT ![a] = steps]
  /\ UNCHANGED <<down, held, bound, escaped, frameVars, taken, lastInput, shot>>

-----------------------------------------------------------------------------
(* Input actions that succeed, and those that fail part of the way: a combo *)
(* with an unknown name, a drag that leaves the screen.                     *)
Drag == KeyDown(Left) \o KeyUp(Left)
DragOffScreen == KeyDown(Left)

(* app.launch, app.install and shell.exec: the driver sees nothing of them.  *)
Undriven == {<<>>}

Inputs ==
       Undriven \cup {Tap(k) : k \in Used}
  \cup (UNION {{KeyDown(k), KeyUp(k)} : k \in {j \in Used : OnLayout(j)}})
  \cup {Combo(m, k) : m \in Used \cap Named, k \in Used \ Buttons}
  \cup {s \in {Drag} : Left \in Used}

Failures ==
       (UNION {{ComboUnknownKey(m), ComboUnknownModifier(m)} : m \in Used \cap Named})
  \cup {s \in {DragOffScreen} : Left \in Used}

Execute(a) == \E steps \in Inputs : Start(a, "input", steps)

ExecuteFailing(a) == \E steps \in Failures : Start(a, "failing", steps)

HandOver(a) == Start(a, "releasing", ReleaseAll)

(* The lock on last_input_at is held for as long as a screenshot captures.  *)
NeverLocked == FALSE
Locked == \E a \in Actor : doing[a] = "screenshot"

(* mark_input reads the clock before it asks for the lock.                  *)
TakeTime(a) ==
  /\ doing[a] = "input" /\ todo[a] = <<>>
  /\ taken' = [taken EXCEPT ![a] = now]
  /\ Become(a, "marking")
  /\ UNCHANGED <<inputVars, frameVars, lastInput, shot>>

MarkInput(a) ==
  /\ doing[a] = "marking" /\ ~Locked
  /\ lastInput' = taken[a]
  /\ Become(a, "idle")
  /\ UNCHANGED <<inputVars, frameVars, taken, shot>>

Return(a) ==
  /\ doing[a] \in {"failing", "releasing"} /\ todo[a] = <<>>
  /\ Become(a, "idle")
  /\ UNCHANGED <<inputVars, frameVars, taken, lastInput, shot>>

-----------------------------------------------------------------------------
(* screenshot: the cached frame if it is recent enough, else a new one      *)
MayServe(whole) == lastInput # Never /\ Servable(lastInput, whole)

ServeCached(a) ==
  /\ doing[a] = "idle" /\ ~Locked
  /\ \E whole \in BOOLEAN : MayServe(whole) /\ shot' = [asked |-> whole, frame |-> latest]
  /\ UNCHANGED <<inputVars, frameVars, doing, taken, lastInput>>

CaptureShot(a) ==
  /\ doing[a] = "idle" /\ ~Locked
  /\ \E whole \in BOOLEAN : ~MayServe(whole) /\ Ask(a, whole)
  /\ Become(a, "screenshot")
  /\ UNCHANGED <<inputVars, taken, lastInput, shot>>

EndShot(a) ==
  /\ doing[a] = "screenshot" /\ Keep(a)
  /\ shot' = [asked |-> capture[a].frame.whole, frame |-> capture[a].frame]
  /\ Become(a, "idle")
  /\ UNCHANGED <<inputVars, taken, lastInput>>

(* wait_for(screen_stable) captures without a lock, and anchors nothing.    *)
Watch(a) ==
  /\ doing[a] = "idle" /\ Ask(a, TRUE) /\ Become(a, "watching")
  /\ UNCHANGED <<inputVars, taken, lastInput, shot>>

EndWatch(a) ==
  /\ doing[a] = "watching" /\ Keep(a) /\ Become(a, "idle")
  /\ UNCHANGED <<inputVars, taken, lastInput, shot>>

(* capture_for_stream                                                       *)
StreamAsk == Ask(Streamer, TRUE) /\ UNCHANGED <<inputVars, dispatchVars>>

StreamKeep == Keep(Streamer) /\ UNCHANGED <<inputVars, dispatchVars>>

Next ==
  \/ \E a \in Actor :
       \/ Execute(a) \/ ExecuteFailing(a) \/ HandOver(a) \/ TakeTime(a) \/ MarkInput(a)
       \/ Return(a) \/ ServeCached(a) \/ CaptureShot(a) \/ EndShot(a) \/ Watch(a) \/ EndWatch(a)
       \/ DriverStep(a) /\ UNCHANGED <<frameVars, dispatchVars>>
  \/ StreamAsk \/ StreamKeep
  \/ (\E t \in Thread : ReadPixels(t) \/ StampFrame(t)) /\ UNCHANGED <<inputVars, dispatchVars>>
  \/ Tick /\ UNCHANGED <<inputVars, dispatchVars>>

Spec == Init /\ [][Next]_vars

-----------------------------------------------------------------------------
(* What is down is remembered as held, or a call still under way is about  *)
(* to remember it or to lift it, whoever else uses the same keys, failed    *)
(* calls and handovers included: so release_all finds it. A key escapes in  *)
(* two ways alone: pressed by a combo that then meets a modifier it does    *)
(* not know, or forgotten after a release that another thread's press       *)
(* overtook - until it is lifted or remembered again. And the scratch       *)
(* keycode keeps a character only while a call is about to take it away, or *)
(* "one key typing the agent's last syllable" would be handed over.         *)
Attended(k) ==
  \E a \in Actor : \E i \in DOMAIN todo[a] :
    todo[a][i].op \in {"note", "lift"} /\ k \in todo[a][i].keys

ToBeRestored == \E a \in Actor : \E i \in DOMAIN todo[a] : todo[a][i].op = "restore"

NothingUntracked ==
  /\ \A k \in down : k \in held \/ Attended(k) \/ k \in escaped
  /\ bound => ToBeRestored

(* The freshness contract as far as it goes: the frame a screenshot is      *)
(* given is stamped no earlier than last_input_at as it stands by then, even*)
(* when other actors' inputs end while the screenshot is taken; and if it   *)
(* was captured for this screenshot, its pixels were read no earlier either.*)
(* A cached frame's may have been: its stamp comes after the pixels.        *)
ShotIsStampedFresh ==
  [][ /\ shot' # shot => shot'.frame.stamp >= lastInput'
      /\ \A a \in Actor : EndShot(a) => shot'.frame.pixels >= lastInput' ]_vars

(* A whole-screen screenshot never shows a region and a region screenshot   *)
(* never the whole screen, whosever capture the cache last kept.            *)
ShotIsWhatWasAsked == shot.frame # NoFrame => shot.frame.whole = shot.asked
=============================================================================
