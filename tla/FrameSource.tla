----------------------------- MODULE FrameSource -----------------------------
(***************************************************************************)
(* The shared capture source, iapetusd/src/frame.rs, over the X11 capture  *)
(* of platform/x11.rs, with its one-frame cache.                           *)
(*                                                                         *)
(* What matters of a frame is when its pixels were read and what time it   *)
(* is stamped with. Time is the guest's clock, which never goes back here: *)
(* it ticks between any two steps or does not, so two events may share an  *)
(* instant, and a stamp equal to another time counts as no earlier, as >=  *)
(* does in capture_after. Between the server reading the pixels and the    *)
(* stamp other threads may act.                                            *)
(***************************************************************************)
EXTENDS Naturals

CONSTANTS Thread,       (* the threads there are                            *)
          Capturer,     (* bound: those that capture                        *)
          MaxTime       (* bound on the clock                               *)

ASSUME CaptureAssumption == Capturer \subseteq Thread /\ MaxTime \in Nat \ {0}

VARIABLES now,          (* SystemTime::now()                                *)
          latest,       (* FrameSource.latest                               *)
          capture       (* the capture each thread is making                *)

frameVars == <<now, latest, capture>>

Never == 0
Time == 1..MaxTime
Frame == [pixels: Time, stamp: Time, whole: BOOLEAN]
NoFrame == [pixels |-> Never, stamp |-> Never, whole |-> FALSE]

(* A thread's capture: none, or asked of the X server, read, or stamped.    *)
Stage == {"none", "asked", "read", "stamped"}
NoCapture == [stage |-> "none", frame |-> NoFrame]

FrameTypeOK ==
  /\ now \in Time
  /\ latest \in Frame \cup {NoFrame}
  /\ capture \in [Thread -> [stage: Stage,
                             frame: [pixels: Time \cup {Never}, stamp: Time \cup {Never},
                                     whole: BOOLEAN]]]

FrameInit == now = 1 /\ latest = NoFrame /\ capture = [t \in Thread |-> NoCapture]

-----------------------------------------------------------------------------
(* capture_now, on thread t                                                 *)
Ask(t, whole) ==
  /\ t \in Capturer /\ capture[t].stage = "none"
  /\ capture' = [capture EXCEPT ![t] = [stage |-> "asked", frame |-> [NoFrame EXCEPT !.whole = whole]]]
  /\ UNCHANGED <<now, latest>>

ReadPixels(t) ==
  /\ capture[t].stage = "asked"
  /\ capture' = [capture EXCEPT ![t] = [@ EXCEPT !.stage = "read", !.frame.pixels = now]]
  /\ UNCHANGED <<now, latest>>

StampFrame(t) ==
  /\ capture[t].stage = "read"
  /\ capture' = [capture EXCEPT ![t] = [@ EXCEPT !.stage = "stamped", !.frame.stamp = now]]
  /\ UNCHANGED <<now, latest>>

KeepAs(t, frame) ==
  /\ latest' = frame
  /\ capture' = [capture EXCEPT ![t] = NoCapture]
  /\ UNCHANGED now

(* Only whole-screen captures are kept.                                     *)
ToKeep(t) == IF capture[t].frame.whole THEN capture[t].frame ELSE latest

KeepAny(t) == capture[t].stage = "stamped" /\ KeepAs(t, capture[t].frame)
KeepUnstamped(t) == capture[t].stage \in {"read", "stamped"} /\ KeepAs(t, ToKeep(t))
Keep(t) == capture[t].stage = "stamped" /\ KeepAs(t, ToKeep(t))

(* capture_after: may the cached frame be served to this request?           *)
Servable(notBefore, whole) == whole /\ latest # NoFrame /\ latest.stamp >= notBefore

Tick == now < MaxTime /\ now' = now + 1 /\ UNCHANGED <<latest, capture>>
=============================================================================
