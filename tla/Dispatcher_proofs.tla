--------------------------- MODULE Dispatcher_proofs ---------------------------
(***************************************************************************)
(* Proofs about Dispatcher, for any number of executing threads, any       *)
(* keyboard and pointer, any keys in use by any of the threads, and any    *)
(* bound on the clock: what screenshots are given for whatever threads do  *)
(* beside each other, and in which two ways alone a key stays down unknown *)
(* to release_all.                                                         *)
(***************************************************************************)
EXTENDS Dispatcher, Integers, TLAPS

(* How far a capture is says what there is of its frame, and what its       *)
(* thread is about.                                                         *)
Progress(c) ==
  /\ c.stage \in {"read", "stamped"} => c.frame.pixels \in Time
  /\ c.stage = "stamped" => c.frame.stamp \in Time

Capturing ==
  /\ \A t \in Thread : Progress(capture[t])
  /\ \A a \in Actor : capture[a].stage # "none" => doing[a] \in {"screenshot", "watching"}

Whole == latest # NoFrame => latest.whole

(* No time taken lies ahead.                                                *)
Clocked == lastInput <= now /\ \A a \in Actor : taken[a] <= now

(* last_input_at does not change while a screenshot is being taken.         *)
Fresh ==
  \A a \in Actor : doing[a] = "screenshot" =>
    /\ capture[a].stage \in {"read", "stamped"} => capture[a].frame.pixels >= lastInput
    /\ capture[a].stage = "stamped" => capture[a].frame.stamp >= lastInput

Doings ==
  /\ doing \in [Actor -> Doing]
  /\ taken \in [Actor -> Time \cup {Never}] /\ lastInput \in Time \cup {Never}
  /\ shot \in [asked : BOOLEAN, frame : Frame \cup {NoFrame}]

FrameInv ==
  FrameTypeOK /\ Doings /\ Capturing /\ Whole /\ Clocked /\ Fresh /\ ShotIsWhatWasAsked

-----------------------------------------------------------------------------
(* Frames                                                                   *)
Capture == [stage : Stage, frame : [pixels : Time \cup {Never}, stamp : Time \cup {Never},
                                    whole : BOOLEAN]]

LEMMA Times == /\ \A t \in Time : t \in Nat /\ t # Never
               /\ now \in Time /\ now < MaxTime => now + 1 \in Time
BY CaptureAssumption DEF Time, Never

LEMMA NoFrameIsNoFrame == /\ NoFrame \notin Frame /\ NoCapture \in Capture
                          /\ \A f \in Frame : f.pixels \in Time /\ f.stamp \in Time
                                               /\ f.whole \in BOOLEAN
<1>1. NoFrame \notin Frame
  <2>1. NoFrame.pixels \notin Time
    BY Times DEF NoFrame
  <2>2. QED
    BY <2>1 DEF Frame
<1>2. NoCapture \in Capture /\ \A f \in Frame : f.pixels \in Time /\ f.stamp \in Time
                                               /\ f.whole \in BOOLEAN
  BY DEF NoFrame, Frame, NoCapture, Capture, Stage
<1>3. QED
  BY <1>1, <1>2

(* What the steps of a capture make of it.                                  *)
LEMMA CaptureSteps ==
  ASSUME NEW c \in Capture, Progress(c), now \in Time
  PROVE  /\ \A w \in BOOLEAN :
              LET n == [stage |-> "asked", frame |-> [NoFrame EXCEPT !.whole = w]]
              IN  n \in Capture /\ Progress(n) /\ n.stage = "asked"
         /\ c.stage = "asked" =>
              LET n == [c EXCEPT !.stage = "read", !.frame.pixels = now]
              IN  n \in Capture /\ Progress(n) /\ n.stage = "read" /\ n.frame.pixels = now
         /\ c.stage = "read" =>
              LET n == [c EXCEPT !.stage = "stamped", !.frame.stamp = now]
              IN  /\ n \in Capture /\ Progress(n) /\ n.stage = "stamped" /\ n.frame.stamp = now
                  /\ n.frame.pixels = c.frame.pixels
         /\ c.stage = "stamped" => c.frame \in Frame
BY DEF Capture, Progress, NoFrame, NoCapture, Frame, Stage

-----------------------------------------------------------------------------
(* One thread's capture moves on.                                           *)
LEMMA CaptureMoves ==
  ASSUME FrameInv, NEW t \in Thread, NEW n \in Capture, Progress(n),
         capture' = [capture EXCEPT ![t] = n], UNCHANGED now,
         latest' = latest \/ (latest' \in Frame /\ latest'.whole)
  PROVE  FrameTypeOK' /\ Whole' /\ \A u \in Thread : Progress(capture'[u])
<1>1. capture \in [Thread -> Capture] /\ latest \in Frame \cup {NoFrame} /\ now \in Time
  BY DEF FrameInv, FrameTypeOK, Capture
<1>2. capture' \in [Thread -> Capture] /\ latest' \in Frame \cup {NoFrame} /\ now' \in Time
  BY <1>1
<1>3. \A u \in Thread : Progress(capture'[u])
  BY <1>1 DEF FrameInv, Capturing
<1>4. QED
  BY <1>2, <1>3 DEF FrameTypeOK, Capture, FrameInv, Whole

LEMMA FrameInvInductive ==
  ASSUME FrameInv, [Next]_vars
  PROVE  FrameInv'
<1> USE ActorAssumption DEF vars, inputVars, frameVars, dispatchVars
<1>1. /\ capture \in [Thread -> Capture] /\ latest \in Frame \cup {NoFrame} /\ now \in Time
      /\ \A t \in Thread : capture[t] \in Capture /\ Progress(capture[t])
      /\ doing \in [Actor -> Doing] /\ Actor \subseteq Thread
      /\ taken \in [Actor -> Time \cup {Never}] /\ lastInput \in Time \cup {Never}
      /\ \A x \in Time \cup {Never} : x \in Nat
  BY Times DEF FrameInv, FrameTypeOK, Capture, Capturing, Doings, Never
<1>2. ASSUME UNCHANGED <<frameVars, shot, taken, lastInput>>, NEW a \in Actor, NEW w \in Doing,
             doing' = doing \/ (Become(a, w) /\ doing[a] \notin {"screenshot", "watching"}
                                 /\ w \notin {"screenshot", "watching"})
      PROVE  FrameInv'
  BY <1>1, <1>2
     DEF FrameInv, FrameTypeOK, Doings, Capturing, Whole, Clocked, Fresh, ShotIsWhatWasAsked,
         Become
<1>3. ASSUME NEW a \in Actor,
             Execute(a) \/ ExecuteFailing(a) \/ HandOver(a) \/ Return(a)
             \/ (DriverStep(a) /\ UNCHANGED <<frameVars, dispatchVars>>)
      PROVE  FrameInv'
  <2>1. UNCHANGED <<frameVars, shot, taken, lastInput>>
    BY <1>3 DEF Execute, ExecuteFailing, HandOver, Return, Start
  <2>2. \E w \in Doing :
          doing' = doing \/ (Become(a, w) /\ doing[a] \notin {"screenshot", "watching"}
                              /\ w \notin {"screenshot", "watching"})
    BY <1>3 DEF Execute, ExecuteFailing, HandOver, Return, Start, Doing
  <2>3. QED
    BY <1>2, <2>1, <2>2
<1>4. ASSUME NEW a \in Actor, TakeTime(a) \/ MarkInput(a)  PROVE FrameInv'
  <2>1. /\ UNCHANGED <<frameVars, shot>>
        /\ \E w \in {"marking", "idle"} : doing' = [doing EXCEPT ![a] = w]
        /\ doing[a] \in {"input", "marking"}
    BY <1>4 DEF TakeTime, MarkInput, Become
  <2>2. FrameTypeOK' /\ Whole' /\ ShotIsWhatWasAsked' /\ doing' \in [Actor -> Doing]
    BY <1>1, <2>1 DEF FrameInv, FrameTypeOK, Whole, ShotIsWhatWasAsked, Doing
  <2>3. Capturing'
    BY <1>1, <2>1 DEF FrameInv, Capturing
  <2>4. /\ taken' \in [Actor -> Time \cup {Never}] /\ lastInput' \in Time \cup {Never}
        /\ Clocked' /\ Fresh'
    <3>1. CASE TakeTime(a)
      <4>1. taken' = [taken EXCEPT ![a] = now] /\ UNCHANGED lastInput
        BY <3>1 DEF TakeTime
      <4>2. QED
        BY <1>1, <2>1, <4>1 DEF FrameInv, Clocked, Fresh
    <3>2. CASE MarkInput(a)
      <4>1. /\ lastInput' = taken[a] /\ UNCHANGED taken
            /\ \A b \in Actor : doing[b] # "screenshot"
        BY <3>2 DEF MarkInput, Locked
      <4>2. QED
        BY <1>1, <2>1, <4>1 DEF FrameInv, Clocked, Fresh
    <3>3. QED
      BY <1>4, <3>1, <3>2
  <2>5. QED
    BY <2>1, <2>2, <2>3, <2>4 DEF FrameInv, Doings
<1>5. ASSUME NEW a \in Actor, ServeCached(a)  PROVE FrameInv'
  <2>1. /\ shot' = [asked |-> TRUE, frame |-> latest] /\ latest \in Frame /\ latest.whole = TRUE
        /\ UNCHANGED <<frameVars, doing, taken, lastInput>>
    BY <1>1, <1>5, NoFrameIsNoFrame DEF ServeCached, MayServe, Servable, FrameInv, Whole
  <2>2. QED
    BY <2>1
       DEF FrameInv, FrameTypeOK, Doings, Capturing, Whole, Clocked, Fresh, ShotIsWhatWasAsked
<1>6. ASSUME NEW a \in Actor, CaptureShot(a) \/ Watch(a)  PROVE FrameInv'
  <2>1. PICK w \in BOOLEAN : Ask(a, w)
    BY <1>6 DEF CaptureShot, Watch
  <2> DEFINE n == [stage |-> "asked", frame |-> [NoFrame EXCEPT !.whole = w]]
  <2>2. /\ n \in Capture /\ Progress(n) /\ n.stage = "asked"
        /\ capture' = [capture EXCEPT ![a] = n] /\ UNCHANGED <<now, latest>>
    BY <1>1, <2>1, CaptureSteps DEF Ask
  <2> HIDE DEF n
  <2>3. /\ UNCHANGED <<shot, taken, lastInput>>
        /\ \E d \in {"screenshot", "watching"} : doing' = [doing EXCEPT ![a] = d]
    BY <1>6 DEF CaptureShot, Watch, Become
  <2>4. FrameTypeOK' /\ Whole' /\ \A u \in Thread : Progress(capture'[u])
    BY <1>1, <2>2, CaptureMoves
  <2>5. QED
    BY <1>1, <2>2, <2>3, <2>4
       DEF FrameInv, Doings, Doing, Capturing, Clocked, Fresh, ShotIsWhatWasAsked
<1>7. ASSUME NEW t \in Thread, Keep(t)
      PROVE  /\ FrameTypeOK' /\ Whole' /\ \A u \in Thread : Progress(capture'[u])
             /\ capture[t].frame \in Frame /\ capture' = [capture EXCEPT ![t] = NoCapture]
             /\ UNCHANGED now
  <2>1. capture[t].frame \in Frame /\ NoCapture \in Capture /\ Progress(NoCapture)
    BY <1>1, <1>7, CaptureSteps, NoFrameIsNoFrame DEF Keep, Progress, NoCapture
  <2>2. latest' = latest \/ (latest' \in Frame /\ latest'.whole)
    BY <1>7, <2>1 DEF Keep, KeepAs, ToKeep
  <2>3. capture' = [capture EXCEPT ![t] = NoCapture] /\ UNCHANGED now
    BY <1>7 DEF Keep, KeepAs
  <2>4. QED
    BY <2>1, <2>2, <2>3, CaptureMoves
<1>8. ASSUME NEW a \in Actor, EndShot(a) \/ EndWatch(a)  PROVE FrameInv'
  <2>1. /\ FrameTypeOK' /\ Whole' /\ \A u \in Thread : Progress(capture'[u])
        /\ capture[a].frame \in Frame /\ capture' = [capture EXCEPT ![a] = NoCapture]
        /\ UNCHANGED now
    BY <1>1, <1>7, <1>8 DEF EndShot, EndWatch
  <2>2. /\ doing' = [doing EXCEPT ![a] = "idle"] /\ UNCHANGED <<taken, lastInput>>
        /\ shot' = shot \/ shot' = [asked |-> capture[a].frame.whole, frame |-> capture[a].frame]
    BY <1>8 DEF EndShot, EndWatch, Become
  <2>3. Doings' /\ ShotIsWhatWasAsked'
    BY <1>1, <2>1, <2>2, NoFrameIsNoFrame DEF FrameInv, Doings, Doing, ShotIsWhatWasAsked
  <2>4. \A u \in Thread : capture'[u].stage # "none" => u # a /\ capture'[u] = capture[u]
    BY <1>1, <2>1 DEF NoCapture
  <2>5. Capturing' /\ Clocked' /\ Fresh'
    BY <1>1, <2>1, <2>2, <2>4 DEF FrameInv, Capturing, Clocked, Fresh
  <2>6. QED
    BY <2>1, <2>3, <2>5 DEF FrameInv
<1>9. ASSUME StreamAsk \/ StreamKeep  PROVE FrameInv'
  <2>1. UNCHANGED dispatchVars
    BY <1>9 DEF StreamAsk, StreamKeep
  <2>2. /\ FrameTypeOK' /\ Whole' /\ \A u \in Thread : Progress(capture'[u])
        /\ \E n : capture' = [capture EXCEPT ![Streamer] = n]
        /\ UNCHANGED now
    <3>1. CASE StreamAsk
      <4> DEFINE n == [stage |-> "asked", frame |-> [NoFrame EXCEPT !.whole = TRUE]]
      <4>1. /\ n \in Capture /\ Progress(n) /\ Streamer \in Thread
            /\ capture' = [capture EXCEPT ![Streamer] = n] /\ UNCHANGED <<now, latest>>
        BY <1>1, <3>1, CaptureSteps DEF StreamAsk, Ask
      <4> HIDE DEF n
      <4>2. QED
        BY <4>1, CaptureMoves
    <3>2. CASE StreamKeep
      BY <1>7, <3>2 DEF StreamKeep
    <3>3. QED
      BY <1>9, <3>1, <3>2
  <2>3. \A a \in Actor : capture'[a] = capture[a]
    BY <1>1, <2>2
  <2>4. QED
    BY <1>1, <2>1, <2>2, <2>3
       DEF FrameInv, Doings, Capturing, Clocked, Fresh, ShotIsWhatWasAsked
<1>10. ASSUME NEW t \in Thread, ReadPixels(t) \/ StampFrame(t),
              UNCHANGED <<inputVars, dispatchVars>>
       PROVE  FrameInv'
  <2>1. PICK n \in Capture :
          /\ Progress(n) /\ capture' = [capture EXCEPT ![t] = n] /\ capture[t].stage # "none"
          /\ \/ n.stage = "read" /\ n.frame.pixels = now
             \/ /\ n.stage = "stamped" /\ n.frame.stamp = now
                /\ capture[t].stage = "read" /\ n.frame.pixels = capture[t].frame.pixels
    <3> DEFINE r == [capture[t] EXCEPT !.stage = "read", !.frame.pixels = now]
               m == [capture[t] EXCEPT !.stage = "stamped", !.frame.stamp = now]
    <3>1. CASE ReadPixels(t)
      <4>1. /\ r \in Capture /\ Progress(r) /\ r.stage = "read" /\ capture[t].stage = "asked"
            /\ r.frame.pixels = now
            /\ capture' = [capture EXCEPT ![t] = r]
        BY <1>1, <1>10, <3>1, CaptureSteps DEF ReadPixels
      <4> HIDE DEF r
      <4>2. QED
        BY <4>1
    <3>2. CASE StampFrame(t)
      <4>1. /\ m \in Capture /\ Progress(m) /\ m.frame.stamp = now /\ capture[t].stage = "read"
            /\ m.stage = "stamped" /\ m.frame.pixels = capture[t].frame.pixels
            /\ capture' = [capture EXCEPT ![t] = m]
        BY <1>1, <1>10, <3>2, CaptureSteps DEF StampFrame
      <4> HIDE DEF m
      <4>2. QED
        BY <4>1
    <3>3. QED
      BY <1>10, <3>1, <3>2
  <2>2. UNCHANGED <<now, latest, dispatchVars>>
    BY <1>10 DEF ReadPixels, StampFrame
  <2>3. FrameTypeOK' /\ Whole' /\ \A u \in Thread : Progress(capture'[u])
    BY <2>1, <2>2, CaptureMoves
  <2>4. Doings' /\ Capturing' /\ Clocked' /\ ShotIsWhatWasAsked'
    BY <1>1, <2>1, <2>2, <2>3 DEF FrameInv, Doings, Capturing, Clocked, ShotIsWhatWasAsked
  <2>5. Fresh'
    BY <1>1, <2>1, <2>2 DEF FrameInv, Clocked, Fresh
  <2>6. QED
    BY <2>3, <2>4, <2>5 DEF FrameInv
<1>11. ASSUME Tick, UNCHANGED <<inputVars, dispatchVars>>  PROVE FrameInv'
  <2>1. now' = now + 1 /\ now' \in Time /\ UNCHANGED <<latest, capture>>
    BY <1>1, <1>11, Times DEF Tick
  <2>2. Clocked'
    <3>1. \A x \in Time \cup {Never} : x <= now => x <= now + 1
      BY <1>1
    <3>2. UNCHANGED <<taken, lastInput>> /\ now' = now + 1 /\ Clocked
      BY <1>11, <2>1 DEF FrameInv
    <3>3. QED
      BY <1>1, <3>1, <3>2 DEF Clocked
  <2>3. QED
    BY <1>11, <2>1, <2>2
       DEF FrameInv, FrameTypeOK, Doings, Capturing, Whole, Fresh, ShotIsWhatWasAsked
<1>12. CASE UNCHANGED vars
  BY <1>12 DEF FrameInv, FrameTypeOK, Doings, Capturing, Whole, Clocked, Fresh, ShotIsWhatWasAsked
<1>13. QED
  BY <1>3, <1>4, <1>5, <1>6, <1>8, <1>9, <1>10, <1>11, <1>12 DEF Next

LEMMA FrameInvariance == Spec => []FrameInv
<1>1. Init => FrameInv
  <2> SUFFICES ASSUME Init  PROVE FrameInv
    OBVIOUS
  <2>1. latest = NoFrame /\ NoCapture \in Capture /\ NoCapture.stage = "none"
    BY NoFrameIsNoFrame DEF Init, FrameInit, NoCapture
  <2>2. capture = [t \in Thread |-> NoCapture] /\ Actor \subseteq Thread /\ now \in Time
    BY ActorAssumption, CaptureAssumption DEF Init, FrameInit, Time
  <2>3. FrameTypeOK /\ Whole
    BY <2>1, <2>2 DEF FrameTypeOK, Capture, Whole
  <2>4. Doings /\ ShotIsWhatWasAsked
    BY DEF Init, Doings, Doing, ShotIsWhatWasAsked
  <2>5. Capturing /\ Fresh
    BY <2>1, <2>2 DEF Capturing, Progress, Fresh
  <2>6. Clocked
    BY DEF Init, FrameInit, Clocked, Never
  <2>7. QED
    BY <2>3, <2>4, <2>5, <2>6 DEF FrameInv
<1>2. FrameInv /\ [Next]_vars => FrameInv'
  BY FrameInvInductive
<1>3. QED
  BY <1>1, <1>2, PTL DEF Spec

(* A whole-screen screenshot never shows a region, nor the other way round. *)
THEOREM ShotIsWhatWasAskedHolds == Spec => []ShotIsWhatWasAsked
<1>1. FrameInv => ShotIsWhatWasAsked
  BY DEF FrameInv
<1>2. QED
  BY <1>1, FrameInvariance, PTL

LEMMA ShotsAreFresh ==
  ASSUME FrameInv, [Next]_vars
  PROVE  /\ shot' # shot => shot'.frame.stamp >= lastInput'
         /\ \A a \in Actor : EndShot(a) => shot'.frame.pixels >= lastInput'
<1> USE DEF vars, inputVars, frameVars, dispatchVars
<1>1. ASSUME NEW a \in Actor, ServeCached(a)  PROVE shot'.frame.stamp >= lastInput'
  BY <1>1 DEF ServeCached, MayServe, Servable
<1>2. ASSUME NEW a \in Actor, EndShot(a)
      PROVE  shot'.frame.stamp >= lastInput' /\ shot'.frame.pixels >= lastInput'
  BY <1>2 DEF EndShot, Keep, FrameInv, Fresh
<1>3. ASSUME NEW a \in Actor,
             \/ Execute(a) \/ ExecuteFailing(a) \/ HandOver(a) \/ TakeTime(a) \/ MarkInput(a)
             \/ Return(a) \/ CaptureShot(a) \/ Watch(a) \/ EndWatch(a)
      PROVE  shot' = shot
  BY <1>3
     DEF Execute, ExecuteFailing, HandOver, TakeTime, MarkInput, Return, CaptureShot, Watch,
         EndWatch, Start
<1>4. QED
  BY <1>1, <1>2, <1>3 DEF Next, StreamAsk, StreamKeep

(* A screenshot is stamped no earlier than last_input_at, whichever threads *)
(* end their inputs, in whatever order, while it is taken; and one that is  *)
(* captured for its caller shows the screen as it was no earlier.           *)
THEOREM ShotIsStampedFreshHolds == Spec => ShotIsStampedFresh
<1>1. FrameInv /\ [Next]_vars =>
        [/\ shot' # shot => shot'.frame.stamp >= lastInput'
         /\ \A a \in Actor : EndShot(a) => shot'.frame.pixels >= lastInput']_vars
  BY ShotsAreFresh
<1>2. QED
  BY <1>1, FrameInvariance, PTL DEF Spec, ShotIsStampedFresh

-----------------------------------------------------------------------------
(* Keys: what is left of a call. A press is followed by the note or the     *)
(* lift of each of its keys, and a bind by the restore.                     *)
Attends(s, i, k) == s[i].op \in {"note", "lift"} /\ k \in s[i].keys

Minded(s) ==
  \A i \in DOMAIN s : s[i].op = "press" =>
    \A k \in s[i].keys : \E j \in DOMAIN s : j > i /\ Attends(s, j, k)

Unbinds(s) ==
  \A i \in DOMAIN s : s[i].op = "bind" => \E j \in DOMAIN s : j > i /\ s[j].op = "restore"

Shaped(s) == s \in Seq(Step) /\ Minded(s) /\ Unbinds(s)

KeyInv ==
  /\ down \subseteq Key /\ held \subseteq Key /\ escaped \subseteq Key /\ bound \in BOOLEAN
  /\ todo \in [Actor -> Seq(Step)]
  /\ \A a \in Actor : Shaped(todo[a])
  /\ \A a \in Actor : doing[a] \in {"idle", "marking", "screenshot", "watching"} => todo[a] = <<>>
  /\ NothingUntracked

LEMMA StepKeys ==
  \A s \in Seq(Step) : \A i \in 1 .. Len(s) : s[i] \in Step /\ s[i].keys \subseteq Key
<1>1. \A x \in Step : x.keys \subseteq Key
  BY DEF Step
<1>2. QED
  BY <1>1

LEMMA TailIs ==
  ASSUME NEW s \in Seq(Step), s # <<>>, NEW t, t = Tail(s)
  PROVE  /\ t \in Seq(Step) /\ Len(t) = Len(s) - 1 /\ Len(s) \in Nat
         /\ DOMAIN s = 1 .. Len(s) /\ DOMAIN t = 1 .. Len(t) /\ Head(s) = s[1]
         /\ \A i \in DOMAIN t : t[i] = s[i + 1] /\ i + 1 \in DOMAIN s /\ i \in Nat
         /\ \A j \in DOMAIN s : j > 1 => j - 1 \in DOMAIN t /\ t[j - 1] = s[j] /\ j \in Nat
         /\ \A j \in DOMAIN s : s[j].keys \subseteq Key
<1>1. s \in Seq(Step) /\ t \in Seq(Step) /\ Len(t) = Len(s) - 1 /\ Len(s) \in Nat
  OBVIOUS
<1>2. /\ DOMAIN s = 1 .. Len(s) /\ DOMAIN t = 1 .. Len(t) /\ Head(s) = s[1]
      /\ \A i \in 1 .. Len(t) : t[i] = s[i + 1]
  BY <1>1
<1>3. \A j \in DOMAIN s : s[j].keys \subseteq Key
  BY <1>1, <1>2, StepKeys
<1>4. \A j \in DOMAIN s : j > 1 => j - 1 \in DOMAIN t /\ t[j - 1] = s[j] /\ j \in Nat
  <2>1. ASSUME NEW j \in DOMAIN s, j > 1
        PROVE  j \in Nat /\ j - 1 \in 1 .. Len(t) /\ (j - 1) + 1 = j
    BY <1>1, <1>2, <2>1
  <2>2. QED
    BY <1>2, <2>1
<1>5. \A i \in DOMAIN t : i + 1 \in DOMAIN s /\ i \in Nat
  BY <1>1, <1>2
<1>6. QED
  BY <1>1, <1>2, <1>3, <1>4, <1>5

LEMMA TailShaped ==
  ASSUME NEW s, Shaped(s), s # <<>>
  PROVE  Shaped(Tail(s))
<1> DEFINE t == Tail(s)
<1>1. /\ s \in Seq(Step) /\ t \in Seq(Step) /\ Len(t) = Len(s) - 1 /\ Len(s) \in Nat
      /\ DOMAIN s = 1 .. Len(s) /\ DOMAIN t = 1 .. Len(t) /\ Head(s) = s[1]
      /\ \A i \in DOMAIN t : t[i] = s[i + 1] /\ i + 1 \in DOMAIN s /\ i \in Nat
      /\ \A j \in DOMAIN s : j > 1 => j - 1 \in DOMAIN t /\ t[j - 1] = s[j] /\ j \in Nat
      /\ \A j \in DOMAIN s : s[j].keys \subseteq Key
  BY TailIs DEF Shaped
<1> HIDE DEF t
<1>2. Minded(t)
  <2> SUFFICES ASSUME NEW i \in DOMAIN t, t[i].op = "press", NEW k \in t[i].keys
               PROVE  \E j \in DOMAIN t : j > i /\ Attends(t, j, k)
    BY DEF Minded
  <2>1. PICK j \in DOMAIN s : j > i + 1 /\ Attends(s, j, k)
    BY <1>1 DEF Shaped, Minded
  <2>2. j - 1 \in DOMAIN t /\ t[j - 1] = s[j] /\ j - 1 > i
    BY <1>1, <2>1
  <2>3. QED
    BY <2>1, <2>2 DEF Attends
<1>3. Unbinds(t)
  <2> SUFFICES ASSUME NEW i \in DOMAIN t, t[i].op = "bind"
               PROVE  \E j \in DOMAIN t : j > i /\ t[j].op = "restore"
    BY DEF Unbinds
  <2>1. PICK j \in DOMAIN s : j > i + 1 /\ s[j].op = "restore"
    BY <1>1 DEF Shaped, Unbinds
  <2>2. j - 1 \in DOMAIN t /\ t[j - 1] = s[j] /\ j - 1 > i
    BY <1>1, <2>1
  <2>3. QED
    BY <2>1, <2>2
<1>4. QED
  BY <1>1, <1>2, <1>3 DEF Shaped, t

SameRest(t, s) == \A i \in DOMAIN s : i > 1 => t[i] = s[i]

(* The first step of what is left changes: a drain has become the lift of   *)
(* what it took, or a lift has one key less to lift, now up.                *)
LEMMA HeadShaped ==
  ASSUME NEW s, NEW t, Shaped(s), s # <<>>,
         t \in Seq(Step), Len(t) = Len(s), SameRest(t, s), t[1].op = "lift"
  PROVE  Shaped(t)
<1>1. /\ s \in Seq(Step) /\ Len(s) \in Nat /\ DOMAIN s = 1 .. Len(s) /\ DOMAIN t = DOMAIN s
      /\ \A i \in DOMAIN s : i \in Nat /\ i >= 1 /\ s[i].keys \subseteq Key
      /\ \A i \in DOMAIN s : i > 1 => t[i] = s[i]
  BY StepKeys DEF Shaped, SameRest
<1>2. Minded(t)
  <2> SUFFICES ASSUME NEW i \in DOMAIN t, t[i].op = "press", NEW k \in t[i].keys
               PROVE  \E j \in DOMAIN t : j > i /\ Attends(t, j, k)
    BY DEF Minded
  <2>1. i > 1 /\ t[i] = s[i]
    BY <1>1
  <2>2. PICK j \in DOMAIN s : j > i /\ Attends(s, j, k)
    BY <1>1, <2>1 DEF Shaped, Minded
  <2>3. QED
    BY <1>1, <2>1, <2>2 DEF Attends
<1>3. Unbinds(t)
  <2> SUFFICES ASSUME NEW i \in DOMAIN t, t[i].op = "bind"
               PROVE  \E j \in DOMAIN t : j > i /\ t[j].op = "restore"
    BY DEF Unbinds
  <2>1. i > 1 /\ t[i] = s[i]
    BY <1>1
  <2>2. PICK j \in DOMAIN s : j > i /\ s[j].op = "restore"
    BY <1>1, <2>1 DEF Shaped, Unbinds
  <2>3. QED
    BY <1>1, <2>1, <2>2
<1>4. QED
  BY <1>2, <1>3 DEF Shaped

-----------------------------------------------------------------------------
(* Every call starts out so.                                                *)
LEMMA DoIsStep ==
  ASSUME NEW op \in {"press", "latch", "lift", "note", "forget", "drain", "bind", "restore"},
         NEW keys \in SUBSET Key
  PROVE  Do(op, keys) \in Step /\ Do(op, keys).op = op /\ Do(op, keys).keys = keys
BY DEF Do, Step

LEMMA Solo == ASSUME NEW x \in Step  PROVE <<x>> \in Seq(Step) /\ Len(<<x>>) = 1 /\ <<x>>[1] = x
OBVIOUS

LEMMA Pair ==
  ASSUME NEW x \in Step, NEW y \in Step
  PROVE  <<x, y>> \in Seq(Step) /\ Len(<<x, y>>) = 2 /\ <<x, y>>[1] = x /\ <<x, y>>[2] = y
OBVIOUS

LEMMA Joined ==
  ASSUME NEW s \in Seq(Step), NEW t \in Seq(Step), NEW r, r = s \o t
  PROVE  /\ r \in Seq(Step) /\ Len(r) = Len(s) + Len(t)
         /\ \A i \in 1 .. Len(s) : r[i] = s[i]
         /\ \A i \in 1 .. Len(t) : r[Len(s) + i] = t[i]
OBVIOUS

LEMMA ThreeJoined ==
  ASSUME NEW p \in Seq(Step), NEW t \in Seq(Step), NEW q \in Seq(Step), NEW s, s = p \o t \o q
  PROVE  /\ s \in Seq(Step) /\ Len(s) = Len(p) + Len(t) + Len(q)
         /\ \A i \in 1 .. Len(p) : s[i] = p[i]
         /\ \A i \in 1 .. Len(t) : s[Len(p) + i] = t[i]
         /\ \A i \in 1 .. Len(q) : s[Len(p) + Len(t) + i] = q[i]
<1> DEFINE r == p \o t
<1>1. r = p \o t /\ s = r \o q
  OBVIOUS
<1> HIDE DEF r
<1>2. /\ r \in Seq(Step) /\ Len(r) = Len(p) + Len(t)
      /\ \A i \in 1 .. Len(p) : r[i] = p[i]
      /\ \A i \in 1 .. Len(t) : r[Len(p) + i] = t[i]
  BY <1>1, Joined
<1>3. r \in Seq(Step)
  BY <1>2
<1>4. /\ s \in Seq(Step) /\ Len(s) = Len(r) + Len(q)
      /\ \A i \in 1 .. Len(r) : s[i] = r[i]
      /\ \A i \in 1 .. Len(q) : s[Len(r) + i] = q[i]
  BY <1>1, <1>3, Joined
<1>5. \A i \in 1 .. Len(p) : i \in 1 .. Len(r)
  BY <1>2
<1>6. \A i \in 1 .. Len(t) : Len(p) + i \in 1 .. Len(r)
  BY <1>2
<1>7. QED
  BY <1>2, <1>4, <1>5, <1>6

LEMMA OneStep ==
  ASSUME NEW x \in Step, x.op = "latch"
  PROVE  Shaped(<<x>>)
<1> DEFINE s == <<x>>
<1>1. s \in Seq(Step) /\ DOMAIN s = 1 .. 1 /\ s[1] = x
  OBVIOUS
<1> HIDE DEF s
<1>2. Minded(s) /\ Unbinds(s)
  BY <1>1 DEF Minded, Attends, Unbinds
<1>3. QED
  BY <1>1, <1>2 DEF Shaped, s

LEMMA TwoSteps ==
  ASSUME NEW x \in Step, NEW y \in Step,
         x.op \in {"press", "lift", "drain"}, y.op \in {"lift", "note", "forget", "drain"},
         x.op = "press" => x.keys \subseteq y.keys /\ y.op \in {"lift", "note"}
  PROVE  Shaped(<<x, y>>)
<1> DEFINE s == <<x, y>>
<1>1. s \in Seq(Step) /\ DOMAIN s = 1 .. 2 /\ s[1] = x /\ s[2] = y
  OBVIOUS
<1> HIDE DEF s
<1>2. DOMAIN s = {1, 2}
  BY <1>1
<1>3. Minded(s) /\ Unbinds(s)
  BY <1>1, <1>2 DEF Minded, Attends, Unbinds
<1>4. QED
  BY <1>1, <1>3 DEF Shaped, s

(* A drag's four steps.                                                     *)
LEMMA DragShaped == Shaped(Drag)
<1> DEFINE s == Drag
<1>1. /\ s \in Seq(Step) /\ Len(s) = 4
      /\ s[1] = Do("press", {Left}) /\ s[2] = Do("note", {Left})
      /\ s[3] = Do("lift", {Left}) /\ s[4] = Do("forget", {Left})
  <2> DEFINE x == <<Do("press", {Left}), Do("note", {Left})>>
             y == <<Do("lift", {Left}), Do("forget", {Left})>>
  <2>1. \A op \in {"press", "note", "lift", "forget"} : Do(op, {Left}) \in Step
    BY KeyAssumption, DoIsStep DEF Key
  <2>2. /\ x \in Seq(Step) /\ Len(x) = 2 /\ x[1] = Do("press", {Left}) /\ x[2] = Do("note", {Left})
        /\ y \in Seq(Step) /\ Len(y) = 2 /\ y[1] = Do("lift", {Left}) /\ y[2] = Do("forget", {Left})
    BY <2>1, Pair
  <2>3. s = x \o y /\ x \in Seq(Step) /\ y \in Seq(Step)
    BY <2>2 DEF Drag, KeyDown, KeyUp
  <2> HIDE DEF x, y, s
  <2>4. /\ s \in Seq(Step) /\ Len(s) = Len(x) + Len(y)
        /\ \A i \in 1 .. Len(x) : s[i] = x[i]
        /\ \A i \in 1 .. Len(y) : s[Len(x) + i] = y[i]
    BY <2>3, Joined
  <2>5. s[1] = x[1] /\ s[2] = x[2] /\ s[2 + 1] = y[1] /\ s[2 + 2] = y[2]
    BY <2>2, <2>4
  <2>6. QED
    BY <2>2, <2>4, <2>5
<1> HIDE DEF s
<1>2. DOMAIN s = {1, 2, 3, 4}
  BY <1>1
<1>3. Minded(s) /\ Unbinds(s)
  BY <1>1, <1>2 DEF Do, Minded, Attends, Unbinds
<1>4. QED
  BY <1>1, <1>3 DEF Shaped, s

LEMMA ScratchTap ==
  ASSUME NEW k \in Key, ~OnLayout(k)
  PROVE  /\ Tap(k) \in Seq(Step) /\ Len(Tap(k)) = 4
         /\ Tap(k)[1] = Do("bind", {k}) /\ Tap(k)[2] = Do("press", {k})
         /\ Tap(k)[3] = Do("lift", {k}) /\ Tap(k)[4] = Do("restore", {k})
<1> DEFINE x == <<Do("bind", {k})>>
           y == <<Do("press", {k}), Do("lift", {k})>>
           z == <<Do("restore", {k})>>
<1>1. \A op \in {"bind", "press", "lift", "restore"} : Do(op, {k}) \in Step
  BY DoIsStep
<1>2. /\ x \in Seq(Step) /\ Len(x) = 1 /\ x[1] = Do("bind", {k})
      /\ y \in Seq(Step) /\ Len(y) = 2 /\ y[1] = Do("press", {k}) /\ y[2] = Do("lift", {k})
      /\ z \in Seq(Step) /\ Len(z) = 1 /\ z[1] = Do("restore", {k})
  BY <1>1, Pair, Solo
<1>3. /\ Tap(k) = x \o y \o z
      /\ x \in Seq(Step) /\ y \in Seq(Step) /\ z \in Seq(Step)
  BY <1>2 DEF Tap, PressAndLift
<1> HIDE DEF x, y, z
<1>4. /\ Tap(k) \in Seq(Step) /\ Len(Tap(k)) = Len(x) + Len(y) + Len(z)
      /\ \A i \in 1 .. Len(x) : Tap(k)[i] = x[i]
      /\ \A i \in 1 .. Len(y) : Tap(k)[Len(x) + i] = y[i]
      /\ \A i \in 1 .. Len(z) : Tap(k)[Len(x) + Len(y) + i] = z[i]
  BY <1>3, ThreeJoined
<1>5. /\ Tap(k)[1] = x[1] /\ Tap(k)[1 + 1] = y[1] /\ Tap(k)[1 + 2] = y[2]
      /\ Tap(k)[1 + 2 + 1] = z[1]
  BY <1>2, <1>4
<1>6. QED
  BY <1>2, <1>4, <1>5

LEMMA TapShaped ==
  ASSUME NEW k \in Key
  PROVE  Shaped(Tap(k))
<1>1. CASE OnLayout(k)
  BY <1>1, DoIsStep, TwoSteps DEF Tap, PressAndLift
<1>2. CASE ~OnLayout(k)
  <2> DEFINE s == Tap(k)
  <2>1. /\ s \in Seq(Step) /\ Len(s) = 4
        /\ s[1] = Do("bind", {k}) /\ s[2] = Do("press", {k})
        /\ s[3] = Do("lift", {k}) /\ s[4] = Do("restore", {k})
    BY <1>2, ScratchTap
  <2> HIDE DEF s
  <2>2. DOMAIN s = {1, 2, 3, 4}
    BY <2>1
  <2>3. Minded(s) /\ Unbinds(s)
    BY <2>1, <2>2 DEF Do, Minded, Attends, Unbinds
  <2>4. QED
    BY <2>1, <2>3 DEF Shaped, s
<1>3. QED
  BY <1>1, <1>2

LEMMA ComboShaped ==
  ASSUME NEW m \in Key, NEW k \in Key
  PROVE  Shaped(Combo(m, k))
<1> DEFINE s == Combo(m, k)
<1>1. CASE OnLayout(k)
  <2>1. /\ s \in Seq(Step) /\ Len(s) = 4
        /\ s[1] = Do("press", {m}) /\ s[2] = Do("press", {k})
        /\ s[3] = Do("lift", {k}) /\ s[4] = Do("lift", {m})
    <3> DEFINE t == <<Do("press", {k}), Do("lift", {k})>>
    <3>1. \A op \in {"press", "lift"} : Do(op, {k}) \in Step /\ Do(op, {m}) \in Step
      BY DoIsStep
    <3>2. t \in Seq(Step) /\ Len(t) = 2 /\ t[1] = Do("press", {k}) /\ t[2] = Do("lift", {k})
      BY <3>1, Pair
    <3> DEFINE p == <<Do("press", {m})>>
               q == <<Do("lift", {m})>>
    <3>3. /\ p \in Seq(Step) /\ Len(p) = 1 /\ p[1] = Do("press", {m})
          /\ q \in Seq(Step) /\ Len(q) = 1 /\ q[1] = Do("lift", {m})
      BY <3>1, Solo
    <3>4. s = p \o t \o q /\ p \in Seq(Step) /\ t \in Seq(Step) /\ q \in Seq(Step)
      BY <1>1, <3>2, <3>3 DEF Combo, Tap, PressAndLift
    <3> HIDE DEF t, p, q, s
    <3>5. /\ s \in Seq(Step) /\ Len(s) = Len(p) + Len(t) + Len(q)
          /\ \A i \in 1 .. Len(p) : s[i] = p[i]
          /\ \A i \in 1 .. Len(t) : s[Len(p) + i] = t[i]
          /\ \A i \in 1 .. Len(q) : s[Len(p) + Len(t) + i] = q[i]
      BY <3>4, ThreeJoined
    <3>6. s[1] = p[1] /\ s[1 + 1] = t[1] /\ s[1 + 2] = t[2] /\ s[1 + 2 + 1] = q[1]
      BY <3>2, <3>3, <3>5
    <3>7. QED
      BY <3>2, <3>3, <3>5, <3>6
  <2> HIDE DEF s
  <2>2. DOMAIN s = {1, 2, 3, 4}
    BY <2>1
  <2>3. Minded(s) /\ Unbinds(s)
    BY <2>1, <2>2 DEF Do, Minded, Attends, Unbinds
  <2>4. QED
    BY <2>1, <2>3 DEF Shaped, s
<1>2. CASE ~OnLayout(k)
  <2>1. /\ s \in Seq(Step) /\ Len(s) = 6
        /\ s[1] = Do("press", {m}) /\ s[2] = Do("bind", {k}) /\ s[3] = Do("press", {k})
        /\ s[4] = Do("lift", {k}) /\ s[5] = Do("restore", {k}) /\ s[6] = Do("lift", {m})
    <3> DEFINE t == Tap(k)
    <3>1. /\ t \in Seq(Step) /\ Len(t) = 4
          /\ t[1] = Do("bind", {k}) /\ t[2] = Do("press", {k})
          /\ t[3] = Do("lift", {k}) /\ t[4] = Do("restore", {k})
      BY <1>2, ScratchTap
    <3> DEFINE p == <<Do("press", {m})>>
               q == <<Do("lift", {m})>>
    <3>2. /\ p \in Seq(Step) /\ Len(p) = 1 /\ p[1] = Do("press", {m})
          /\ q \in Seq(Step) /\ Len(q) = 1 /\ q[1] = Do("lift", {m})
      BY DoIsStep, Solo
    <3>3. s = p \o t \o q /\ p \in Seq(Step) /\ t \in Seq(Step) /\ q \in Seq(Step)
      BY <3>1, <3>2 DEF Combo
    <3> HIDE DEF t, p, q, s
    <3>4. /\ s \in Seq(Step) /\ Len(s) = Len(p) + Len(t) + Len(q)
          /\ \A i \in 1 .. Len(p) : s[i] = p[i]
          /\ \A i \in 1 .. Len(t) : s[Len(p) + i] = t[i]
          /\ \A i \in 1 .. Len(q) : s[Len(p) + Len(t) + i] = q[i]
      BY <3>3, ThreeJoined
    <3>5. /\ s[1] = p[1] /\ s[1 + 1] = t[1] /\ s[1 + 2] = t[2] /\ s[1 + 3] = t[3]
          /\ s[1 + 4] = t[4] /\ s[1 + 4 + 1] = q[1]
      BY <3>1, <3>2, <3>4
    <3>6. QED
      BY <3>1, <3>2, <3>4, <3>5
  <2> HIDE DEF s
  <2>2. DOMAIN s = {1, 2, 3, 4, 5, 6}
    BY <2>1
  <2>3. Minded(s) /\ Unbinds(s)
    BY <2>1, <2>2 DEF Do, Minded, Attends, Unbinds
  <2>4. QED
    BY <2>1, <2>3 DEF Shaped, s
<1>3. QED
  BY <1>1, <1>2

LEMMA Prepended ==
  ASSUME NEW s \in Seq(Step), s # <<>>, NEW x \in Step, NEW t, t = <<x>> \o Tail(s)
  PROVE  /\ t \in Seq(Step) /\ Len(t) = Len(s) /\ t[1] = x
         /\ \A i \in DOMAIN s : i > 1 => t[i] = s[i]
<1> DEFINE p == <<x>>
           r == Tail(s)
<1>1. p \in Seq(Step) /\ Len(p) = 1 /\ p[1] = x
  BY Solo
<1>2. /\ r \in Seq(Step) /\ Len(r) = Len(s) - 1 /\ Len(s) \in Nat /\ DOMAIN s = 1 .. Len(s)
      /\ \A j \in DOMAIN s : j > 1 => j - 1 \in 1 .. Len(r) /\ r[j - 1] = s[j] /\ j \in Nat
  BY TailIs
<1>3. t = p \o r /\ p \in Seq(Step) /\ r \in Seq(Step)
  BY <1>1, <1>2
<1> HIDE DEF p, r
<1>4. /\ t \in Seq(Step) /\ Len(t) = Len(p) + Len(r)
      /\ \A i \in 1 .. Len(p) : t[i] = p[i]
      /\ \A i \in 1 .. Len(r) : t[Len(p) + i] = r[i]
  BY <1>3, Joined
<1>5. t[1] = x /\ Len(t) = Len(s)
  BY <1>1, <1>2, <1>4
<1>6. ASSUME NEW i \in DOMAIN s, i > 1  PROVE t[i] = s[i]
  <2>1. i - 1 \in 1 .. Len(r) /\ r[i - 1] = s[i] /\ i \in Nat /\ 1 + (i - 1) = i
    BY <1>2, <1>6
  <2>2. t[1 + (i - 1)] = r[i - 1]
    BY <1>1, <1>4, <2>1
  <2>3. QED
    BY <2>1, <2>2
<1>7. QED
  BY <1>4, <1>5, <1>6

LEMMA CallsAreShaped ==
  /\ \A s \in Inputs \cup Failures : Shaped(s)
  /\ Shaped(ReleaseAll)
<1>1. Used \subseteq Key
  BY ActorAssumption
<1>2. \A k \in Used : OnLayout(k) => Shaped(KeyDown(k)) /\ Shaped(KeyUp(k))
  BY <1>1, DoIsStep, TwoSteps DEF KeyDown, KeyUp, OnLayout
<1>3. Shaped(<<>>)
  BY DEF Shaped, Minded, Unbinds
<1>4. ASSUME NEW m \in Used
      PROVE  Shaped(ComboUnknownKey(m)) /\ Shaped(ComboUnknownModifier(m))
  BY <1>1, DoIsStep, OneStep, TwoSteps DEF ComboUnknownKey, ComboUnknownModifier
<1>5. Left \in Used => Shaped(DragOffScreen)
  BY <1>2, KeyAssumption DEF DragOffScreen, OnLayout
<1>6. Shaped(ReleaseAll)
  BY DoIsStep, TwoSteps DEF ReleaseAll, Key
<1>7. ASSUME NEW s, s \in Inputs  PROVE Shaped(s)
  <2>1. \/ s = <<>>
        \/ \E k \in Used : s = Tap(k)
        \/ \E k \in Used : OnLayout(k) /\ (s = KeyDown(k) \/ s = KeyUp(k))
        \/ \E m \in Used, k \in Used : s = Combo(m, k)
        \/ s = Drag /\ Left \in Used
    <3>1. ASSUME s \in {Tap(k) : k \in Used}  PROVE \E k \in Used : s = Tap(k)
      BY <3>1
    <3>2. ASSUME s \in UNION {{KeyDown(k), KeyUp(k)} : k \in {j \in Used : OnLayout(j)}}
          PROVE  \E k \in Used : OnLayout(k) /\ (s = KeyDown(k) \/ s = KeyUp(k))
      BY <3>2
    <3>3. ASSUME s \in {Combo(m, k) : m \in Used \cap Named, k \in Used \ Buttons}
          PROVE  \E m \in Used, k \in Used : s = Combo(m, k)
      BY <3>3
    <3>4. ASSUME s \in {t \in {Drag} : Left \in Used}  PROVE s = Drag /\ Left \in Used
      BY <3>4
    <3>5. \/ s \in Undriven
          \/ s \in {Tap(k) : k \in Used}
          \/ s \in UNION {{KeyDown(k), KeyUp(k)} : k \in {j \in Used : OnLayout(j)}}
          \/ s \in {Combo(m, k) : m \in Used \cap Named, k \in Used \ Buttons}
          \/ s \in {t \in {Drag} : Left \in Used}
      BY <1>7 DEF Inputs
    <3>6. QED
      BY <3>1, <3>2, <3>3, <3>4, <3>5 DEF Undriven
  <2>2. \A k \in Used : Shaped(Tap(k))
    BY <1>1, TapShaped
  <2>3. \A m \in Used, k \in Used : Shaped(Combo(m, k))
    BY <1>1, ComboShaped
  <2>4. Left \in Used => Shaped(Drag)
    BY DragShaped
  <2>5. QED
    BY <1>2, <1>3, <2>1, <2>2, <2>3, <2>4
<1>8. ASSUME NEW s, s \in Failures  PROVE Shaped(s)
  <2>1. \/ \E m \in Used : s = ComboUnknownKey(m) \/ s = ComboUnknownModifier(m)
        \/ s = DragOffScreen /\ Left \in Used
    <3>1. ASSUME s \in UNION {{ComboUnknownKey(m), ComboUnknownModifier(m)} : m \in Used \cap Named}
          PROVE  \E m \in Used : s = ComboUnknownKey(m) \/ s = ComboUnknownModifier(m)
      BY <3>1
    <3>2. ASSUME s \in {t \in {DragOffScreen} : Left \in Used}
          PROVE  s = DragOffScreen /\ Left \in Used
      BY <3>2
    <3>3. \/ s \in UNION {{ComboUnknownKey(m), ComboUnknownModifier(m)} : m \in Used \cap Named}
          \/ s \in {t \in {DragOffScreen} : Left \in Used}
      BY <1>8 DEF Failures
    <3>4. QED
      BY <3>1, <3>2, <3>3
  <2>2. QED
    BY <1>4, <1>5, <2>1
<1>9. QED
  BY <1>6, <1>7, <1>8

-----------------------------------------------------------------------------
(* One actor's calls move on, or a new one starts.                          *)
LEMMA AllStayShaped ==
  ASSUME KeyInv, NEW a \in Actor, NEW s, todo' = [todo EXCEPT ![a] = s],
         Shaped(s)
  PROVE  /\ todo' \in [Actor -> Seq(Step)] /\ todo'[a] = s
         /\ \A b \in Actor : Shaped(todo'[b])
<1>1. todo' \in [Actor -> Seq(Step)] /\ todo'[a] = s /\ \A b \in Actor \ {a} : todo'[b] = todo[b]
  BY DEF KeyInv, Shaped
<1>2. ASSUME NEW b \in Actor \ {a}  PROVE Shaped(todo'[b])
  BY <1>1 DEF KeyInv
<1>3. QED
  BY <1>1, <1>2

Outlasts(t, s) == \A j \in DOMAIN s : j > 1 => \E i \in DOMAIN t : t[i] = s[j]

AttendedIn(steps, k) == \E a \in Actor : \E i \in DOMAIN steps[a] : Attends(steps[a], i, k)

(* What is still to be done of actor a's calls is attended as before, but    *)
(* for the step at their head.                                              *)
LEMMA StaysAttended ==
  ASSUME KeyInv, NEW a \in Actor, todo[a] # <<>>, NEW s, todo' = [todo EXCEPT ![a] = s],
         Outlasts(s, todo[a])
  PROVE  /\ \A k : AttendedIn(todo, k) => AttendedIn(todo', k) \/ Attends(todo[a], 1, k)
         /\ ToBeRestored => ToBeRestored' \/ todo[a][1].op = "restore"
<1>1. DOMAIN todo = Actor /\ todo'[a] = s /\ \A b \in Actor \ {a} : todo'[b] = todo[b]
  BY DEF KeyInv
<1>2. \A j \in DOMAIN todo[a] : j \in Nat /\ j >= 1
  BY DEF KeyInv, Shaped
<1>3. ASSUME NEW k, AttendedIn(todo, k), ~Attends(todo[a], 1, k)  PROVE AttendedIn(todo', k)
  <2>1. PICK b \in Actor : \E j \in DOMAIN todo[b] : Attends(todo[b], j, k)
    BY <1>3 DEF AttendedIn, Attends
  <2>2. PICK j \in DOMAIN todo[b] : Attends(todo[b], j, k)
    BY <2>1
  <2>3. CASE b = a
    <3>1. j > 1
      BY <1>2, <1>3, <2>2, <2>3
    <3>2. PICK i \in DOMAIN s : s[i] = todo[a][j]
      BY <2>2, <2>3, <3>1 DEF Outlasts
    <3>3. QED
      BY <1>1, <2>2, <2>3, <3>2 DEF AttendedIn, Attends
  <2>4. CASE b # a
    BY <1>1, <2>2, <2>4 DEF AttendedIn, Attends
  <2>5. QED
    BY <2>3, <2>4
<1>4. ASSUME ToBeRestored, todo[a][1].op # "restore"  PROVE ToBeRestored'
  <2>1. PICK b \in Actor : \E j \in DOMAIN todo[b] : todo[b][j].op = "restore"
    BY <1>4 DEF ToBeRestored
  <2>2. PICK j \in DOMAIN todo[b] : todo[b][j].op = "restore"
    BY <2>1
  <2>3. CASE b = a
    <3>1. j > 1
      BY <1>2, <1>4, <2>2, <2>3
    <3>2. PICK i \in DOMAIN s : s[i] = todo[a][j]
      BY <2>2, <2>3, <3>1 DEF Outlasts
    <3>3. QED
      BY <1>1, <2>2, <2>3, <3>2 DEF ToBeRestored
  <2>4. CASE b # a
    BY <1>1, <2>2, <2>4 DEF ToBeRestored
  <2>5. QED
    BY <2>3, <2>4
<1>5. QED
  BY <1>3, <1>4

(* A step that is done leaves the rest of its actor's calls.                *)
LEMMA DoneShaped ==
  ASSUME KeyInv, NEW a \in Actor, todo[a] # <<>>, StepDone(a)
  PROVE  /\ todo' \in [Actor -> Seq(Step)]
         /\ \A b \in Actor : Shaped(todo'[b])
         /\ \A k : AttendedIn(todo, k) => AttendedIn(todo', k) \/ Attends(todo[a], 1, k)
         /\ ToBeRestored => ToBeRestored' \/ todo[a][1].op = "restore"
         /\ Head(todo[a]) = todo[a][1] /\ todo[a][1] \in Step /\ 1 \in DOMAIN todo[a]
         /\ \A j \in DOMAIN todo[a] : j > 1 =>
              /\ j - 1 \in DOMAIN todo'[a] /\ todo'[a][j - 1] = todo[a][j]
<1> DEFINE s == todo[a]
           t == Tail(s)
<1>1. /\ s # <<>> /\ Shaped(s) /\ s \in Seq(Step) /\ t = Tail(s)
      /\ DOMAIN todo = Actor
      /\ todo' = [todo EXCEPT ![a] = t]
  BY DEF KeyInv, Shaped, StepDone
<1> HIDE DEF t
<1>3. Shaped(t)
  BY <1>1, TailShaped
<1>4. /\ Head(s) = s[1] /\ s[1] \in Step /\ 1 \in DOMAIN s
      /\ \A j \in DOMAIN s : j > 1 => j - 1 \in DOMAIN t /\ t[j - 1] = s[j]
  BY <1>1, TailIs
<1>5. Outlasts(t, s)
  BY <1>4 DEF Outlasts
<1>6. /\ \A k : AttendedIn(todo, k) => AttendedIn(todo', k) \/ Attends(s, 1, k)
      /\ ToBeRestored => ToBeRestored' \/ s[1].op = "restore"
  <2>1. \A k : AttendedIn(todo, k) => AttendedIn(todo', k) \/ Attends(s, 1, k)
    BY <1>1, <1>5, StaysAttended
  <2>2. ToBeRestored => ToBeRestored' \/ s[1].op = "restore"
    BY <1>1, <1>5, StaysAttended
  <2>3. QED
    BY <2>1, <2>2
<1>7. /\ todo' \in [Actor -> Seq(Step)] /\ todo'[a] = t
      /\ \A b \in Actor : Shaped(todo'[b])
  BY <1>1, <1>3, AllStayShaped
<1>8. QED
  BY <1>4, <1>6, <1>7

(* The first step of an actor's calls becomes the lift of keys.             *)
LEMMA TurnedShaped ==
  ASSUME KeyInv, NEW a \in Actor, todo[a] # <<>>, NEW keys \in SUBSET Key,
         todo' = [todo EXCEPT ![a] = <<Do("lift", keys)>> \o Tail(@)],
         todo[a][1].op \in {"drain", "lift"}
  PROVE  /\ todo' \in [Actor -> Seq(Step)]
         /\ 1 \in DOMAIN todo'[a] /\ todo'[a][1] = Do("lift", keys)
         /\ \A b \in Actor : Shaped(todo'[b])
         /\ \A k : AttendedIn(todo, k) => AttendedIn(todo', k) \/ Attends(todo[a], 1, k)
         /\ ToBeRestored => ToBeRestored'
<1> DEFINE s == todo[a]
           t == <<Do("lift", keys)>> \o Tail(s)
<1>1. /\ s # <<>> /\ Shaped(s) /\ s \in Seq(Step) /\ DOMAIN todo = Actor
      /\ t = <<Do("lift", keys)>> \o Tail(s) /\ todo' = [todo EXCEPT ![a] = t]
  BY DEF KeyInv, Shaped
<1>2. Do("lift", keys) \in Step /\ Do("lift", keys).op = "lift" /\ Do("lift", keys).keys = keys
  BY DoIsStep
<1> HIDE DEF t
<1>3. /\ t \in Seq(Step) /\ Len(t) = Len(s) /\ t[1] = Do("lift", keys)
      /\ \A i \in DOMAIN s : i > 1 => t[i] = s[i]
  BY <1>1, <1>2, Prepended
<1>4. Shaped(t)
  <2>1. /\ SameRest(t, s) /\ t[1].op = "lift" /\ t \in Seq(Step) /\ Len(t) = Len(s)
    BY <1>2, <1>3 DEF SameRest
  <2>2. QED
    BY <1>1, <2>1, HeadShaped
<1>5. DOMAIN t = DOMAIN s /\ 1 \in DOMAIN s
  BY <1>1, <1>3
<1>6. Outlasts(t, s)
  BY <1>3, <1>5 DEF Outlasts
<1>7. /\ \A k : AttendedIn(todo, k) => AttendedIn(todo', k) \/ Attends(s, 1, k)
      /\ ToBeRestored => ToBeRestored' \/ s[1].op = "restore"
  BY <1>1, <1>6, StaysAttended
<1>8. /\ todo' \in [Actor -> Seq(Step)] /\ todo'[a] = t
      /\ \A b \in Actor : Shaped(todo'[b])
  BY <1>1, <1>4, AllStayShaped
<1>9. QED
  BY <1>3, <1>5, <1>7, <1>8

-----------------------------------------------------------------------------
(* A driver's step. What it finds at the head of its calls is the step that *)
(* it takes.                                                                *)
Accounted(k) == k \in held \/ k \in escaped \/ AttendedIn(todo, k)

LEMMA Tracked == NothingUntracked <=> (\A k \in down : Accounted(k)) /\ (bound => ToBeRestored)
BY DEF NothingUntracked, Accounted, AttendedIn, Attended, Attends

LEMMA DriverStepTracks ==
  ASSUME KeyInv, NEW a \in Actor, DriverStep(a)
  PROVE  /\ todo' \in [Actor -> Seq(Step)]
         /\ \A b \in Actor : Shaped(todo'[b])
         /\ \A k \in down' : k \in held' \/ k \in escaped' \/ AttendedIn(todo', k)
         /\ bound' => ToBeRestored'
         /\ down' \subseteq Key /\ held' \subseteq Key /\ escaped' \subseteq Key
         /\ bound' \in BOOLEAN
         /\ todo[a] # <<>> /\ \A b \in Actor \ {a} : todo'[b] = todo[b]
<1> DEFINE s == todo[a]
           x == s[1]
           Kept == /\ todo' \in [Actor -> Seq(Step)]
                   /\ \A b \in Actor : Shaped(todo'[b])
                   /\ \A k : AttendedIn(todo, k) => AttendedIn(todo', k) \/ Attends(s, 1, k)
                   /\ ToBeRestored => ToBeRestored' \/ x.op = "restore"
           Done == Kept /\ \A j \in DOMAIN s : j > 1 =>
                             j - 1 \in DOMAIN todo'[a] /\ todo'[a][j - 1] = s[j]
           Typed == /\ down' \subseteq Key /\ held' \subseteq Key /\ escaped' \subseteq Key
                    /\ bound' \in BOOLEAN
           Fine == /\ \A k \in down' : k \in held' \/ k \in escaped' \/ AttendedIn(todo', k)
                   /\ bound' => ToBeRestored'
<1>1. /\ s # <<>> /\ s \in Seq(Step) /\ Head(s) = x /\ x \in Step /\ 1 \in DOMAIN s
      /\ \A j \in DOMAIN s : j \in Nat
      /\ Shaped(s) /\ x.keys \subseteq Key /\ Keys(a) = x.keys
  <2>1. s # <<>> /\ s \in Seq(Step) /\ Shaped(s)
    BY DEF KeyInv, Shaped, DriverStep, Reaches, Press, Latch, Note, Forget, Drain, Lift, Bind,
           Restore
  <2>2. /\ Len(s) \in Nat /\ DOMAIN s = 1 .. Len(s) /\ Head(s) = x /\ 1 \in DOMAIN s
    BY <2>1
  <2>3. x \in Step /\ x.keys \subseteq Key
    BY <2>1, <2>2, StepKeys
  <2>4. QED
    BY <2>1, <2>2, <2>3 DEF Keys
<1>2. /\ \A k \in down : k \in held \/ k \in escaped \/ AttendedIn(todo, k)
      /\ bound => ToBeRestored
      /\ down \subseteq Key /\ held \subseteq Key /\ escaped \subseteq Key /\ bound \in BOOLEAN
  BY Tracked DEF KeyInv, Accounted
<1>3. ASSUME StepDone(a)  PROVE Done
  BY <1>1, <1>3, DoneShaped
<1>4. /\ x.op = "press" => \A k \in x.keys : \E j \in DOMAIN s : j > 1 /\ Attends(s, j, k)
      /\ x.op = "bind" => \E j \in DOMAIN s : j > 1 /\ s[j].op = "restore"
  BY <1>1 DEF Shaped, Minded, Unbinds
<1>5. ASSUME Press(a)  PROVE Kept /\ Typed /\ Fine
  <2>1. /\ x.op = "press" /\ down' = down \cup x.keys /\ StepDone(a)
        /\ UNCHANGED <<held, bound, escaped>>
    BY <1>1, <1>5 DEF Press, Reaches
  <2>2. Done
    BY <1>3, <1>4, <2>1
  <2>3. \A k : ~Attends(s, 1, k)
    BY <2>1 DEF Attends
  <2>4. ASSUME NEW k \in x.keys  PROVE AttendedIn(todo', k)
    <3>1. PICK j \in DOMAIN s : j > 1 /\ Attends(s, j, k)
      BY <1>4, <2>1
    <3>2. QED
      BY <2>2, <3>1 DEF AttendedIn, Attends
  <2>5. QED
    BY <1>1, <1>2, <2>1, <2>2, <2>3, <2>4
<1>6. ASSUME Latch(a)  PROVE Kept /\ Typed /\ Fine
  <2>1. /\ x.op = "latch" /\ down' = down \cup x.keys /\ escaped' = escaped \cup x.keys
        /\ StepDone(a) /\ UNCHANGED <<held, bound>>
    BY <1>1, <1>6 DEF Latch, Reaches
  <2>2. Done /\ \A k : ~Attends(s, 1, k)
    BY <1>3, <1>4, <2>1 DEF Attends
  <2>3. QED
    BY <1>1, <1>2, <2>1, <2>2
<1>7. ASSUME Note(a)  PROVE Kept /\ Typed /\ Fine
  <2>1. /\ x.op = "note" /\ held' = held \cup x.keys /\ escaped' = escaped \ x.keys
        /\ StepDone(a) /\ UNCHANGED <<down, bound>>
    BY <1>1, <1>7 DEF Note, Reaches
  <2>2. Done /\ \A k : Attends(s, 1, k) => k \in held'
    BY <1>3, <2>1 DEF Attends
  <2>3. QED
    BY <1>1, <1>2, <2>1, <2>2
<1>8. ASSUME Forget(a)  PROVE Kept /\ Typed /\ Fine
  <2>1. /\ x.op = "forget" /\ held' = held \ x.keys
        /\ escaped' = escaped \cup (down \cap x.keys)
        /\ StepDone(a) /\ UNCHANGED <<down, bound>>
    BY <1>1, <1>8 DEF Forget, Reaches
  <2>2. Done /\ \A k : ~Attends(s, 1, k)
    BY <1>3, <2>1 DEF Attends
  <2>3. QED
    BY <1>1, <1>2, <2>1, <2>2
<1>9. ASSUME Drain(a)  PROVE Kept /\ Typed /\ Fine
  <2> DEFINE keys == held \cap x.keys
  <2>1. /\ x.op = "drain" /\ held' = held \ x.keys /\ UNCHANGED <<down, bound, escaped>>
        /\ todo' = [todo EXCEPT ![a] = <<Do("lift", keys)>> \o Tail(@)] /\ keys \subseteq Key
    BY <1>1, <1>2, <1>9 DEF Drain, Reaches
  <2>2. Do("lift", keys).op = "lift" /\ Do("lift", keys).keys = keys
    BY DEF Do
  <2>3. \A k \in keys : k \notin held' /\ k \in held /\ k \in x.keys
    BY <2>1
  <2>4. \A k \in held : k \in held' \/ k \in keys
    BY <2>1
  <2> HIDE DEF keys
  <2>5. /\ Kept /\ 1 \in DOMAIN todo'[a] /\ todo'[a][1] = Do("lift", keys)
        /\ ToBeRestored => ToBeRestored'
    BY <1>1, <2>1, TurnedShaped
  <2>6. \A k \in keys : AttendedIn(todo', k)
    BY <2>2, <2>5 DEF AttendedIn, Attends
  <2>7. \A k : ~Attends(s, 1, k)
    BY <2>1 DEF Attends
  <2>8. QED
    BY <1>2, <2>1, <2>4, <2>5, <2>6, <2>7
<1>10. ASSUME Lift(a)  PROVE Kept /\ Typed /\ Fine
  <2>1. x.op = "lift" /\ UNCHANGED <<held, bound>>
    BY <1>1, <1>10 DEF Lift, Reaches
  <2>2. CASE x.keys = {} /\ StepDone(a) /\ UNCHANGED <<down, escaped>>
    <3>1. Done /\ \A k : ~Attends(s, 1, k)
      BY <1>3, <2>2 DEF Attends
    <3>2. QED
      BY <1>2, <2>1, <2>2, <3>1
  <2>3. CASE \E k \in x.keys :
               /\ down' = down \ {k} /\ escaped' = escaped \ {k}
               /\ todo' = [todo EXCEPT ![a] = <<Do("lift", x.keys \ {k})>> \o Tail(@)]
    <3>1. PICK k \in x.keys :
            /\ down' = down \ {k} /\ escaped' = escaped \ {k}
            /\ todo' = [todo EXCEPT ![a] = <<Do("lift", x.keys \ {k})>> \o Tail(@)]
      BY <2>3
    <3> DEFINE keys == x.keys \ {k}
    <3>2. /\ keys \in SUBSET Key
          /\ todo' = [todo EXCEPT ![a] = <<Do("lift", keys)>> \o Tail(@)]
          /\ \A j \in x.keys : j = k \/ j \in keys
      BY <1>1, <3>1
    <3>3. Do("lift", keys).op = "lift" /\ Do("lift", keys).keys = keys
      BY DEF Do
    <3> HIDE DEF keys
    <3>4. /\ Kept /\ 1 \in DOMAIN todo'[a] /\ todo'[a][1] = Do("lift", keys)
          /\ ToBeRestored => ToBeRestored'
      BY <1>1, <2>1, <3>2, TurnedShaped
    <3>5. \A j \in keys : AttendedIn(todo', j)
      BY <3>3, <3>4 DEF AttendedIn, Attends
    <3>6. \A j : Attends(s, 1, j) => j = k \/ j \in keys
      BY <3>2 DEF Attends
    <3>7. QED
      BY <1>2, <2>1, <3>1, <3>4, <3>5, <3>6
  <2>4. QED
    BY <1>1, <1>10, <2>2, <2>3 DEF Lift
<1>11. ASSUME Bind(a)  PROVE Kept /\ Typed /\ Fine
  <2>1. x.op = "bind" /\ bound' = TRUE /\ StepDone(a) /\ UNCHANGED <<down, held, escaped>>
    BY <1>1, <1>11 DEF Bind, Reaches
  <2>2. Done /\ \A k : ~Attends(s, 1, k)
    BY <1>3, <2>1 DEF Attends
  <2>3. PICK j \in DOMAIN s : j > 1 /\ s[j].op = "restore"
    BY <1>4, <2>1
  <2>4. ToBeRestored'
    BY <2>2, <2>3 DEF ToBeRestored
  <2>5. QED
    BY <1>2, <2>1, <2>2, <2>4
<1>12. ASSUME Restore(a)  PROVE Kept /\ Typed /\ Fine
  <2>1. x.op = "restore" /\ bound' = FALSE /\ StepDone(a) /\ UNCHANGED <<down, held, escaped>>
    BY <1>1, <1>12 DEF Restore, Reaches
  <2>2. Done /\ \A k : ~Attends(s, 1, k)
    BY <1>3, <2>1 DEF Attends
  <2>3. QED
    BY <1>2, <2>1, <2>2
<1>13. \A b \in Actor \ {a} : todo'[b] = todo[b]
  BY DEF KeyInv, DriverStep, Press, Latch, Note, Forget, Drain, Lift, Bind, Restore, StepDone
<1>14. QED
  BY <1>1, <1>5, <1>6, <1>7, <1>8, <1>9, <1>10, <1>11, <1>12, <1>13 DEF DriverStep

LEMMA KeyInvInductive ==
  ASSUME KeyInv, FrameInv, [Next]_vars
  PROVE  KeyInv'
<1> USE DEF vars, inputVars, frameVars, dispatchVars
<1>1. ASSUME NEW a \in Actor, DriverStep(a), UNCHANGED <<frameVars, dispatchVars>>
      PROVE  KeyInv'
  <2>1. /\ todo' \in [Actor -> Seq(Step)]
        /\ \A b \in Actor : Shaped(todo'[b])
        /\ \A k \in down' : k \in held' \/ k \in escaped' \/ AttendedIn(todo', k)
        /\ bound' => ToBeRestored'
        /\ down' \subseteq Key /\ held' \subseteq Key /\ escaped' \subseteq Key
        /\ bound' \in BOOLEAN
        /\ todo[a] # <<>> /\ \A b \in Actor \ {a} : todo'[b] = todo[b]
    BY <1>1, DriverStepTracks
  <2>2. NothingUntracked'
    BY <2>1 DEF NothingUntracked, AttendedIn, Attended, Attends
  <2>3. \A b \in Actor : doing'[b] \in {"idle", "marking", "screenshot", "watching"} => todo'[b] = <<>>
    BY <1>1, <2>1 DEF KeyInv
  <2>4. QED
    BY <2>1, <2>2, <2>3 DEF KeyInv
<1>2. ASSUME NEW a \in Actor, NEW s, NEW w, Start(a, w, s), Shaped(s),
             w \notin {"idle", "marking", "screenshot", "watching"}
      PROVE  KeyInv'
  <2>1. /\ todo' = [todo EXCEPT ![a] = s] /\ todo[a] = <<>>
        /\ UNCHANGED <<down, held, bound, escaped>> /\ doing' = [doing EXCEPT ![a] = w]
    BY <1>2 DEF Start, Become, KeyInv
  <2>2. /\ todo' \in [Actor -> Seq(Step)] /\ todo'[a] = s
        /\ \A b \in Actor : Shaped(todo'[b])
    BY <1>2, <2>1, AllStayShaped
  <2>3. \A b \in Actor \ {a} : todo'[b] = todo[b]
    BY <2>1 DEF KeyInv
  <2>4. \A b \in Actor : \A i \in DOMAIN todo[b] : b # a
    BY <2>1
  <2>5. \A k : AttendedIn(todo, k) => AttendedIn(todo', k)
    BY <2>3, <2>4 DEF AttendedIn
  <2>6. ToBeRestored => ToBeRestored'
    BY <2>3, <2>4 DEF ToBeRestored
  <2>7. NothingUntracked'
    BY <2>1, <2>5, <2>6 DEF KeyInv, NothingUntracked, AttendedIn, Attended, Attends
  <2>8. \A b \in Actor : doing'[b] \in {"idle", "marking", "screenshot", "watching"} => todo'[b] = <<>>
    BY <1>2, <2>1, <2>3 DEF KeyInv, FrameInv, Doings
  <2>9. QED
    BY <2>1, <2>2, <2>7, <2>8 DEF KeyInv
<1>3. ASSUME NEW a \in Actor, Execute(a) \/ ExecuteFailing(a) \/ HandOver(a)  PROVE KeyInv'
  BY <1>2, <1>3, CallsAreShaped DEF Execute, ExecuteFailing, HandOver
<1>4. ASSUME NEW a \in Actor, todo[a] = <<>>, UNCHANGED inputVars,
             NEW w, doing' = doing \/ Become(a, w)
      PROVE  KeyInv'
  <2>1. \A b \in Actor : doing'[b] \in {"idle", "marking", "screenshot", "watching"} => todo'[b] = <<>>
    BY <1>4 DEF KeyInv, Become, FrameInv, Doings
  <2>2. NothingUntracked'
    BY <1>4 DEF KeyInv, NothingUntracked, Attended, ToBeRestored
  <2>3. QED
    BY <1>4, <2>1, <2>2 DEF KeyInv
<1>5. ASSUME NEW a \in Actor,
             \/ TakeTime(a) \/ MarkInput(a) \/ Return(a) \/ ServeCached(a) \/ CaptureShot(a) \/ EndShot(a)
             \/ Watch(a) \/ EndWatch(a)
      PROVE  KeyInv'
  <2>1. todo[a] = <<>> /\ UNCHANGED inputVars /\ \E w : doing' = doing \/ Become(a, w)
    BY <1>5
       DEF TakeTime, MarkInput, Return, ServeCached, CaptureShot, EndShot, Watch, EndWatch, KeyInv
  <2>2. QED
    BY <1>4, <2>1
<1>6. ASSUME UNCHANGED <<inputVars, doing>>  PROVE KeyInv'
  BY <1>6 DEF KeyInv, NothingUntracked, Attended, ToBeRestored
<1>7. QED
  BY <1>1, <1>3, <1>5, <1>6 DEF Next, StreamAsk, StreamKeep

LEMMA KeyInvariance == Spec => []KeyInv
<1>1. Init => KeyInv
  <2> SUFFICES ASSUME Init  PROVE KeyInv
    OBVIOUS
  <2>1. down = {} /\ held = {} /\ bound = FALSE /\ escaped = {} /\ todo = [a \in Actor |-> <<>>]
    BY DEF Init, InputInit
  <2>3. \A a \in Actor : todo[a] = <<>>
    BY <2>1
  <2>2. \A a \in Actor : Shaped(<<>>)
    BY DEF Shaped, Minded, Unbinds
  <2>4. NothingUntracked
    BY <2>1 DEF NothingUntracked
  <2>5. \A a \in Actor : Shaped(todo[a])
    BY <2>2, <2>3
  <2>6. <<>> \in Seq(Step)
    OBVIOUS
  <2>7. todo \in [Actor -> Seq(Step)]
    BY <2>1, <2>6
  <2>8. QED
    BY <2>1, <2>3, <2>4, <2>5, <2>7 DEF KeyInv
<1>2. KeyInv /\ FrameInv /\ [Next]_vars => KeyInv'
  BY KeyInvInductive
<1>3. QED
  BY <1>1, <1>2, FrameInvariance, PTL DEF Spec

(* No key stays down that release_all would not find or a call lift but in  *)
(* two ways, on whatever keys the threads are: a combo that met an unknown  *)
(* modifier, and a key forgotten after another thread pressed it again. And *)
(* the scratch keycode has a character only while a call is to take it away.*)
THEOREM NothingUntrackedHolds == Spec => []NothingUntracked
<1>1. KeyInv => NothingUntracked
  BY DEF KeyInv
<1>2. QED
  BY <1>1, KeyInvariance, PTL

(* Every variable keeps its type: what is left of each thread's calls are   *)
(* driver steps on keys and buttons of the display, and no time is taken    *)
(* but of the clock.                                                        *)
THEOREM TypeCorrect == Spec => []TypeOK
<1>1. KeyInv /\ FrameInv => TypeOK
  BY DEF KeyInv, FrameInv, Shaped, TypeOK, InputTypeOK, Doings
<1>2. QED
  BY <1>1, KeyInvariance, FrameInvariance, PTL
=============================================================================
