----------------------------- MODULE MCDispatcher -----------------------------
(* The actors are alike: every thread may use every key, and capture. Of     *)
(* the keyboard and the frames one is looked into at a time, since they have *)
(* no state in common: while keys are in use nothing captures and the clock  *)
(* stands, while frames are captured actions make no driver call.            *)
EXTENDS Dispatcher, TLC

CONSTANTS a1, a2

Actors == Permutations({a1, a2})

KeysAtRest ==
  down = {} /\ held = {} /\ ~bound /\ escaped = {} /\ \A a \in Actor : todo[a] = <<>>
FramesAtRest == now = 1 /\ latest = NoFrame /\ \A t \in Thread : capture[t] = NoCapture

KeysOrFrames == KeysAtRest \/ FramesAtRest
=============================================================================
