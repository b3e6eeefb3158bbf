\* Two executing threads on any of the same keys and the streamer: once the
\* keyboard, once the frame cache under a running clock.
CONSTANTS
  a1 = a1
  a2 = a2
  Keyboard = {ctrl, c}
  Buttons = {left}
  Named = {ctrl}
  Left = left
  Scratch = scratch
  Actor = {a1, a2}
  Streamer = streamer
  Thread = {a1, a2, streamer}
  Used = {ctrl, c, left, scratch}
  Capturer = {a1, a2, streamer}
  MaxTime = 3
SPECIFICATION Spec
INVARIANTS TypeOK NothingUntracked ShotIsWhatWasAsked
PROPERTIES ShotIsStampedFresh
CONSTRAINT KeysOrFrames
SYMMETRY Actors
