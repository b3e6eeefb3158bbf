CONSTANTS
  Viewer = {w1, w2}
  Writers = {w1, w2}
  Guest = {g1}
  GuestSession = GuestSession
  NoSession = NoSession
  Reaper = Reaper
SPECIFICATION Spec
INVARIANTS CleanHandover
