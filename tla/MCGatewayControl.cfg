CONSTANTS
  Viewer = {w1, w2, r1}
  Writers = {w1, w2}
  Guest = {g1, g2}
  GuestSession = GuestSession
  NoSession = NoSession
  Reaper = Reaper
SPECIFICATION FairSpec
INVARIANTS TypeOK HolderIsPresent OneGuest ReadersNeverDrive OneStrayInput
PROPERTIES LeaversLeave
