SPECIFICATION Spec
CONSTANTS
  w1 = w1
  w2 = w2
  Windows <- MCWindows
  Pool <- MCPool
  Peers = {p1, p2}
  RemoteTracks = {t1, t2, t3}
  LocalTracks = {l1}
  LocalWin = LocalWin
  NULL = NULL
  Absent = Absent
INVARIANTS TypeOK OneOwnerPerWindow RendererHasTrack
PROPERTIES LostOnlyByShowingAgain
