SPECIFICATION FairSpec
CONSTANTS
  w1 = w1  w2 = w2
  d1 = d1
  profile = profile  rate = rate  unknown = unknown
  Writers = {w1, w2}
  Devices = {d1}
  Entities = {profile, rate, unknown}
  Known = {profile, rate}
  PageLimit = 2
  MaxEdits = 2
INVARIANTS TypeOK Gapless LogTellsRows NothingMissed
PROPERTY CatchesUp
