\* Three jobs and a request for a human; a channel that may be deleted, and one the send-time check refuses.
CONSTANTS
  h1 = h1
  h2 = h2
  i1 = i1
  LastJob = 3
  Items = {i1}
  Channels = {h1, h2}
  Founders = {h1}
  Refused = {h2}
  Window = 2
  MinSample = 2
  MaxExpiries = 1
  MaxEdits = 1
  Faults = {"lose", "send"}
SPECIFICATION FairSpec
INVARIANTS NoRepeat AlarmJustified
PROPERTIES Told
