\* A send fails: the key stays for the window.
CONSTANTS
  h1 = h1
  h2 = h2
  i1 = i1
  LastJob = 3
  Items = {i1}
  Channels = {h1, h2}
  Founders = {h1}
  Refused = {h2}
  Window = 2
  MinSample = 2
  MaxExpiries = 1
  MaxEdits = 0
  Faults = {"send"}
SPECIFICATION Spec
INVARIANTS AlertedInWindow
