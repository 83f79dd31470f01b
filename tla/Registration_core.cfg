CONSTANTS
  d1 = d1  w1 = w1  w2 = w2  json = json  objects = objects
  a1 = a1  a2 = a2  k1 = k1  k2 = k2
  Deliveries = {d1}
  Workers = {w1, w2}
  Services = {json, objects}
  ObjectServices = {objects}
  Addresses = {a1, a2}
  Keys = {k1, k2}
  MaxAttempts = 2
  NoDelivery = NoDelivery
  NoPlace = NoPlace
  Troubles = {"crash", "db", "queue", "settings", "erase", "form", "retry", "switch"}
  MaxTrouble = 1
  Races = {}
SPECIFICATION FairSpecFromOnePlace
INVARIANTS TypeOK OneObject PinnedPlace LastLookWins SingleSender DeliveredIsThere
PROPERTIES KeepsPromise EventuallySettled
CHECK_DEADLOCK FALSE
