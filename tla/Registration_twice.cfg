CONSTANTS
  d1 = d1  w1 = w1  w2 = w2  json = json  objects = objects
  a1 = a1  a2 = a2  k1 = k1  k2 = k2
  Deliveries = {d1}
  Workers = {w1, w2}
  Services = {json, objects}
  ObjectServices = {objects}
  Addresses = {a1, a2}
  Keys = {k1}
  MaxAttempts = 2
  NoDelivery = NoDelivery
  NoPlace = NoPlace
  Troubles = {}
  MaxTrouble = 0
  Races = {"late job"}
SPECIFICATION Spec
INVARIANTS OneObject
CHECK_DEADLOCK FALSE
