SPECIFICATION Spec
CONSTANTS
  Writers = {1, 2}
  Readers = {3}
  Me = 1
  Weight <- MCWeight
  Total = 4
  Debounced = TRUE
  MaxJoins = 3
  MaxMaps = 1
  Nobody = Nobody
INVARIANTS
  TypeOK
  MapIsWhole
  HealthyOwn
  

  
  
