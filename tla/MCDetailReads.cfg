CONSTANTS
  Regions <- MCRegions
  Spellings <- MCSpellings
  Lower <- MCLower
  Zones <- MCZones
  ZoneRegion <- MCZoneRegion
  Profiles <- MCProfiles
  MaxRequests = 3
  MaxParts = 2
  MaxMoves = 1
SPECIFICATION DetailSpec
INVARIANTS RowIsOfTheAsked CallsAreCounted EmptyForAReason
