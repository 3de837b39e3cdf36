CONSTANTS
  r1 = r1
  r2 = r2
  s1 = s1
  s2 = s2
  f = f
  v = v
  w = w
  t1 = t1
  t2 = t2
  Profiles = {1, 2}
  Regions <- MCRegions
  Scopes = {s1, s2, f}
  Folders = {f}
  Services = {v, w}
  Pages <- MCPages
  Tokens = {t1, t2}
  Configs <- MCConfigs
  MaxScopes = 1
  MaxPages = 2
  ProbePageSize = 1
  MaxPageSize = 1
SPECIFICATION Spec
INVARIANT AuthenticatedIsReachable
