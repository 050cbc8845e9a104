SPECIFICATION FairSpec
CONSTANTS
  Sessions = {r1, r2}
  Renders = {p1}
  Servers = {s1, s2}
  LastToken = 2
  AccessTtl = 4
  Margin = 2
  RecentTtl = 1
  ReplayTtl = 3
  Cooldown = 1
  MaxFlight = 1
INVARIANTS RacesNeverSignOut NeverAsksWhatItKnows ActiveSessionNeverStranded
PROPERTY ActiveSessionStaysValid
