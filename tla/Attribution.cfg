SPECIFICATION AttributionSpec
CONSTANTS
  Mics <- ThreeMics
  KBig = 6
  QuietTicks = 2
  WindowTicks = 4
INVARIANT EpisodeOfThisHowl
PROPERTY FallbackInTime
