SPECIFICATION TrackSpec
CONSTANTS
  NumBuffers = 2
  Lens = {0, 1, 2}
  MaxChunks = 3
  Accel = 1
  Scrolls = {"PC", "3DO"}
  MaxKeys = 2
INVARIANTS ReadSafely SubtitleInStep
PROPERTIES SoundInOrder PhraseEnds
