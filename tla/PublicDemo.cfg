CONSTANTS
  Requests = {r1, r2, r3}
  MaxConcurrency = 2
  Shown = r1
  Moments = {0, 11519, 11520, 14399}
SPECIFICATION PublicSpec
INVARIANT OneKeeper
INVARIANT SlotsAccounted
INVARIANT ThreadsAreBounded
INVARIANT ShowsWhatItSays
PROPERTY SlotsComeBack
