SPECIFICATION FairSpec
CONSTANTS
  Image = {photo, lying, cut}
  Film = {film, still}
  FilmInside = {lying}
  Broken = {}
  Truncated = {cut}
  PhotoInside = {still}
  MaxCalls = 3
  None = None
INVARIANT FilmIsWatched
CHECK_DEADLOCK FALSE
