\* Two loads of the page: two events of one torrent, one place on the page,
\* one lookup at a time in each load, and a crash.
SPECIFICATION FairSpec
CONSTANTS
  Requests = {r1, r2}
  Torrents = {t1}
  NumEvents = 2
  MaxTorrents = 1
  MaxLookups = 1
  MaxCrashes = 1
INVARIANTS
  NoSendAfterClose
  LookupsBounded
  PageIsComplete
  LinksAreServed
  UncachedIsExplained
PROPERTY
  PagesEnd
\* Each load is one.
CHECK_DEADLOCK FALSE
