SPECIFICATION PagesSpec
CONSTANTS
  Lists = {"home", "public", "quotes", "tag", "local", "account", "bookmarks", "favourites", "actors", "scheduled", "notifications", "admin_inbox", "admin_outbox", "admin_blocks", "admin_mutes", "admin_notifications", "list", "conversations", "groups", "followers", "following", "messages", "index"}
  MaxRows = 3
  MaxTime = 2
  MaxChanges = 2
  Limit = 2
  ScanLimit = 2
  Window = 3
INVARIANTS
  NothingIsMissed
  NothingTwice
  BadgeClears
  WalkEnds
CHECK_DEADLOCK FALSE
