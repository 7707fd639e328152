--------------------------------- MODULE Pages ---------------------------------
(***************************************************************************)
(* The lists that clients, the owner's browser and other servers read page *)
(* by page: app/mastodon/router.py with timelines.py, ids.py, pagination.py*)
(* and notification_groups.py, app/admin.py and app/main.py.               *)
(*                                                                         *)
(* A reader opens one list, some rows of it perhaps known from before, and *)
(* asks for the next page until there is none, while rows arrive, are      *)
(* deleted, pruned, pinned or dismissed.  What is promised is that it sees *)
(* what was there all the time.                                            *)
(***************************************************************************)
EXTENDS Integers, FiniteSets, FiniteSetsExt

CONSTANTS
  Lists,      \* the lists that are read, of AllLists
  MaxRows,    \* bound: rows
  MaxTime,    \* bound: half seconds
  MaxChanges, \* bound: what happens to the rows, but for arrivals before a list is read
  Limit,      \* rows, groups or threads of a page: limit, page_size
  ScanLimit,  \* scan_limit of a hashtag timeline
  Window      \* window of the grouped notifications

\* Both boxes, by time; one table, by id; threads; groups; by time after a
\* count; by time with a probe; by number.
Merged  == {"home", "public", "quotes", "tag"}
ById    == {"local", "account", "bookmarks", "favourites", "actors", "scheduled", "notifications"}
Counted == {"admin_inbox", "admin_outbox", "admin_blocks", "admin_mutes", "admin_notifications"}
Probed  == {"followers", "following"}
Threaded == {"conversations", "messages"}
AllLists == Merged \cup ById \cup Counted \cup Probed \cup Threaded \cup {"list", "groups", "index"}

ASSUME PagesAssumption ==
  /\ Lists \subseteq AllLists
  /\ {MaxRows, MaxTime, MaxChanges} \subseteq Nat
  /\ {Limit, ScanLimit, Window} \subseteq Nat \ {0}

Tables(l) ==
  CASE l \in Merged \cup Threaded -> {"inbox", "outbox"}
    [] l \in {"list", "bookmarks", "favourites", "admin_inbox"} -> {"inbox"}
    [] l \in {"local", "account", "index", "admin_outbox"} -> {"outbox"}
    [] l \in {"notifications", "groups", "admin_notifications"} -> {"notification"}
    [] OTHER -> {"other"}

\* What a list looks at in a row: whether a status is one of those it is about
\* (its tag, its quotes, its members, the marked ones), its thread, or the post
\* a notification is about.
Keys(l) ==
  CASE l \in {"quotes", "tag", "list", "bookmarks", "favourites"} -> {"plain", "wanted"}
    [] l \in {"home", "public", "local"} -> {"plain", "hidden"}
    [] l \in Threaded \cup {"groups"} -> {"one", "two"}
    [] OTHER -> {"plain"}
Timed(l) == l \notin ById \cup {"groups"}

VARIABLES
  list,    \* the list that is read
  rows,    \* every row there ever was
  gone,    \* rows that were deleted, or are about a deleted one
  pruned,  \* those of them that a cursor no longer finds
  pinned,  \* is_pinned
  unread,  \* is_new
  floor,   \* min_id, since_id of the first page: <<>> or <<row>>
  cursor,  \* max_id, cursor, next_cursor: <<>> or <<row>>
  number,  \* pages read
  counted, \* the rows that were counted before the page is read, or -1
  state,   \* "closed", "open" or "done"
  changes,
  \* History: not read by the code.
  there,   \* the rows that the list had when it was opened
  seen,    \* the rows that were shown
  twice,   \* those that were shown in two pages
  ends,    \* the last rows of the pages that had a next one
  upset    \* what may have upset the reading

tables == <<rows, gone, pruned, pinned>>
reader == <<floor, cursor, number, counted, state>>
history == <<there, seen, twice, ends, upset>>
pagesVars == <<list, tables, unread, reader, changes, history>>

Live == rows \ gone
Second(r) == r.at \div 2

\* encode_object_id: the second, the row number, the table
StatusId(r) ==
  Second(r) * 2 * (MaxRows + 1) + 2 * r.n + (IF r.table = "inbox" THEN 1 ELSE 0)
AtOf(r) == r.at
IdOf(r) == r.n

\* ORDER BY Ord DESC LIMIT k: rows that compare equal come in any order.
Take(S, k, Ord(_)) ==
  {T \in SUBSET S : /\ Cardinality(T) = Min({k, Cardinality(S)})
                    /\ \A x \in T, y \in S \ T : Ord(x) >= Ord(y)}
Lowest(S, Ord(_)) == {r \in S : \A x \in S : Ord(x) >= Ord(r)}

\* _resolve_cursor_published_at: a row that is no more is looked for in the other
\* table, and limits nothing if there is none either.
Resolve(c) ==
  IF c = <<>> THEN {}
  ELSE IF c[1] \notin pruned \/ list \in Counted THEN {c[1]}
  ELSE {x \in rows : x.table = "outbox" /\ x.n = c[1].n}
\* The Link to the next page drops the floor.
Between(S) ==
  {r \in S : IF cursor # <<>> THEN \A c \in Resolve(cursor) : r.at < c.at
             ELSE \A c \in Resolve(floor) : r.at > c.at}
BeforeOrAt(S) == {r \in S : \A c \in Resolve(cursor) : r.at <= c.at}
BetweenIds(S, Ord(_)) ==
  {r \in S : IF cursor # <<>> THEN Ord(r) < Ord(cursor[1])
             ELSE floor = <<>> \/ Ord(r) > Ord(floor[1])}

\* The reader gets a page; `last` are the candidates for the cursor of the next
\* one, none if there is none.
Show(page, last) ==
  /\ seen' = seen \cup page /\ twice' = twice \cup (page \cap seen)
  /\ number' = number + 1 /\ counted' = -1
  /\ IF last = {} THEN state' = "done" /\ UNCHANGED <<cursor, ends>>
     ELSE \E r \in last : cursor' = <<r>> /\ ends' = ends \cup {r} /\ state' = "open"
  /\ UNCHANGED <<list, tables, floor, changes, there, upset>>

-----------------------------------------------------------------------------
(* Timelines: by time, newest first, each box on its own, then merged.     *)

\* mutant: the rows of the cursor's time come again
FetchAgain(S, k, box) == Take(BeforeOrAt({r \in S : r.table = box}), k, AtOf)
\* mutant: one box is asked for less than a page
FetchHalf(S, k, box) ==
  Take(Between({r \in S : r.table = box}), IF box = "inbox" THEN k ELSE k - 1, AtOf)

\* fetch_inbox_timeline_page, fetch_outbox_timeline_page
Fetch(S, k, box) == Take(Between({r \in S : r.table = box}), k, AtOf)
Both(S, k) == {A \cup B : A \in Fetch(S, k, "inbox"), B \in Fetch(S, k, "outbox")}
Timeline(l, S, k, Wanted(_)) ==
  /\ list = l /\ UNCHANGED unread
  /\ \E T \in Both(S, k) : \E page \in Take({r \in T : Wanted(r)}, Limit, StatusId) :
       Show(page, Lowest(page, StatusId))

Visible == {r \in Live : r.key # "hidden"}
Any(r) == TRUE
TimelinesHome == Timeline("home", Visible, Limit, Any)
TimelinesPublic == Timeline("public", Visible, Limit, Any)
StatusesQuotes == Timeline("quotes", {r \in Live : r.key = "wanted"}, Limit, Any)
\* The tags are in the object: a window of each box is read and then filtered.
HasTag(r) == r.key = "wanted"
TimelinesTag == Timeline("tag", Visible, ScanLimit, HasTag)

TimelinesList ==
  /\ list = "list" /\ UNCHANGED unread
  /\ \E page \in Fetch({r \in Live : r.key = "wanted"}, Limit, "inbox") :
       Show(page, Lowest(page, AtOf))

-----------------------------------------------------------------------------
(* Lists of one table, by id.                                              *)

Listing(l, S) ==
  /\ list = l
  /\ \E page \in Take(BetweenIds(S, IdOf), Limit, IdOf) :
       /\ unread' = IF l = "notifications" THEN unread \ page ELSE unread
       /\ Show(page, Lowest(page, IdOf))

\* The local timeline shows what the home page hides.
TimelinesLocal == Listing("local", Live)
AccountsStatuses == Listing("account", Live)
BookmarksIndex == Listing("bookmarks", {r \in Live : r.key = "wanted"})
FavouritesIndex == Listing("favourites", {r \in Live : r.key = "wanted"})
PaginatedActorList == Listing("actors", Live)
ScheduledStatusesIndex == Listing("scheduled", Live)
NotificationsList == Listing("notifications", Live)

-----------------------------------------------------------------------------
(* Conversations and groups.                                               *)

\* dm_threads: the newest status of each thread; its id is the thread's.
Threads == {r \in Live : \A x \in Live : x.key = r.key => StatusId(x) <= StatusId(r)}
ConversationsList ==
  /\ list = "conversations" /\ UNCHANGED unread
  /\ \E page \in Take(BetweenIds(Threads, StatusId), Limit, StatusId) :
       Show(page, Lowest(page, StatusId))

\* fetch_notification_group_page: the rows of a window, up to the first one of
\* a group too many.
Groups(S) == {r.key : r \in S}
GroupRows(W) == {r \in W : Cardinality(Groups({x \in W : x.n >= r.n})) <= Limit}
\* mutant: the next page starts after the newest row of the last group
LastGroupNewest(page) ==
  {r \in page : \A x \in page : /\ x.key = r.key => x.n <= r.n
                               /\ \E y \in page : y.key = x.key /\ y.n >= r.n}
\* The group that comes last, and the oldest row of it in the page: page_min_id.
LastGroup(page) ==
  {r \in page : \A x \in page : \E y \in page : y.key = x.key /\
                 \A z \in page : z.key = r.key => z.n <= y.n}
\* mutant: only the newest row of a group is marked as read
GroupsMarkingOne ==
  /\ list = "groups"
  /\ \E W \in Take(BetweenIds(Live, IdOf), Window, IdOf) :
       /\ unread' = unread \ {r \in GroupRows(W) :
                                \A x \in GroupRows(W) : x.key = r.key => x.n <= r.n}
       /\ Show(GroupRows(W), Lowest(LastGroup(GroupRows(W)), IdOf))
NotificationsV2List ==
  /\ list = "groups"
  /\ \E W \in Take(BetweenIds(Live, IdOf), Window, IdOf) :
       /\ unread' = unread \ GroupRows(W)
       /\ Show(GroupRows(W), Lowest(LastGroup(GroupRows(W)), IdOf))

-----------------------------------------------------------------------------
(* The owner's pages: a count, then the rows.                              *)

CountRows ==
  /\ list \in Counted /\ counted = -1
  /\ counted' = Cardinality(Between(Live))
  /\ UNCHANGED <<list, tables, unread, floor, cursor, number, state, changes, history>>
\* A count that was short of the rows by the time they are read ends the list.
CountedPage(l) ==
  /\ list = l /\ counted # -1
  /\ \E page \in Take(Between(Live), Limit, AtOf) :
       /\ unread' = IF l = "admin_notifications" THEN unread \ page ELSE unread
       /\ seen' = seen \cup page /\ twice' = twice \cup (page \cap seen)
       /\ number' = number + 1 /\ counted' = -1
       /\ IF page = {} \/ counted <= Limit
            THEN /\ state' = "done" /\ UNCHANGED <<cursor, ends>>
                 /\ upset' = IF Cardinality(Between(Live)) > Limit
                             THEN upset \cup {"count"} ELSE upset
            ELSE /\ \E r \in Lowest(page, AtOf) : cursor' = <<r>> /\ ends' = ends \cup {r}
                 /\ state' = "open" /\ UNCHANGED upset
  /\ UNCHANGED <<list, tables, floor, changes, there>>

RenderInboxPage == CountedPage("admin_inbox")
AdminOutbox == CountedPage("admin_outbox")
AdminBlocks == CountedPage("admin_blocks")
AdminMutes == CountedPage("admin_mutes")
AdminNotifications == CountedPage("admin_notifications")

\* admin_direct_messages: of each thread the latest of the inbox if it is later
\* than that of the outbox, which may be several, all on one page.  Deleted ones
\* do not count, but are found again by their time.
ThreadTime(k, t) == Max({-1} \cup {r.at : r \in {x \in Live : x.key = k /\ x.table = t}})
DirectMessages ==
  LET shown(k) == IF ThreadTime(k, "inbox") > ThreadTime(k, "outbox") THEN "inbox" ELSE "outbox"
  IN
  /\ list = "messages" /\ UNCHANGED unread
  /\ Show({r \in rows \ pruned : r.table = shown(r.key) /\ r.at = ThreadTime(r.key, r.table)}, {})

-----------------------------------------------------------------------------
(* Public pages.                                                           *)

\* _build_followx_collection: a probe for an older row tells if there is more.
FollowxCollection(l) ==
  /\ list = l /\ UNCHANGED unread
  /\ \E page \in Take(Between(Live), Limit, AtOf) :
       LET oldest == Lowest(page, AtOf) IN
       Show(page, {r \in oldest : \E x \in Live : x.at < r.at})

Followers == FollowxCollection("followers")
Following == FollowxCollection("following")

\* _render_outbox_object_list: pages have a number; pinned posts come first.
PinnedFirst(r) == r.at + (IF r \in pinned THEN MaxTime + 1 ELSE 0)
Index ==
  /\ list = "index" /\ UNCHANGED unread
  /\ \E before \in Take(Live, number * Limit, PinnedFirst) :
     \E page \in Take(Live \ before, Limit, PinnedFirst) :
       Show(page, IF Cardinality(Live \ before) > Limit THEN Lowest(page, PinnedFirst) ELSE {})

-----------------------------------------------------------------------------
(* What happens to the rows.                                               *)

InTable(t) == {r \in rows : r.table = t}
Change == state # "done" /\ changes < MaxChanges /\ changes' = changes + 1

\* A status, an account or a notification arrives; a post of a peer may be of
\* any time.  SQLite uses the id of the last row again once it is deleted.
Arrive(t, at, key) ==
  LET born == Cardinality(InTable(t)) + 1
      n == IF t = "notification" THEN 1 + Max({0} \cup {r.n : r \in InTable(t) \ gone}) ELSE born
      r == [table |-> t, n |-> n, born |-> born, at |-> at, key |-> key]
  IN
  /\ Change \/ (state = "closed" /\ UNCHANGED changes)
  /\ Cardinality(rows) < MaxRows
  /\ t # "inbox" => \A x \in InTable(t) : x.at <= at
  /\ rows' = rows \cup {r} /\ unread' = IF t = "notification" THEN unread \cup {r} ELSE unread
  /\ upset' = IF state = "open" THEN upset \cup {"arrival"} ELSE upset
  /\ UNCHANGED <<list, gone, pruned, pinned, reader, there, seen, twice, ends>>

\* A post is deleted or hidden, a follow ends, a notification is dismissed.
Delete(r) ==
  /\ Change /\ r \in Live /\ gone' = gone \cup {r}
  /\ upset' = IF state = "open" THEN upset \cup {"removal"} ELSE upset
  /\ UNCHANGED <<list, rows, pruned, pinned, unread, reader, there, seen, twice, ends>>
\* app/prune.py, _prune_old_inbox_objects
Prune(r) ==
  /\ Change /\ r \in rows \ pruned /\ r.table = "inbox"
  /\ gone' = gone \cup {r} /\ pruned' = pruned \cup {r}
  /\ upset' = IF <<r>> \in {cursor, floor} THEN upset \cup {"restart"} ELSE upset
  /\ UNCHANGED <<list, rows, pinned, unread, reader, there, seen, twice, ends>>
\* statuses_pin, statuses_unpin, and the forms of the owner
Pin(r) ==
  /\ Change /\ list = "index" /\ r \in Live
  /\ pinned' = IF r \in pinned THEN pinned \ {r} ELSE pinned \cup {r}
  /\ upset' = IF state = "open" THEN upset \cup {"pin"} ELSE upset
  /\ UNCHANGED <<list, rows, gone, pruned, unread, reader, there, seen, twice, ends>>

\* The reader opens the list; an API client may know some row of it.
Open(known) ==
  /\ state = "closed" /\ state' = "open" /\ floor' = known
  /\ known # <<>> => list \in AllLists \ (Counted \cup Probed \cup {"messages", "index"})
  /\ there' = Live
  /\ UNCHANGED <<list, tables, unread, cursor, number, counted, changes, seen, twice, ends, upset>>

PagesInit ==
  /\ list \in Lists /\ rows = {} /\ gone = {} /\ pruned = {} /\ pinned = {} /\ unread = {}
  /\ floor = <<>> /\ cursor = <<>> /\ number = 0 /\ counted = -1 /\ state = "closed"
  /\ changes = 0 /\ there = {} /\ seen = {} /\ twice = {} /\ ends = {} /\ upset = {}

Changes ==
  \/ \E t \in Tables(list), key \in Keys(list), at \in 0..MaxTime :
       (Timed(list) \/ at = 0) /\ Arrive(t, at, key)
  \/ \E r \in rows : Delete(r) \/ Prune(r) \/ Pin(r)

Read == state = "open" /\
  \/ TimelinesHome \/ TimelinesPublic \/ StatusesQuotes \/ TimelinesTag \/ TimelinesList
  \/ TimelinesLocal \/ AccountsStatuses \/ BookmarksIndex \/ FavouritesIndex
  \/ PaginatedActorList \/ ScheduledStatusesIndex \/ NotificationsList
  \/ ConversationsList \/ NotificationsV2List
  \/ CountRows \/ RenderInboxPage \/ AdminOutbox \/ AdminBlocks \/ AdminMutes
  \/ AdminNotifications \/ DirectMessages \/ Followers \/ Following \/ Index

PagesNext == Changes \/ (\E known \in {<<>>} \cup {<<r>> : r \in rows} : Open(known)) \/ Read

PagesSpec == PagesInit /\ [][PagesNext]_pagesVars

-----------------------------------------------------------------------------
(* Properties.                                                             *)

\* The rows a list is about: all, those that are not hidden, or those wanted.
About(S) ==
  CASE list \in {"home", "public"} -> {r \in S : r.key # "hidden"}
    [] list \in {"quotes", "tag", "list", "bookmarks", "favourites"} -> {r \in S : r.key = "wanted"}
    [] OTHER -> S
AfterFloor(r) ==
  \A f \in {floor[i] : i \in DOMAIN floor} :
    CASE list \in Merged \cup {"list"} -> r.at > f.at
      [] list = "conversations" -> StatusId(r) > StatusId(f)
      [] OTHER -> r.n > f.n
\* The row was at the boundary of two pages, in the same second or at the same
\* time as the last row of the first of them.
AtBoundary(r) ==
  \/ \E b \in ends \ {r} :
       CASE list \in Merged -> b.at <= r.at /\ Second(b) = Second(r)
         [] OTHER -> Timed(list) /\ b.at = r.at
  \/ list \in Probed /\ \E b \in seen \ {r} : b.at = r.at
\* Why a row that was there all the time may be missed.
Excused(r) ==
  \/ "restart" \in upset \/ \E i \in DOMAIN floor : floor[i] \in pruned
  \/ AtBoundary(r)
  \/ list = "tag" /\ Cardinality({x \in InTable(r.table) \ {r} : x.at >= r.at}) >= ScanLimit
  \/ list = "conversations" /\ {"arrival", "removal"} \cap upset # {}
  \/ list \in Counted /\ "count" \in upset
  \/ list = "index" /\ ({"removal", "pin"} \cap upset # {} \/ \E x \in rows \ {r} : x.at = r.at)

\* Every variable has its type: what was seen, is unread or was deleted is a row.
Entry == [table : {"inbox", "outbox", "notification", "other"}, n : 1..MaxRows,
          born : 1..MaxRows, at : 0..MaxTime, key : {"plain", "hidden", "wanted", "one", "two"}]
PagesTypeOK ==
  /\ list \in Lists /\ rows \subseteq Entry /\ gone \subseteq rows /\ pruned \subseteq gone
  /\ pinned \subseteq rows /\ unread \subseteq rows /\ seen \subseteq rows
  /\ state \in {"closed", "open", "done"} /\ counted \in -1..MaxRows

\* A reader that goes on to the last page is shown every row of the list that
\* was there from first to last, whatever arrives, is deleted or is pruned
\* meanwhile; and every thread.  The exceptions are those above: rows of one
\* second at the boundary of two pages, a cursor that was pruned, a hashtag page
\* whose window holds no match, a thread that moved, a count that was overtaken,
\* a home page whose offsets shifted.
NothingIsMissed ==
  /\ PagesTypeOK
  /\ state = "done" =>
       \A r \in About(there \ gone) :
         \/ ~AfterFloor(r) \/ Excused(r)
         \/ IF list \in Threaded THEN \E x \in seen : x.key = r.key ELSE r \in seen

\* Nothing is shown in two pages, but after a cursor that was pruned, rows of the
\* second at which a page of a timeline ended, older than its last one, rows of a
\* group that another group's rows lie between, and a home page whose offsets
\* shifted.
NothingTwice ==
  \A r \in twice :
    \/ "restart" \in upset
    \/ list \in Merged /\ \E b \in ends : b.at > r.at /\ Second(b) = Second(r)
    \/ list = "groups" /\ \E a, b \in seen : /\ a.key = r.key /\ b.key # r.key
                                           /\ a.n > b.n /\ b.n > r.n
    \/ list = "index" /\ ({"arrival", "pin"} \cap upset # {} \/ \E x \in rows \ {r} : x.at = r.at)

\* Who reads the notifications to the end has none of them left unread, of those
\* that were there when the reading began.
BadgeClears ==
  state = "done" /\ floor = <<>> /\ list \in {"notifications", "groups", "admin_notifications"} =>
    \A r \in unread \cap (there \ gone) : Excused(r)

\* Who goes on reading comes to the last page, and soon: every page but the last
\* has a row that no page before it had, unless a pruned cursor let the reader
\* start again, which happens once at most for each of them.
WalkEnds == number <= 1 + Cardinality(rows) * (1 + Cardinality(ends \cap pruned))
=============================================================================
