----------------------------- MODULE AuditViewer -----------------------------
(***************************************************************************)
(* The control UI's audit log and the gateway route it pages through: the  *)
(* route fetches the newest offset+limit events - of one session, when     *)
(* asked - then drops other severities, then skips the offset.  The viewer *)
(* appends pages, replaces its list when a filter changes or the refresh   *)
(* timer runs, and lets answers arrive in any order.  A page is newest     *)
(* first, so it is known by the set of its events, a list by its pages.    *)
(***************************************************************************)
EXTENDS Integers, Sequences, FiniteSets

CONSTANTS PageSize,
          MaxLogged,     \* bound: events logged
          MaxFetches     \* bound: pages asked for

ASSUME ViewerAssumption == PageSize \in Nat \ {0} /\ MaxLogged \in Nat /\ MaxFetches \in Nat

VARIABLES log,           \* audit events, oldest first: do they match the filters?
          filter,        \* "none", "session" or "severity"
          list,          \* the pages on the screen, none of them empty; an event is
                         \* known by its place in the log
          offset, hasMore, loading, autoRefresh,
          pages,         \* pages asked for, in order
          flaws          \* history: what may have left a hole in the list

viewerVars == <<log, filter, list, offset, hasMore, loading, autoRefresh, pages, flaws>>

AskedFor(at, replace, by) == [at |-> "sent", offset |-> at, replace |-> replace,
                              filter |-> by, events |-> {}]

ViewerInit ==
  /\ log \in {<<>>, <<TRUE>>, <<TRUE, TRUE, TRUE>>}
  /\ filter = "none" /\ list = <<>> /\ offset = 0
  /\ hasMore = TRUE /\ loading = TRUE /\ autoRefresh = FALSE
  /\ pages = <<AskedFor(0, TRUE, "none")>>
  /\ flaws = {}

PagesUnderWay == {f \in DOMAIN pages : pages[f].at \in {"sent", "200", "failed"}}

-----------------------------------------------------------------------------
Logged(matching) ==
  /\ Len(log) < MaxLogged
  /\ log' = Append(log, matching)
  /\ UNCHANGED <<filter, list, offset, hasMore, loading, autoRefresh, pages, flaws>>

Matches(i, by) == by = "none" \/ log[i]

(* How many of S are newer, and the first n of S, newest first.            *)
Rank(S, i) == Cardinality({j \in S : j > i})
Newest(S, n) == {i \in S : Rank(S, i) < n}

(* queryEvents: the newest of the session's events, or of all.             *)
QueryEvents(n, by) == Newest({i \in DOMAIN log : by # "session" \/ log[i]}, n)

Slice(S, from, to) == Newest(S, to) \ Newest(S, from)

(* Mutant: the page is cut out before anything is fetched to fill it. *)
PageShort(at, by) ==
  Slice({i \in QueryEvents(PageSize, by) : Matches(i, by)}, at, at + PageSize)

Page(at, by) ==
  Slice({i \in QueryEvents(at + PageSize, by) : Matches(i, by)}, at, at + PageSize)

ServePage(f) ==
  /\ pages[f].at = "sent"
  /\ pages' = [pages EXCEPT ![f].at = "200",
                            ![f].events = Page(pages[f].offset, pages[f].filter)]
  /\ UNCHANGED <<log, filter, list, offset, hasMore, loading, autoRefresh, flaws>>

PageFails(f) ==
  /\ pages[f].at = "sent"
  /\ pages' = [pages EXCEPT ![f].at = "failed"]
  /\ UNCHANGED <<log, filter, list, offset, hasMore, loading, autoRefresh, flaws>>

-----------------------------------------------------------------------------
(* fetchPage                                                               *)
Fetch(at, replace, by) ==
  /\ Len(pages) < MaxFetches
  /\ pages' = Append(pages, AskedFor(at, replace, by))
  /\ loading' = TRUE

SetFilter(by) ==
  /\ by # filter
  /\ filter' = by
  /\ offset' = 0 /\ list' = <<>> /\ hasMore' = TRUE
  /\ Fetch(0, TRUE, by)
  /\ flaws' = flaws \cup (IF PagesUnderWay # {} THEN {"overtaken"} ELSE {})
                    \cup (IF by = "severity" THEN {"severity"} ELSE {})
  /\ UNCHANGED <<log, autoRefresh>>

LoadMore ==
  /\ hasMore /\ list # <<>> /\ ~loading
  /\ offset' = offset + PageSize
  /\ Fetch(offset + PageSize, FALSE, filter)
  /\ UNCHANGED <<log, filter, list, hasMore, autoRefresh, flaws>>

SetAutoRefresh ==
  /\ autoRefresh' = ~autoRefresh
  /\ UNCHANGED <<log, filter, list, offset, hasMore, loading, pages, flaws>>

(* The list is replaced by its first page; the offset stays where it was.  *)
Refresh ==
  /\ autoRefresh
  /\ Fetch(0, TRUE, filter)
  /\ flaws' = flaws \cup (IF offset > 0 \/ PagesUnderWay # {} THEN {"refreshed"} ELSE {})
  /\ UNCHANGED <<log, filter, list, offset, hasMore, autoRefresh>>

ListWith(page) ==
  LET kept == IF page.replace THEN <<>> ELSE list
  IN  IF page.events = {} THEN kept ELSE Append(kept, page.events)
IsFull(page) == Cardinality(page.events) = PageSize

(* An answer is taken whatever the filter is by now.                       *)
PageArrives(f) ==
  /\ pages[f].at = "200"
  /\ pages' = [pages EXCEPT ![f].at = "taken"]
  /\ hasMore' = IsFull(pages[f])
  /\ list' = ListWith(pages[f])
  /\ loading' = FALSE
  /\ UNCHANGED <<log, filter, offset, autoRefresh, flaws>>

(* The offset already counts the page that did not come.                   *)
FailureArrives(f) ==
  /\ pages[f].at = "failed"
  /\ pages' = [pages EXCEPT ![f].at = "taken"]
  /\ loading' = FALSE
  /\ flaws' = flaws \cup {"failed"}
  /\ UNCHANGED <<log, filter, list, offset, hasMore, autoRefresh>>

ViewerNext ==
  \/ \E matching \in BOOLEAN : Logged(matching)
  \/ \E f \in DOMAIN pages : ServePage(f) \/ PageFails(f) \/ PageArrives(f) \/ FailureArrives(f)
  \/ \E by \in {"none", "session", "severity"} : SetFilter(by)
  \/ LoadMore \/ SetAutoRefresh \/ Refresh

ViewerSpec == ViewerInit /\ [][ViewerNext]_viewerVars

-----------------------------------------------------------------------------
OnScreen(pagesShown) == UNION {pagesShown[k] : k \in DOMAIN pagesShown}

PageRequests ==
  [at : {"sent", "200", "failed", "taken"}, offset : Nat, replace : BOOLEAN,
   filter : {"none", "session", "severity"}, events : SUBSET DOMAIN log]

ViewerTypeOK ==
  /\ log \in Seq(BOOLEAN)
  /\ filter \in {"none", "session", "severity"}
  /\ list \in Seq(SUBSET DOMAIN log)
  /\ offset \in Nat
  /\ hasMore \in BOOLEAN /\ loading \in BOOLEAN /\ autoRefresh \in BOOLEAN
  /\ pages \in Seq(PageRequests)
  /\ flaws \subseteq {"severity", "refreshed", "overtaken", "failed"}

(* Events logged between two pages shift the pages, but hide nothing: one  *)
(* that matches and is not on the screen is newer than all that are, or    *)
(* older than the last page, and "Load more" goes away only when none is   *)
(* left.  What can break it: filtering by severity, refreshing below the   *)
(* first page, changing a filter with a page under way, and a page that    *)
(* failed.                                                                 *)
NothingHidden ==
  flaws = {} /\ PagesUnderWay = {} =>
    \A i \in DOMAIN log : Matches(i, filter) /\ i \notin OnScreen(list) =>
      \/ \A a \in OnScreen(list) : a < i
      \/ hasMore /\ \A b \in list[Len(list)] : i < b
=============================================================================
