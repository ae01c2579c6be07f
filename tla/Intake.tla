------------------------------- MODULE Intake -------------------------------
(***************************************************************************)
(* Notification intake (revops/src/notify.rs) and start-up hydration       *)
(* (revops/src/hydration.rs) into the observer's own store                 *)
(* (revops-db/src/notifications.rs).                                       *)
(*                                                                         *)
(* The node creates, settles and fails forwards whether or not the plugin  *)
(* runs.  A settled forward reaches the store as a live event, if the      *)
(* plugin is up when it settles, or from a page of listforwards.           *)
(***************************************************************************)
EXTENDS Naturals, FiniteSets, FiniteSetsExt

CONSTANTS
  Forwards,    \* number of forwards; a forward is named by its created_index
  Cols,        \* per forward: its channels and amounts, five columns of its row
  MaxTime,     \* bound: clock
  Jitter,      \* FORWARD_HYDRATION_EVENT_JITTER_SECONDS
  Overlap,     \* one day
  Window,      \* max(flow_window_days, 14) days
  PageLimit,   \* HYDRATION_PAGE_LIMIT
  MaxPages,    \* HYDRATION_MAX_PAGES
  MaxStarts    \* bound: starts of the plugin

ASSUME IntakeAssumption ==
  /\ Forwards \in Nat /\ DOMAIN Cols = 1 .. Forwards /\ MaxTime \in Nat \ {0} /\ Jitter \in Nat /\ Overlap \in Nat
  /\ Window \in Nat /\ PageLimit \in Nat \ {0} /\ MaxPages \in Nat /\ MaxStarts \in Nat

Fwd == 1 .. Forwards

VARIABLES
  now,
  node,    \* the node's forwards: [status, recv, done], done the resolved_time
  events,  \* live notifications not yet handled
  store,   \* ingested_forwards: rows [cols, ts, done], unique in all seven columns
  hyd,     \* the hydration task
  plug     \* [up, starts, lost]: `lost' once an insert of this start failed

intakeVars == <<now, node, events, store, hyd, plug>>

NotYet == [status |-> "none", recv |-> 0, done |-> 0]
NoHydration == [at |-> "off", start |-> 0, next |-> 0, pages |-> 0, got |-> {}]
IntakeTypeOK ==
  /\ now \in 0 .. MaxTime
  /\ node \in [Fwd -> [status : {"none", "offered", "settled", "failed"}, recv : 0 .. MaxTime, done : 0 .. MaxTime]]
  /\ events \subseteq [fwd : Fwd, float : BOOLEAN]
  /\ store \subseteq [cols : {Cols[f] : f \in Fwd}, ts : Nat, done : Nat]
  /\ hyd \in [at : {"off", "cursor", "page", "insert", "done", "skipped", "aborted"},
              start : Nat, next : Nat, pages : Nat, got : SUBSET Fwd]
  /\ plug \in [up : BOOLEAN, starts : 0 .. MaxStarts, lost : BOOLEAN]

IntakeInit ==
  /\ now = 1 /\ node = [f \in Fwd |-> NotYet] /\ events = {} /\ store = {}
  /\ hyd = NoHydration /\ plug = [up |-> FALSE, starts |-> 0, lost |-> FALSE]

-----------------------------------------------------------------------------
(* The node (external).  Forwards are created in index order.              *)
Offer(f) ==
  /\ node[f].status = "none" /\ \A g \in 1 .. f - 1 : node[g].status # "none"
  /\ node' = [node EXCEPT ![f] = [status |-> "offered", recv |-> now, done |-> 0]]
  /\ UNCHANGED <<now, events, store, hyd, plug>>

Resolve(f, status) ==
  /\ node[f].status = "offered"
  /\ node' = [node EXCEPT ![f] = [@ EXCEPT !.status = status, !.done = now]]
  /\ events' = IF plug.up THEN events \union {[fwd |-> f, float |-> TRUE]} ELSE events
  /\ UNCHANGED <<now, store, hyd, plug>>

Pass ==
  /\ now < MaxTime
  /\ now' = now + 1
  /\ UNCHANGED <<node, events, store, hyd, plug>>

-----------------------------------------------------------------------------
(* Parsing and the store.                                                  *)

\* A timestamp on the wire (external): an integer, or a decimal in halves.
Wire(t, float) == IF float THEN 2 * t + 1 ELSE t

\* json_timestamp: an integer, or a float truncated to one.
JsonTimestamp(raw, float) == IF float THEN raw \div 2 ELSE raw

\* forward_row_from_json, the one parser of both sources: the forward's own
\* index is no part of the row.
ForwardRow(f, float) ==
  [cols |-> Cols[f], ts |-> JsonTimestamp(Wire(node[f].recv, float), float),
   done |-> JsonTimestamp(Wire(node[f].done, float), float)]

\* insert_forward_ignore_dup: a row with the same seven columns is there already;
\* a failed insert is logged and forgotten.
InsertForward(row, ok) == store' = IF ok THEN store \union {row} ELSE store

LastForwardTs == IF store = {} THEN {} ELSE {Max({r.ts : r \in store})}

Minus(a, b) == IF a > b THEN a - b ELSE 0

\* Mutant: only what is newer than the last stored forward.
StartWithoutOverlap(last, t) ==
  IF last = {} THEN {Minus(t, Window)}
  ELSE LET l == Max(last) IN IF Minus(t, l) <= Jitter THEN {} ELSE {l}

\* compute_forward_hydration_start: {} when no backfill is needed.
HydrationStart(last, t) ==
  IF last = {} THEN {Minus(t, Window)}
  ELSE LET l == Max(last) IN
       IF Minus(t, l) <= Jitter THEN {}
       ELSE {Max({Minus(l, Overlap), Minus(t, Window + 1)})}

-----------------------------------------------------------------------------
(* Live events: on_forward_event keeps settled forwards only.              *)
ForwardEvent(e, ok) ==
  /\ plug.up /\ e \in events
  /\ events' = events \ {e}
  /\ IF node[e.fwd].status = "settled"
       THEN InsertForward(ForwardRow(e.fwd, e.float), ok) /\ plug' = [plug EXCEPT !.lost = @ \/ ~ok]
       ELSE UNCHANGED <<store, plug>>
  /\ UNCHANGED <<now, node, hyd>>

-----------------------------------------------------------------------------
(* Start of the plugin and hydration, a background task of that process.   *)
PluginStart ==
  /\ ~plug.up /\ plug.starts < MaxStarts
  /\ plug' = [up |-> TRUE, starts |-> plug.starts + 1, lost |-> FALSE]
  /\ hyd' = [NoHydration EXCEPT !.at = "cursor"]
  /\ UNCHANGED <<now, node, events, store>>

PluginStop ==
  /\ plug.up
  /\ plug' = [plug EXCEPT !.up = FALSE]
  /\ events' = {} /\ hyd' = NoHydration
  /\ UNCHANGED <<now, node, store>>

\* last_forward_ts, then the start of the window; an error aborts.
ReadCursor ==
  /\ hyd.at = "cursor"
  /\ \/ hyd' = [hyd EXCEPT !.at = "aborted"]
     \/ \E s \in HydrationStart(LastForwardTs, now) :
          hyd' = [hyd EXCEPT !.at = "page", !.start = s]
     \/ HydrationStart(LastForwardTs, now) = {} /\ hyd' = [hyd EXCEPT !.at = "skipped"]
  /\ UNCHANGED <<now, node, events, store, plug>>

\* One page of listforwards (external): settled, from index `next' on.
Listed(from) == {f \in Fwd : f >= from /\ node[f].status = "settled"}
Page(from) == {f \in Listed(from) : Cardinality({g \in Listed(from) : g < f}) < PageLimit}

\* Mutant: the next page starts past an unread forward.
NextAfterSkipping(page) == Max(page) + 2

NextAfter(page) == Max(page) + 1

\* A short page ends the listing; a full one advances past its last index.
\* The page filter is received_time > start.  Any failure drops all pages.
FetchPage ==
  /\ hyd.at = "page"
  /\ LET page == Page(hyd.next)
         got  == hyd.got \union {f \in page : JsonTimestamp(Wire(node[f].recv, TRUE), TRUE) > hyd.start}
     IN \/ hyd' = [hyd EXCEPT !.at = "aborted"]
        \/ /\ hyd.pages < MaxPages
           /\ hyd' = IF Cardinality(page) < PageLimit
                       THEN [hyd EXCEPT !.at = "insert", !.got = got]
                       ELSE [hyd EXCEPT !.next = NextAfter(page), !.pages = @ + 1, !.got = got]
  /\ UNCHANGED <<now, node, events, store, plug>>

\* The rows are inserted one by one, in listing order.
InsertFetched(ok) ==
  /\ hyd.at = "insert"
  /\ IF hyd.got = {}
       THEN /\ hyd' = [hyd EXCEPT !.at = "done"]
            /\ UNCHANGED <<store, plug>>
       ELSE /\ InsertForward(ForwardRow(Min(hyd.got), FALSE), ok)
            /\ plug' = [plug EXCEPT !.lost = @ \/ ~ok]
            /\ hyd' = [hyd EXCEPT !.got = @ \ {Min(hyd.got)}]
  /\ UNCHANGED <<now, node, events>>

IntakeNext ==
  \/ \E f \in Fwd : Offer(f) \/ \E s \in {"settled", "failed"} : Resolve(f, s)
  \/ Pass \/ PluginStart \/ PluginStop \/ ReadCursor \/ FetchPage
  \/ \E ok \in BOOLEAN : InsertFetched(ok)
  \/ \E e \in events, ok \in BOOLEAN : ForwardEvent(e, ok)

IntakeSpec == IntakeInit /\ [][IntakeNext]_intakeVars

-----------------------------------------------------------------------------
\* The row the forward stands for.
RowOf(f) == [cols |-> Cols[f], ts |-> node[f].recv, done |-> node[f].done]

\* A forward that reaches the store both as a live event and through a page is
\* one row: whichever source parsed it, every row is that of a settled forward
\* (notify.rs:128).  Forwards alike in all seven columns share theirs.
NoDoubleRow == store \subseteq {RowOf(f) : f \in {f \in Fwd : node[f].status = "settled"}}

\* Once hydration has run to its end and the live queue is empty, every
\* forward settled before the stop of this process and received after the
\* chosen start has its row: paging by created_index skips nothing, and what
\* settles behind the page cursor arrives live.
HydrationFillsWindow ==
  hyd.at = "done" /\ events = {} /\ ~plug.lost =>
    \A f \in Fwd : node[f].status = "settled" /\ node[f].recv > hyd.start => RowOf(f) \in store

\* The window a backfill opens reaches a full overlap behind the newest
\* stored forward, unless the flow window itself is shorter: what was lost
\* just before a stop is fetched again after it (notifications.rs:214).
BackfillOverlaps ==
  [][hyd.at = "cursor" /\ hyd'.at = "page" =>
       \A f \in Fwd :
         /\ node[f].status = "settled" /\ node[f].recv + Overlap > Max({0} \union LastForwardTs)
         /\ node[f].recv + Window > now
         => node[f].recv > hyd'.start]_intakeVars

\* Live events and hydration together store no row twice and fill the window
\* (notify.rs, hydration.rs).
IntakeIsWhole == IntakeTypeOK /\ NoDoubleRow /\ HydrationFillsWindow
=============================================================================
