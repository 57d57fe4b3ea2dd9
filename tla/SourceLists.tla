------------------------------ MODULE SourceLists ------------------------------
(***************************************************************************)
(* Walking through the sources of a library page by page while it changes  *)
(* (application/service.py, api/pagination.py, api/routes.py, and the same *)
(* for an Agent, mcp/service.py), and the two collections of the user:     *)
(* favourites, and the history of visits, of which only the newest stay.   *)
(* Both are columns of one table, source_activity.                         *)
(*                                                                         *)
(* Each request is one step under `_lock'.  A source that does not match   *)
(* the filter of the walk counts as not there.                             *)
(***************************************************************************)
EXTENDS Integers, FiniteSets

CONSTANTS
    Sources,    \* numbers, in the order of the ids
    Times,      \* bound: values of the sort key; the same one may come twice
    PageSize,   \* limit
    History,    \* 100 in the code
    MaxClock    \* bound: times given by utc_timestamp

ASSUME ListsAssumption ==
    /\ Sources \subseteq Nat /\ IsFiniteSet(Sources) /\ Times \subseteq Nat
    /\ PageSize \in Nat \ {0} /\ History \in Nat /\ MaxClock \in Nat

VARIABLES
    present,    \* sources in the list
    key,        \* of each, the value that the list is sorted by
    cursor,     \* where the walk stands
    seen,       \* how often the walk showed each source
    touched,    \* auxiliary: sources that came, went or changed during the walk
    rows,       \* sources with a row in source_activity
    favorite,   \* ... its favorite_at, ...
    opened,     \* ... and its last_opened
    clock,      \* the time utc_timestamp gave last
    chosen,     \* auxiliary: when the user made each a favourite, if it still is one
    visited     \* auxiliary: when the user last opened each

walk == <<cursor, seen, touched>>
table == <<rows, favorite, opened>>
activity == <<table, clock, chosen, visited>>
vars == <<present, key, walk, activity>>

Start == [at |-> "start"]
End   == [at |-> "end"]
Cursors == {Start, End} \cup [at : {"after"}, value : Times, id : Sources]

Null == 0
Columns == [Sources -> 0..MaxClock]

TypeOK ==
    /\ present \subseteq Sources /\ key \in [Sources -> Times]
    /\ cursor \in Cursors /\ seen \in [Sources -> Nat] /\ touched \subseteq Sources
    /\ rows \subseteq Sources /\ {favorite, opened, chosen, visited} \subseteq Columns
    /\ \A s \in Sources \ rows : favorite[s] = Null /\ opened[s] = Null
    /\ clock \in 0..MaxClock

Init ==
    /\ present \in SUBSET Sources /\ key \in [Sources -> Times]
    /\ cursor = Start /\ seen = [s \in Sources |-> 0] /\ touched = {}
    /\ rows = {} /\ clock = 0
    /\ LET none == [s \in Sources |-> Null] IN
       favorite = none /\ opened = none /\ chosen = none /\ visited = none

-----------------------------------------------------------------------------
(* The walk. *)

\* ORDER BY updated_at DESC, id; the other two sorts are alike.
ByKeyOnly(v, i, w, j) == v > w      \* mutant: the cursor has no id
Precedes(v, i, w, j) == v > w \/ (v = w /\ i < j)

\* The rows that the clause of the cursor leaves.
Remaining == {s \in present :
    \/ cursor = Start
    \/ cursor.at = "after" /\ Precedes(cursor.value, cursor.id, key[s], s)}
First(left) == {s \in left :
    Cardinality({r \in left : r # s /\ (key[r] > key[s] \/ (key[r] = key[s] /\ r < s))}) < PageSize}

HasMore(left) == Cardinality(left) > PageSize   \* one row more is asked for

CursorAt(s) == [at |-> "after", value |-> key[s], id |-> s]

\* list_sources_page, and the next cursor, made from the last row of the page.
Page ==
    /\ cursor # End
    /\ LET left == Remaining
           page == First(left) IN
       /\ seen' = [s \in Sources |-> IF s \in page THEN seen[s] + 1 ELSE seen[s]]
       /\ IF HasMore(left)
          THEN \E last \in page :
                   /\ \A s \in page \ {last} : Precedes(key[s], s, key[last], last)
                   /\ cursor' = CursorAt(last)
          ELSE cursor' = End
    /\ UNCHANGED <<present, key, touched, activity>>

Again ==
    /\ cursor = End
    /\ cursor' = Start /\ seen' = [s \in Sources |-> 0] /\ touched' = {}
    /\ UNCHANGED <<present, key, activity>>

-----------------------------------------------------------------------------
(* What changes the list.  A time is read before the lock is taken, so it may be  *)
(* that of another row, or older.                                                 *)

Import(s) ==
    /\ s \notin present /\ present' = present \cup {s}
    /\ \E v \in Times : key' = [key EXCEPT ![s] = v]
    /\ touched' = touched \cup {s} /\ UNCHANGED <<cursor, seen, activity>>

Update(s) ==
    /\ s \in present /\ \E v \in Times : key' = [key EXCEPT ![s] = v]
    /\ touched' = touched \cup {s} /\ UNCHANGED <<present, cursor, seen, activity>>

Cleared(column, ss) == [s \in Sources |-> IF s \in ss THEN Null ELSE column[s]]

\* The row in source_activity goes with the source (ON DELETE CASCADE).
Delete(s) ==
    /\ s \in present /\ present' = present \ {s} /\ touched' = touched \cup {s}
    /\ rows' = rows \ {s}
    /\ favorite' = Cleared(favorite, {s}) /\ opened' = Cleared(opened, {s})
    /\ chosen' = Cleared(chosen, {s}) /\ visited' = Cleared(visited, {s})
    /\ UNCHANGED <<key, cursor, seen, clock>>

-----------------------------------------------------------------------------
(* The collections.  Here the time is taken under the lock, and utc_timestamp gives *)
(* none twice: the columns are in the order of the requests.                       *)

Tick == clock < MaxClock /\ clock' = clock + 1

\* set_source_favorite(TRUE): INSERT, or favorite_at = COALESCE(old, new).
Favorite(s) ==
    /\ s \in present /\ Tick
    /\ rows' = rows \cup {s}
    /\ favorite' = [favorite EXCEPT ![s] = IF @ = Null THEN clock' ELSE @]
    /\ chosen' = [chosen EXCEPT ![s] = IF @ = Null THEN clock' ELSE @]
    /\ UNCHANGED <<present, key, walk, opened, visited>>

\* set_source_favorite(FALSE): UPDATE, then DELETE the row unless it was opened.
Unfavorite(s) ==
    /\ s \in present
    /\ favorite' = Cleared(favorite, {s})
    /\ rows' = IF opened[s] = Null THEN rows \ {s} ELSE rows
    /\ chosen' = Cleared(chosen, {s})
    /\ UNCHANGED <<present, key, walk, opened, clock, visited>>

\* ORDER BY last_opened DESC ... OFFSET History
Beyond(column) ==
    {s \in Sources : column[s] # Null /\
        Cardinality({r \in Sources : column[r] > column[s]}) >= History}

\* DELETE ... WHERE last_opened IS NULL AND favorite_at IS NULL
Unvisited(there, lastOpened) ==  \* mutant: without the second condition
    {s \in there : lastOpened[s] = Null}
Useless(there, lastOpened) ==
    {s \in there : lastOpened[s] = Null /\ favorite[s] = Null}

\* record_source_visit: the upsert, the UPDATE that prunes the history, the DELETE.
Visit(s) ==
    /\ s \in present /\ Tick
    /\ LET there == rows \cup {s}
           upserted == [opened EXCEPT ![s] = clock']
           pruned == Cleared(upserted, Beyond(upserted))
           useless == Useless(there, pruned) IN
       /\ rows' = there \ useless
       /\ opened' = pruned
       /\ favorite' = Cleared(favorite, useless)
    /\ visited' = [visited EXCEPT ![s] = clock']
    /\ UNCHANGED <<present, key, walk, chosen>>

Next ==
    \/ Page \/ Again
    \/ \E s \in Sources : \/ Import(s) \/ Update(s) \/ Delete(s)
                          \/ Favorite(s) \/ Unfavorite(s) \/ Visit(s)

Spec == Init /\ [][Next]_vars

-----------------------------------------------------------------------------
(* Properties. *)

\* A source that stays as it is through a walk is shown exactly once, whatever comes,
\* goes or moves around it, the row of the cursor included (service.py:890-943,
\* pagination.py:19-62): "a stable keyset page".
UnchangedIsShownOnce ==
    \A s \in Sources \ touched :
        seen[s] <= 1 /\ (cursor = End => (s \in present <=> seen[s] = 1))

\* Pruning the history of visits takes no favourite away and moves none, a favourite
\* taken back or chosen again keeps its place in the history, and the history forgets
\* from its end: what is listed was opened later than what is not, and is no more than
\* the bound (service.py:984-1024, one table for both).
Recent == {s \in Sources : opened[s] # Null}
CollectionsAreKept ==
    /\ favorite = chosen
    /\ \A s \in Recent : opened[s] = visited[s]
    /\ \A s \in Recent, r \in Sources \ Recent : visited[r] < visited[s]
    /\ Cardinality(Recent) <= History
===============================================================================
