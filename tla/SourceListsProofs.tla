--------------------------- MODULE SourceListsProofs ---------------------------
(* What holds of SourceLists for every finite set of sources, and all sort keys, *)
(* page sizes and bounds of the history.                                         *)
EXTENDS SourceLists, FiniteSetTheorems, TLAPS

-----------------------------------------------------------------------------
(* The order of the list *)

\* The order of a page: by key, newest first, then by id.
Before(r, s) == Precedes(key[r], r, key[s], s)

LEMMA Ordered ==
  ASSUME TypeOK
  PROVE  /\ \A r, s \in Sources : Before(r, s) => ~Before(s, r) /\ r # s
         /\ \A r, s \in Sources : r # s => Before(r, s) \/ Before(s, r)
         /\ \A r, s, t \in Sources : Before(r, s) /\ Before(s, t) => Before(r, t)
         /\ \A v \in Times, i \in Sources, r, s \in Sources :
               Precedes(v, i, key[r], r) /\ Before(r, s) => Precedes(v, i, key[s], s)
<1>1. /\ \A s \in Sources : s \in Nat /\ key[s] \in Nat
      /\ \A v \in Times : v \in Nat
  BY ListsAssumption DEF ListsAssumption, TypeOK
<1>2. \A r, s \in Sources : Before(r, s) => ~Before(s, r) /\ r # s
  BY <1>1 DEF Before, Precedes
<1>3. \A r, s \in Sources : r # s => Before(r, s) \/ Before(s, r)
  BY <1>1 DEF Before, Precedes
<1>4. ASSUME NEW v \in Nat, NEW i \in Nat, NEW r \in Sources, NEW s \in Sources,
             Precedes(v, i, key[r], r), Before(r, s)
      PROVE  Precedes(v, i, key[s], s)
  BY <1>1, <1>4 DEF Before, Precedes
<1>5. \A r, s, t \in Sources : Before(r, s) /\ Before(s, t) => Before(r, t)
  BY <1>1, <1>4 DEF Before
<1> QED
  BY <1>1, <1>2, <1>3, <1>4, <1>5

\* The rows ahead of one row.
Ahead(left, s) == {r \in left : r # s /\ Before(r, s)}

LEMMA FirstAhead == \A left : First(left) = {s \in left : Cardinality(Ahead(left, s)) < PageSize}
  BY DEF First, Ahead, Before, Precedes

LEMMA RowsFinite ==
  ASSUME NEW left \in SUBSET Sources
  PROVE  /\ IsFiniteSet(left) /\ Cardinality(left) \in Nat
         /\ \A s : IsFiniteSet(Ahead(left, s)) /\ Cardinality(Ahead(left, s)) \in Nat
<1>1. IsFiniteSet(left)
  BY ListsAssumption, FS_Subset DEF ListsAssumption
<1>2. \A s : Ahead(left, s) \in SUBSET left
  BY DEF Ahead
<1> QED
  BY <1>1, <1>2, FS_Subset, FS_CardinalityType

\* A page is the beginning of the rows left: what it leaves out comes after all of it.
LEMMA PageIsPrefix ==
  ASSUME TypeOK, NEW left \in SUBSET Sources, NEW r \in First(left),
         NEW s \in left \ First(left)
  PROVE  Before(r, s)
<1>1. r \in Sources /\ s \in Sources /\ r \in left /\ r # s
  BY FirstAhead
<1>2. CASE Before(s, r)
  <2>1. Ahead(left, s) \subseteq Ahead(left, r)
    BY <1>1, <1>2, Ordered DEF Ahead
  <2>2. Cardinality(Ahead(left, s)) <= Cardinality(Ahead(left, r))
    BY <2>1, RowsFinite, FS_Subset
  <2>3. PageSize \in Nat
    BY ListsAssumption DEF ListsAssumption
  <2>4. Cardinality(Ahead(left, r)) < PageSize /\ ~(Cardinality(Ahead(left, s)) < PageSize)
    BY FirstAhead
  <2> QED
    BY <2>2, <2>3, <2>4, RowsFinite
<1> QED
  BY <1>1, <1>2, Ordered

\* The last page has all the rows that are left.
LEMMA LastPageIsAll ==
  ASSUME TypeOK, NEW left \in SUBSET Sources, ~HasMore(left)
  PROVE  First(left) = left
<1> SUFFICES ASSUME NEW s \in left PROVE Cardinality(Ahead(left, s)) < PageSize
  BY FirstAhead
<1>1. Ahead(left, s) \subseteq left /\ Ahead(left, s) # left
  BY DEF Ahead
<1>2. /\ Cardinality(Ahead(left, s)) <= Cardinality(left)
      /\ Cardinality(Ahead(left, s)) # Cardinality(left)
  BY <1>1, RowsFinite, FS_Subset
<1>3. Cardinality(left) <= PageSize /\ PageSize \in Nat
  BY RowsFinite, ListsAssumption DEF HasMore, ListsAssumption
<1> QED
  BY <1>2, <1>3, RowsFinite

-----------------------------------------------------------------------------
(* The walk *)

\* Where the walk has been: an untouched source that is there was shown exactly if
\* the cursor is not before it, and one that is not there was not shown.
Passed(s) ==
    \/ cursor = End
    \/ cursor.at = "after" /\ ~Precedes(cursor.value, cursor.id, key[s], s)

WalkInv ==
    \A s \in Sources \ touched :
        seen[s] = IF s \in present /\ Passed(s) THEN 1 ELSE 0

LEMMA CursorKinds ==
  ASSUME NEW x \in Cursors
  PROVE  /\ x = Start <=> x.at = "start"
         /\ x = End <=> x.at = "end"
         /\ x.at \in {"start", "end", "after"}
         /\ x.at = "after" => x.value \in Times /\ x.id \in Sources
  BY DEF Cursors, Start, End

LEMMA PageWalks == ASSUME TypeOK, WalkInv, Page PROVE WalkInv'
<1> DEFINE left == Remaining
           page == First(left)
<1>0. /\ left \in SUBSET Sources /\ page \subseteq left
      /\ \A s \in left : s \in present /\ ~Passed(s)
      /\ \A s \in present \ left : Passed(s) /\ cursor.at = "after"
  BY CursorKinds DEF Page, Remaining, First, TypeOK, Passed
<1>1. \A s \in Sources : seen'[s] = IF s \in page THEN seen[s] + 1 ELSE seen[s]
  BY DEF Page
<1>2. UNCHANGED <<present, key, touched>>
  BY DEF Page
<1>3. CASE ~HasMore(left)
  <2>1. cursor' = End /\ page = left
    BY <1>0, <1>3, LastPageIsAll DEF Page
  <2> HIDE DEF page, left
  <2> QED
    BY <1>0, <1>1, <1>2, <2>1 DEF WalkInv, Passed
<1>4. CASE HasMore(left)
  <2>1. PICK last \in page :
           /\ \A s \in page \ {last} : Before(s, last)
           /\ cursor' = CursorAt(last)
    BY <1>4 DEF Page, Before
  <2>2. \A s \in Sources : Passed(s)' <=> ~Before(last, s)
    BY <1>2, <2>1 DEF Passed, CursorAt, End, Before
  <2>3. ASSUME NEW s \in Sources \ touched
        PROVE  seen'[s] = IF s \in present /\ ~Before(last, s) THEN 1 ELSE 0
    <3>1. CASE s \in page
      <4>1. ~Before(last, s)
        BY <1>0, <2>1, <3>1, Ordered
      <4>2. seen[s] = 0 /\ s \in present
        BY <1>0, <3>1 DEF WalkInv
      <4> QED
        BY <1>1, <3>1, <4>1, <4>2
    <3>2. CASE s \in left \ page
      <4>1. Before(last, s)
        BY <1>0, <2>1, <3>2, PageIsPrefix
      <4>2. seen[s] = 0
        BY <1>0, <3>2 DEF WalkInv
      <4> QED
        BY <1>1, <3>2, <4>1, <4>2
    <3>3. CASE s \in present \ left
      <4>1. last \in Remaining /\ last \in Sources
        BY <1>0, <2>1
      <4>2. cursor.at = "after" /\ ~Precedes(cursor.value, cursor.id, key[s], s)
        BY <1>0, <3>3, CursorKinds DEF Page, Passed, TypeOK
      <4>3. Precedes(cursor.value, cursor.id, key[last], last)
        BY <4>1, <4>2, CursorKinds DEF Remaining, TypeOK
      <4>4. ~Before(last, s)
        BY <4>1, <4>2, <4>3, CursorKinds, Ordered DEF TypeOK
      <4>5. seen[s] = 1
        BY <1>0, <3>3 DEF WalkInv
      <4> QED
        BY <1>0, <1>1, <3>3, <4>4, <4>5
    <3>4. CASE s \notin present
      BY <1>0, <1>1, <3>4 DEF WalkInv
    <3> QED
      BY <3>1, <3>2, <3>3, <3>4
  <2> QED
    BY <1>2, <2>2, <2>3 DEF WalkInv
<1> QED
  BY <1>3, <1>4

-----------------------------------------------------------------------------
(* The collections *)

\* What the two columns say, against when the user chose and opened each source: no
\* two visits have the same time, and a column forgets but never changes a time.
TableInv ==
    /\ favorite = chosen
    /\ \A s \in Recent : opened[s] = visited[s]
    /\ \A s \in Sources : visited[s] <= clock
    /\ \A r, s \in Sources : visited[r] # Null /\ visited[r] = visited[s] => r = s
    /\ \A s \in Recent, r \in Sources \ Recent : visited[r] < visited[s]
    /\ Cardinality(Recent) <= History

\* The sources opened later than one.
Newer(column, s) == {r \in Sources : column[r] > column[s]}

LEMMA NewerFinite ==
  ASSUME NEW column, NEW s
  PROVE  IsFiniteSet(Newer(column, s)) /\ Cardinality(Newer(column, s)) \in Nat
  BY ListsAssumption, FS_Subset, FS_CardinalityType DEF ListsAssumption, Newer

\* The later one was opened, the fewer are newer.
LEMMA NewerFewer ==
  ASSUME NEW column \in [Sources -> Nat],
         NEW r \in Sources, NEW s \in Sources, column[r] < column[s]
  PROVE  Cardinality(Newer(column, s)) < Cardinality(Newer(column, r))
<1>1. /\ Newer(column, s) \in SUBSET Newer(column, r)
      /\ s \in Newer(column, r) /\ s \notin Newer(column, s)
  BY DEF Newer
<1>2. /\ Cardinality(Newer(column, s)) <= Cardinality(Newer(column, r))
      /\ Cardinality(Newer(column, s)) # Cardinality(Newer(column, r))
  BY <1>1, NewerFinite, FS_Subset
<1> QED
  BY <1>2, NewerFinite

\* What the pruning leaves is newer than what it takes.
LEMMA PruneOldest ==
  ASSUME NEW column \in [Sources -> Nat],
         NEW s \in Sources \ Beyond(column), column[s] # Null,
         NEW r \in Beyond(column)
  PROVE  column[r] < column[s]
<1>1. /\ Cardinality(Newer(column, r)) >= History
      /\ ~(Cardinality(Newer(column, s)) >= History)
      /\ r \in Sources /\ column[r] \in Nat /\ column[s] \in Nat
  BY DEF Beyond, Newer
<1>2. History \in Nat
  BY ListsAssumption DEF ListsAssumption
<1>3. CASE column[s] < column[r]
  BY <1>1, <1>2, <1>3, NewerFewer, NewerFinite
<1>4. CASE column[s] = column[r]
  BY <1>1, <1>4 DEF Newer
<1> QED
  BY <1>1, <1>3, <1>4

\* The pruning leaves no more than the bound: numbered by how many are newer, two
\* sources would share a number.
LEMMA PruneBounds ==
  ASSUME NEW column \in [Sources -> Nat],
         \A r, s \in Sources : column[r] # Null /\ column[r] = column[s] => r = s,
         NEW kept, kept = {s \in Sources : column[s] # Null} \ Beyond(column)
  PROVE  Cardinality(kept) <= History
<1> DEFINE number == [s \in kept |-> Cardinality(Newer(column, s))]
           numbers == 0..(History - 1)
<1>0. History \in Nat /\ IsFiniteSet(Sources)
  BY ListsAssumption DEF ListsAssumption
<1>1. IsFiniteSet(kept) /\ Cardinality(kept) \in Nat
  BY <1>0, FS_Subset, FS_CardinalityType
<1>2. IsFiniteSet(numbers) /\ Cardinality(numbers) = History
  <2>1. 0 \in Int /\ History - 1 \in Int
    BY <1>0
  <2>2. /\ IsFiniteSet(0..(History - 1))
        /\ Cardinality(0..(History - 1)) = IF 0 > History - 1 THEN 0 ELSE (History - 1) - 0 + 1
    BY <2>1, FS_Interval
  <2> QED
    BY <1>0, <2>2
<1>3. number \in [kept -> numbers]
  <2> SUFFICES ASSUME NEW s \in kept PROVE Cardinality(Newer(column, s)) \in numbers
    OBVIOUS
  <2>1. ~(Cardinality(Newer(column, s)) >= History)
    BY DEF Beyond, Newer
  <2> QED
    BY <1>0, <2>1, NewerFinite
<1>4. SUFFICES ASSUME Cardinality(kept) > History PROVE FALSE
  BY <1>0, <1>1
<1>5. PICK r, s \in kept : r # s /\ number[r] = number[s]
  <2>1. Cardinality(numbers) < Cardinality(kept)
    BY <1>0, <1>1, <1>2, <1>4
  <2> HIDE DEF number, numbers
  <2> QED
    BY <1>1, <1>2, <1>3, <2>1, FS_PigeonHole
<1>6. Cardinality(Newer(column, r)) = Cardinality(Newer(column, s))
  BY <1>5
<1>7. /\ column[r] \in Nat /\ column[s] \in Nat /\ column[r] # column[s]
      /\ r \in Sources /\ s \in Sources
  BY <1>5
<1>8. Cardinality(Newer(column, r)) \in Nat
  BY NewerFinite
<1> QED
  BY <1>6, <1>7, <1>8, NewerFewer

\* The columns are numbers, and the clock can be compared with them.
LEMMA Columned ==
  ASSUME TypeOK
  PROVE  /\ {favorite, opened, chosen, visited} \subseteq [Sources -> Nat]
         /\ clock \in Nat /\ MaxClock \in Nat
  BY ListsAssumption DEF TypeOK, Columns, ListsAssumption

\* A visit: the upsert gives the newest time, the pruning takes the oldest ones, and
\* the DELETE takes only rows that hold nothing.
LEMMA VisitKeeps == ASSUME TypeOK, TableInv, NEW v \in Sources, Visit(v) PROVE TableInv'
<1> DEFINE up == [opened EXCEPT ![v] = clock']
           listed == {s \in Sources : up[s] # Null}
<1>0. /\ favorite \in [Sources -> Nat] /\ opened \in [Sources -> Nat]
      /\ visited \in [Sources -> Nat] /\ clock \in Nat /\ clock' = clock + 1
      /\ up \in [Sources -> Nat]
  BY Columned DEF Visit, Tick
<1>1. /\ visited' = [visited EXCEPT ![v] = clock'] /\ chosen' = chosen
      /\ opened' = Cleared(up, Beyond(up))
  BY DEF Visit
<1>2. favorite' = chosen'
  <2>1. \A there, column : Cleared(favorite, Useless(there, column)) = favorite
    BY <1>0 DEF Cleared, Useless, Null
  <2> QED
    BY <1>1, <2>1 DEF Visit, TableInv
<1>3. listed = Recent \cup {v} /\ \A s \in listed : up[s] = visited'[s]
  BY <1>0, <1>1 DEF Recent, TableInv, Null
<1>4. /\ \A s \in Sources : visited'[s] <= clock' /\ visited'[s] \in Nat
      /\ \A r, s \in Sources : visited'[r] # Null /\ visited'[r] = visited'[s] => r = s
  BY <1>0, <1>1 DEF TableInv, Null
<1>5. \A s \in listed, r \in Sources \ listed : visited'[r] < visited'[s]
  BY <1>0, <1>1, <1>3 DEF TableInv
<1>6. Recent' = listed \ Beyond(up) /\ \A s \in Recent' : opened'[s] = up[s]
  BY <1>1 DEF Recent, Cleared
<1>7. Cardinality(Recent') <= History
  <2>1. \A r, s \in Sources : up[r] # Null /\ up[r] = up[s] => r = s
    BY <1>0, <1>3, <1>4
  <2> HIDE DEF up
  <2> QED
    BY <1>0, <1>6, <2>1, PruneBounds
<1>8. \A s \in Recent', r \in Sources \ Recent' : visited'[r] < visited'[s]
  <2> SUFFICES ASSUME NEW s \in Recent', NEW r \in Sources \ Recent'
               PROVE  visited'[r] < visited'[s]
    OBVIOUS
  <2>1. s \in listed /\ s \in Sources \ Beyond(up) /\ up[s] # Null
    BY <1>6
  <2>2. CASE r \in Beyond(up)
    <3>1. r \in listed
      BY <2>2 DEF Beyond
    <3>2. up[r] < up[s]
      <4> HIDE DEF up
      <4> QED
        BY <1>0, <2>1, <2>2, PruneOldest
    <3> QED
      BY <1>3, <2>1, <3>1, <3>2
  <2>3. CASE r \notin Beyond(up)
    BY <1>5, <1>6, <2>1, <2>3
  <2> QED
    BY <2>2, <2>3
<1> HIDE DEF up, listed
<1> QED
  BY <1>2, <1>3, <1>4, <1>6, <1>7, <1>8 DEF TableInv

\* A deletion takes the source out of both collections, and of what they are measured by.
LEMMA DeleteKeeps == ASSUME TypeOK, TableInv, NEW d \in Sources, Delete(d) PROVE TableInv'
<1>0. /\ favorite \in [Sources -> Nat] /\ opened \in [Sources -> Nat]
      /\ visited \in [Sources -> Nat] /\ clock \in Nat
  BY Columned
<1>1. /\ favorite' = chosen'
      /\ \A s \in Sources : /\ visited'[s] = IF s = d THEN Null ELSE visited[s]
                            /\ opened'[s] = IF s = d THEN Null ELSE opened[s]
      /\ clock' = clock
  BY DEF Delete, Cleared, TableInv
<1>2. Recent' = Recent \ {d}
  BY <1>1 DEF Recent
<1>3. Cardinality(Recent') <= History
  <2>1. IsFiniteSet(Recent)
    BY ListsAssumption, FS_Subset DEF ListsAssumption, Recent
  <2>2. Cardinality(Recent) \in Nat /\ Cardinality(Recent') \in Nat
        /\ Cardinality(Recent') <= Cardinality(Recent)
    BY <1>2, <2>1, FS_Subset, FS_CardinalityType
  <2> QED
    BY <2>2, ListsAssumption DEF ListsAssumption, TableInv
<1>4. \A s \in Recent : visited[s] > 0 /\ s \in Sources
  BY <1>0 DEF TableInv, Recent, Null
<1> QED
  BY <1>0, <1>1, <1>2, <1>3, <1>4 DEF TableInv, Null

LEMMA StepTable == ASSUME TypeOK, TableInv, [Next]_vars PROVE TableInv'
<1>0. /\ favorite \in [Sources -> Nat] /\ chosen \in [Sources -> Nat]
      /\ visited \in [Sources -> Nat] /\ clock \in Nat
  BY Columned
<1>1. CASE UNCHANGED activity
  BY <1>1 DEF TableInv, Recent, activity, table
<1>2. ASSUME NEW s \in Sources, Delete(s) PROVE TableInv'
  BY <1>2, DeleteKeeps
<1>3. ASSUME NEW s \in Sources, Favorite(s) PROVE TableInv'
  <2>1. favorite' = chosen' /\ UNCHANGED <<opened, visited>> /\ clock' = clock + 1
    BY <1>3 DEF Favorite, Tick, TableInv
  <2> QED
    BY <1>0, <2>1 DEF TableInv, Recent
<1>4. ASSUME NEW s \in Sources, Unfavorite(s) PROVE TableInv'
  <2>1. favorite' = chosen' /\ UNCHANGED <<opened, visited, clock>>
    BY <1>4 DEF Unfavorite, TableInv
  <2> QED
    BY <2>1 DEF TableInv, Recent
<1>5. ASSUME NEW s \in Sources, Visit(s) PROVE TableInv'
  BY <1>5, VisitKeeps
<1> QED
  BY <1>1, <1>2, <1>3, <1>4, <1>5 DEF Next, Page, Again, Import, Update, vars

-----------------------------------------------------------------------------
(* The invariant *)

IInv == TypeOK /\ WalkInv /\ TableInv

\* The type of the walk and of the table.
WalkType ==
    /\ present \subseteq Sources /\ key \in [Sources -> Times]
    /\ cursor \in Cursors /\ seen \in [Sources -> Nat] /\ touched \subseteq Sources
TableType ==
    /\ rows \subseteq Sources /\ favorite \in Columns /\ opened \in Columns
    /\ chosen \in Columns /\ visited \in Columns
    /\ \A s \in Sources \ rows : favorite[s] = Null /\ opened[s] = Null
    /\ clock \in 0..MaxClock

LEMMA TypeParts == (TypeOK <=> WalkType /\ TableType) /\ (TypeOK' <=> WalkType' /\ TableType')
  BY DEF TypeOK, WalkType, TableType

LEMMA InitInv == Init => IInv
<1> SUFFICES ASSUME Init PROVE IInv
  OBVIOUS
<1>1. TypeOK
  <2>1. WalkType
    BY DEF Init, WalkType, Cursors
  <2>2. TableType
    BY ListsAssumption DEF Init, TableType, Columns, Null, ListsAssumption
  <2> QED
    BY <2>1, <2>2, TypeParts
<1>2. WalkInv
  BY DEF Init, WalkInv, Passed, Start, End
<1>3. TableInv
  <2>1. Recent = {}
    BY DEF Init, Recent
  <2> QED
    BY <2>1, FS_EmptySet, ListsAssumption DEF Init, TableInv, Null, ListsAssumption
<1> QED
  BY <1>1, <1>2, <1>3 DEF IInv

LEMMA ClearedColumn ==
  ASSUME NEW column \in Columns, NEW ss
  PROVE  Cleared(column, ss) \in Columns
  BY ListsAssumption DEF Cleared, Columns, Null, ListsAssumption

LEMMA StepTableType == ASSUME TypeOK, [Next]_vars PROVE TableType'
<1>0. TableType
  BY TypeParts
<1>1. CASE UNCHANGED activity
  BY <1>0, <1>1 DEF TableType, activity, table
<1>2. ASSUME Tick PROVE clock' \in 0..MaxClock
  BY <1>0, <1>2, ListsAssumption DEF Tick, TableType, ListsAssumption
<1>3. ASSUME NEW s \in Sources, Delete(s) PROVE TableType'
  <2>1. /\ favorite' \in Columns /\ opened' \in Columns
        /\ chosen' \in Columns /\ visited' \in Columns
    BY <1>0, <1>3, ClearedColumn DEF Delete, TableType
  <2>2. \A r \in Sources \ rows' : favorite'[r] = Null /\ opened'[r] = Null
    BY <1>0, <1>3 DEF Delete, TableType, Cleared
  <2> QED
    BY <1>0, <1>3, <2>1, <2>2 DEF Delete, TableType
<1>4. ASSUME NEW s \in Sources, Favorite(s) PROVE TableType'
  <2>1. favorite' \in Columns /\ chosen' \in Columns /\ clock' \in 0..MaxClock
    BY <1>0, <1>2, <1>4 DEF Favorite, TableType, Columns
  <2>2. \A r \in Sources \ rows' : favorite'[r] = Null /\ opened'[r] = Null
    BY <1>0, <1>4 DEF Favorite, TableType, Columns
  <2> QED
    BY <1>0, <1>4, <2>1, <2>2 DEF Favorite, TableType
<1>5. ASSUME NEW s \in Sources, Unfavorite(s) PROVE TableType'
  <2>1. favorite' \in Columns /\ chosen' \in Columns
    BY <1>0, <1>5, ClearedColumn DEF Unfavorite, TableType
  <2>2. \A r \in Sources \ rows' : favorite'[r] = Null /\ opened'[r] = Null
    BY <1>0, <1>5 DEF Unfavorite, TableType, Cleared
  <2> QED
    BY <1>0, <1>5, <2>1, <2>2 DEF Unfavorite, TableType
<1>6. ASSUME NEW s \in Sources, Visit(s) PROVE TableType'
  <2> DEFINE up == [opened EXCEPT ![s] = clock']
             useless == Useless(rows \cup {s}, Cleared(up, Beyond(up)))
  <2>1. clock' \in 0..MaxClock /\ rows' = (rows \cup {s}) \ useless
        /\ opened' = Cleared(up, Beyond(up)) /\ favorite' = Cleared(favorite, useless)
        /\ visited' = [visited EXCEPT ![s] = clock'] /\ chosen' = chosen
    BY <1>2, <1>6 DEF Visit
  <2>2. up \in Columns /\ visited' \in Columns
    BY <1>0, <2>1 DEF TableType, Columns
  <2>3. favorite' \in Columns /\ opened' \in Columns
    BY <1>0, <2>1, <2>2, ClearedColumn DEF TableType
  <2>4. ASSUME NEW r \in Sources \ rows' PROVE favorite'[r] = Null /\ opened'[r] = Null
    <3>1. CASE r \in useless
      BY <2>1, <3>1 DEF Useless, Cleared
    <3>2. CASE r \notin useless
      BY <1>0, <2>1, <3>2 DEF Cleared, TableType, Columns
    <3> QED
      BY <3>1, <3>2
  <2> HIDE DEF up, useless
  <2> QED
    BY <1>0, <2>1, <2>2, <2>3, <2>4 DEF TableType
<1> QED
  BY <1>1, <1>3, <1>4, <1>5, <1>6 DEF Next, Page, Again, Import, Update, vars

LEMMA StepWalkType == ASSUME TypeOK, [Next]_vars PROVE WalkType'
<1>0. WalkType
  BY TypeParts
<1>1. CASE Page
  <2>1. ASSUME NEW last \in First(Remaining) PROVE CursorAt(last) \in Cursors
    BY <1>0 DEF First, Remaining, CursorAt, Cursors, WalkType
  <2>2. cursor' \in Cursors
    BY <1>1, <2>1 DEF Page, Cursors
  <2>3. seen' \in [Sources -> Nat]
    BY <1>0, <1>1 DEF Page, WalkType
  <2> QED
    BY <1>0, <1>1, <2>2, <2>3 DEF Page, WalkType
<1>2. CASE Again
  BY <1>0, <1>2 DEF Again, WalkType, Cursors
<1>3. ASSUME NEW s \in Sources, Import(s) \/ Update(s) \/ Delete(s) PROVE WalkType'
  BY <1>0, <1>3 DEF Import, Update, Delete, WalkType
<1>4. CASE UNCHANGED <<present, key, walk>>
  BY <1>0, <1>4 DEF WalkType, walk
<1> QED
  BY <1>1, <1>2, <1>3, <1>4 DEF Next, Favorite, Unfavorite, Visit, vars

LEMMA StepWalks == ASSUME IInv, [Next]_vars PROVE WalkInv'
<1>0. TypeOK /\ WalkInv
  BY DEF IInv
<1>1. CASE Page
  BY <1>0, <1>1, PageWalks
<1>2. CASE Again
  BY <1>0, <1>2 DEF Again, WalkInv, Passed, Start, End
<1>3. ASSUME NEW s \in Sources, Import(s) \/ Update(s) \/ Delete(s) PROVE WalkInv'
  <2>1. /\ UNCHANGED <<cursor, seen>> /\ touched' = touched \cup {s}
        /\ \A r \in Sources \ {s} : key'[r] = key[r] /\ (r \in present' <=> r \in present)
    BY <1>0, <1>3 DEF Import, Update, Delete, TypeOK
  <2> QED
    BY <1>0, <2>1 DEF WalkInv, Passed
<1>4. CASE UNCHANGED <<present, key, walk>>
  BY <1>0, <1>4 DEF WalkInv, Passed, walk
<1> QED
  BY <1>1, <1>2, <1>3, <1>4 DEF Next, Favorite, Unfavorite, Visit, vars

\* What every reachable state satisfies, whatever changes between the pages of a walk.
THEOREM Invariance == Spec => []IInv
<1>1. IInv /\ [Next]_vars => IInv'
  BY TypeParts, StepTableType, StepWalkType, StepWalks, StepTable DEF IInv
<1> QED
  BY InitInv, <1>1, PTL DEF Spec

\* A source that nothing touches during a walk is shown exactly once by the time the walk
\* ends, for any number of sources, any page size, and sort keys that several sources share
\* (list_sources_page): the keyset cursor names a place in the order, not a row, so it
\* survives the row it was made from.
THEOREM ShownOnce == Spec => []UnchangedIsShownOnce
<1>1. IInv => UnchangedIsShownOnce
  BY DEF IInv, WalkInv, Passed, UnchangedIsShownOnce
<1> QED
  BY <1>1, Invariance, PTL

\* Over every sequence of requests on the one table of both collections: the favourites
\* are the sources the user made one and did not take back, since when, and the history
\* is the newest visits within its bound, for any number of sources, any bound and any
\* number of visits (set_source_favorite, record_source_visit).
THEOREM CollectionsKept == Spec => []CollectionsAreKept
<1>1. IInv => CollectionsAreKept
  BY DEF IInv, TableInv, CollectionsAreKept
<1> QED
  BY <1>1, Invariance, PTL
================================================================================
