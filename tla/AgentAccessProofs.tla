--------------------------- MODULE AgentAccessProofs ---------------------------
(* What holds of AgentAccess for every number of owners, Agents, credentials,     *)
(* libraries, calls, starts and faults.                                           *)
EXTENDS AgentAccess, FiniteSetTheorems, TLAPS

-----------------------------------------------------------------------------
(* The inductive invariant. *)

\* Credentials are numbered one after another, and none is issued twice.
Numbered == \E n \in Nat : issued = 1..n

\* One owner's request at most is within issue or revoke; what it is about is no row,
\* and there is still room for it.
Holder ==
    /\ \A o, p \in Owners : admin[o] # Idle /\ admin[p] # Idle => o = p
    /\ \A o \in Owners : admin[o] # Idle =>
          /\ admin[o].id \in issued /\ home[admin[o].id] = Nothing /\ admin[o].id \notin rows
          /\ admin[o].step = "insert" => admin[o].id \in secrets
          /\ admin[o].step \in {"verify", "insert"} =>
                admin[o].id \notin revoked /\ Cardinality(rows) < Limit

\* What was revoked authorises nobody.
Revocation == (rows \cup grants) \cap revoked = {}

Good(c, s) == LibraryOf[s] \in call[c].allowed /\ s \notin call[c].gone

\* A call knows of revocations and deletions before it began; the scope it carries is
\* that of its credential; what it has looked up may be shown.
CallInv(c) ==
    /\ call[c].at # "idle" => call[c].id \in issued
    /\ call[c].late => call[c].id \in revoked
    /\ call[c].gone \cap present = {}
    /\ call[c].at \in {"run", "look", "answer"} =>
          ~call[c].late /\ call[c].allowed = scope[call[c].id]
    /\ call[c].at = "look" =>
          /\ call[c].tool # "list_libraries" /\ call[c].library \in call[c].allowed
          /\ \A s \in call[c].shown \ call[c].left : Good(c, s)
    /\ call[c].at = "answer" => \A s \in call[c].shown : Good(c, s)
    /\ call[c].at \notin {"look", "answer", "error"} =>
          call[c].shown = {} \/ (c \in Checks /\ call[c].tool = "read_source")
    /\ c \in Checks => \A s, t \in call[c].left \cup call[c].shown : s = t

CallsInv == \A c \in Callers : CallInv(c)

Store == TypeOK /\ Numbered /\ Holder /\ Revocation /\ ListedHasSecret /\ LimitHolds
IInv == Store /\ CallsInv

USE ConstantsAssumption DEF ConstantsAssumption, Down, Nothing, Starts, Ids

LEMMA InitInv == Init => IInv
<1> SUFFICES ASSUME Init PROVE IInv
  OBVIOUS
<1>1. TypeOK
  BY DEF Init, TypeOK, Idle, NoCall, Calls, Tools, Running
<1>2. Numbered
  <2>1. issued = 1..0
    BY DEF Init
  <2> QED
    BY <2>1 DEF Numbered
<1>3. LimitHolds
  BY FS_EmptySet DEF Init, LimitHolds
<1>4. CallsInv
  BY DEF Init, CallsInv, CallInv, NoCall
<1> QED
  BY <1>1, <1>2, <1>3, <1>4 DEF Init, IInv, Store, Holder, Revocation, ListedHasSecret

-----------------------------------------------------------------------------
(* Steps that leave the credentials alone, and those that issue one. *)

LEMMA Finite ==
  ASSUME TypeOK
  PROVE  /\ \A S : S \subseteq issued => IsFiniteSet(S) /\ Cardinality(S) \in Nat
<1>1. IsFiniteSet(1..MaxIds)
  BY FS_Interval
<1>2. issued \subseteq 1..MaxIds
  BY DEF TypeOK
<1> QED
  BY <1>1, <1>2, FS_Subset, FS_CardinalityType

LEMMA FreshNumber ==
  ASSUME Numbered, NEW i \in Ids, NEW from, Fresh(i, from)
  PROVE  i \notin issued /\ issued' = issued \cup {i} /\ Numbered'
<1>1. PICK n \in Nat : issued = 1..n
  BY DEF Numbered
<1>2. Cardinality(issued) = n
  BY <1>1, FS_Interval
<1>3. i = n + 1 /\ issued' = issued \cup {i}
  BY <1>2 DEF Fresh
<1>4. issued' = 1..(n + 1)
  BY <1>1, <1>3
<1> QED
  BY <1>1, <1>3, <1>4 DEF Numbered

\* A set of credentials with one more, and one with some fewer.
LEMMA OneMore ==
  ASSUME TypeOK, NEW S, S \subseteq issued, NEW i, Cardinality(S) < Limit
  PROVE  Cardinality(S \cup {i}) <= Limit
<1>1. IsFiniteSet(S) /\ Cardinality(S) \in Nat
  BY Finite
<1>2. CASE i \in S
  <2>1. S \cup {i} = S
    BY <1>2
  <2> QED
    BY <1>1, <2>1
<1>3. CASE i \notin S
  <2>1. Cardinality(S \cup {i}) = Cardinality(S) + 1
    BY <1>1, <1>3, FS_AddElement
  <2> QED
    BY <1>1, <2>1
<1> QED
  BY <1>2, <1>3

LEMMA Fewer ==
  ASSUME TypeOK, NEW S, S \subseteq issued, NEW T, T \subseteq S
  PROVE  Cardinality(T) <= Cardinality(S) /\ Cardinality(T) \in Nat
<1>1. IsFiniteSet(S) /\ T \subseteq issued
  BY Finite
<1> QED
  BY <1>1, Finite, FS_Subset

-----------------------------------------------------------------------------
(* The owner's requests. *)

Requests == {Idle} \cup [step : {"verify", "insert", "cleanUp"}, id : Ids]

LEMMA AdminType ==
  ASSUME TypeOK, NEW o \in Owners
  PROVE  /\ admin[o].step # "idle" => admin[o].id \in Ids /\ admin[o] # Idle
         /\ Done(o) => admin' \in [Owners -> Requests]
         /\ \A i \in Ids : Goes(o, "insert", i) \/ Goes(o, "cleanUp", i) => admin' \in [Owners -> Requests]
<1>1. admin \in [Owners -> Requests]
  BY DEF TypeOK, Requests
<1>2. admin[o].step # "idle" => admin[o].id \in Ids /\ admin[o] # Idle
  BY <1>1 DEF Requests, Idle
<1>3. Done(o) => admin' \in [Owners -> Requests]
  BY <1>1 DEF Done, Requests
<1>4. ASSUME NEW i \in Ids, Goes(o, "insert", i) \/ Goes(o, "cleanUp", i)
      PROVE  admin' \in [Owners -> Requests]
  BY <1>1, <1>4 DEF Goes, Requests
<1> QED
  BY <1>2, <1>3, <1>4

LEMMA AdministerType ==
  ASSUME Store, NEW o \in Owners, Administer(o)
  PROVE  TypeOK' /\ Numbered' /\ (\A i \in issued : scope'[i] = scope[i])
         /\ issued \subseteq issued' /\ revoked \subseteq revoked'
<1> USE DEF Store, Administers, Goes, Done, Fault, NoFault, process, library
<1>0. TypeOK /\ Idle \in {Idle} \cup [step : {"verify", "insert", "cleanUp"}, id : Ids]
  BY DEF Idle
<1>1. CASE Issue(o)
  <2>1. PICK i \in Ids : Fresh(i, Nothing) /\ Goes(o, "verify", i)
    BY <1>1 DEF Issue
  <2>2. i \notin issued /\ issued' = issued \cup {i} /\ Numbered'
    BY <2>1, FreshNumber
  <2>3. /\ UNCHANGED <<rows, grants, revoked, core, starts, endpoint, present, indexed, call>>
        /\ secrets' \in {secrets, secrets \cup {i}} /\ faults' \in 0..MaxFaults
    <3>1. admin'[o].id = i
      BY <1>0, <2>1 DEF TypeOK
    <3> QED
      BY <1>0, <1>1, <2>1, <3>1 DEF Issue, TypeOK
  <2>4. admin' \in [Owners -> {Idle} \cup [step : {"verify", "insert", "cleanUp"}, id : Ids]]
    BY <1>0, <2>1 DEF TypeOK
  <2>5. /\ scope' \in [Ids -> SUBSET Libraries] /\ home' \in [Ids -> Starts \cup {Nothing}]
        /\ home'[i] = Nothing /\ \A j \in Ids \ {i} : home'[j] = home[j] /\ scope'[j] = scope[j]
    BY <1>0, <2>1 DEF TypeOK, Fresh
  <2> QED
    BY <1>0, <2>2, <2>3, <2>4, <2>5 DEF TypeOK
<1>2. CASE Verify(o)
  <2>1. admin' \in [Owners -> Requests]
    BY <1>0, <1>2, AdminType DEF Verify
  <2>2. UNCHANGED <<credentials, core, starts, endpoint, present, indexed, call>> /\ faults' \in 0..MaxFaults
    BY <1>0, <1>2 DEF Verify, TypeOK
  <2> QED
    BY <1>0, <2>1, <2>2 DEF TypeOK, credentials, Numbered, Requests
<1>3. CASE Insert(o)
  <2>1. admin' \in [Owners -> Requests]
    BY <1>0, <1>3, AdminType DEF Insert
  <2>2. /\ UNCHANGED <<secrets, grants, home, scope, issued, revoked, core, starts, endpoint, present, indexed, call>>
        /\ faults' \in 0..MaxFaults
    BY <1>0, <1>3 DEF Insert, TypeOK
  <2>3. admin[o].id \in issued /\ home[admin[o].id] = Nothing /\ rows' \in {rows, rows \cup {admin[o].id}}
    BY <1>0, <1>3, AdminType DEF Insert, Holder
  <2> QED
    BY <1>0, <2>1, <2>2, <2>3 DEF TypeOK, Numbered, Requests
<1>4. CASE CleanUp(o)
  <2>1. admin' \in [Owners -> Requests]
    BY <1>0, <1>4, AdminType DEF CleanUp
  <2>2. /\ UNCHANGED <<rows, grants, home, scope, issued, revoked, core, starts, endpoint, present, indexed, call>>
        /\ faults' \in 0..MaxFaults /\ secrets' \subseteq secrets
    BY <1>0, <1>4 DEF CleanUp, TypeOK
  <2> QED
    BY <1>0, <2>1, <2>2 DEF TypeOK, Numbered, Requests
<1>5. CASE Revoke(o)
  <2>1. PICK i \in Known : /\ rows' = rows \ {i} /\ revoked' = revoked \cup {i}
                           /\ Goes(o, "cleanUp", i)
    BY <1>5 DEF Revoke, Withdrawn
  <2>2. i \in issued /\ i \in Ids
    BY <1>0, <2>1 DEF Known, TypeOK
  <2>3. admin' \in [Owners -> Requests]
    BY <1>0, <2>1, <2>2, AdminType
  <2>4. UNCHANGED <<secrets, grants, home, scope, issued, core, starts, endpoint, present, indexed, call, faults>>
    BY <1>5 DEF Revoke
  <2> QED
    BY <1>0, <2>1, <2>2, <2>3, <2>4 DEF TypeOK, Numbered, Requests
<1>6. CASE IssueGrant(o)
  <2>1. PICK i \in Ids : Fresh(i, core) /\ grants' = grants \cup {i}
    BY <1>6 DEF IssueGrant
  <2>2. i \notin issued /\ issued' = issued \cup {i} /\ Numbered'
    BY <2>1, FreshNumber
  <2>3. /\ scope' \in [Ids -> SUBSET Libraries] /\ home' \in [Ids -> Starts \cup {Nothing}]
        /\ home'[i] = core /\ \A j \in Ids \ {i} : home'[j] = home[j] /\ scope'[j] = scope[j]
    BY <1>0, <2>1 DEF TypeOK, Fresh
  <2> QED
    BY <1>0, <1>6, <2>1, <2>2, <2>3 DEF IssueGrant, TypeOK
<1>7. CASE RevokeGrant(o)
  BY <1>0, <1>7 DEF RevokeGrant, TypeOK, Numbered
<1> QED
  BY <1>1, <1>2, <1>3, <1>4, <1>5, <1>6, <1>7 DEF Administer

LEMMA AdministerStep ==
  ASSUME Store, NEW o \in Owners, Administer(o)
  PROVE  Holder' /\ Revocation' /\ ListedHasSecret' /\ LimitHolds'
<1> USE DEF Store, Administers, Goes, Done, Fault, NoFault, ListedHasSecret, Revocation, LimitHolds
<1>0. TypeOK /\ TypeOK'
  BY AdministerType
<1>1. CASE Issue(o)
  <2>1. PICK i \in Ids : Fresh(i, Nothing) /\ Goes(o, "verify", i)
    BY <1>1 DEF Issue
  <2>2. i \notin issued /\ issued' = issued \cup {i}
    BY <2>1, FreshNumber
  <2>3. UNCHANGED <<rows, grants, revoked>> /\ secrets \subseteq secrets' /\ home'[i] = Nothing
    BY <1>0, <1>1, <2>1 DEF Issue, TypeOK, Fresh
  <2>4. admin' = [admin EXCEPT ![o] = [step |-> "verify", id |-> i]] /\ \A p \in Owners : admin[p] = Idle
    BY <1>1, <2>1 DEF Issue, LockFree
  <2>5. i \notin rows /\ i \notin revoked /\ Cardinality(rows) < Limit
    BY <1>0, <1>1, <2>2 DEF Issue, TypeOK
  <2>6. Holder'
    BY <1>0, <2>2, <2>3, <2>4, <2>5 DEF Holder, TypeOK, Idle
  <2> QED
    BY <2>3, <2>6
<1>2. CASE Verify(o)
  <2>1. admin[o] # Idle /\ admin[o].step = "verify" /\ UNCHANGED credentials
    BY <1>2 DEF Verify, Idle
  <2>2. \/ Goes(o, "insert", admin[o].id) /\ admin[o].id \in secrets
        \/ Goes(o, "cleanUp", admin[o].id)
    BY <1>2 DEF Verify
  <2>3. Holder'
    <3>1. \A p \in Owners : p # o => admin'[p] = Idle
      BY <1>0, <2>1, <2>2 DEF Holder, TypeOK
    <3>2. /\ admin'[o].id = admin[o].id /\ admin'[o] # Idle
          /\ admin'[o].step = "insert" => admin[o].id \in secrets
      BY <1>0, <2>2 DEF TypeOK, Idle
    <3> QED
      BY <2>1, <3>1, <3>2 DEF Holder, credentials
  <2> QED
    BY <2>1, <2>3 DEF credentials
<1>3. CASE Insert(o)
  <2>1. admin[o] # Idle /\ admin[o].step = "insert"
    BY <1>3 DEF Insert, Idle
  <2>2. CASE rows' = rows \cup {admin[o].id} /\ Done(o)
    <3>1. Cardinality(rows') <= Limit
      BY <1>0, <2>1, <2>2, OneMore DEF Holder, TypeOK
    <3>2. \A p \in Owners : admin'[p] = Idle
      BY <1>0, <2>1, <2>2 DEF Holder, TypeOK
    <3> QED
      BY <1>3, <2>1, <2>2, <3>1, <3>2 DEF Insert, Holder
  <2>3. CASE UNCHANGED rows /\ Goes(o, "cleanUp", admin[o].id)
    BY <1>0, <1>3, <2>1, <2>3 DEF Insert, Holder, TypeOK, Idle
  <2> QED
    BY <1>3, <2>2, <2>3 DEF Insert
<1>4. CASE CleanUp(o)
  <2>1. admin[o] # Idle
    BY <1>4 DEF CleanUp, Idle
  <2>2. \A p \in Owners : admin'[p] = Idle
    BY <1>0, <1>4, <2>1 DEF Holder, TypeOK, CleanUp
  <2>3. rows' \subseteq secrets'
    BY <1>4, <2>1 DEF Holder, CleanUp
  <2> QED
    BY <1>4, <2>2, <2>3 DEF CleanUp, Holder
<1>5. CASE Revoke(o)
  <2>1. PICK i \in Known : /\ home[i] = Nothing /\ rows' = rows \ {i} /\ revoked' = revoked \cup {i}
                           /\ Goes(o, "cleanUp", i)
    BY <1>5 DEF Revoke, Withdrawn
  <2>2. i \in issued /\ i \notin grants
    BY <1>0, <2>1 DEF Known, TypeOK
  <2>3. Cardinality(rows') <= Limit
    <3>1. rows \subseteq issued /\ rows' \subseteq rows
      BY <1>0, <2>1 DEF TypeOK
    <3> QED
      BY <1>0, <3>1, Fewer, Finite
  <2>4. Holder'
    BY <1>0, <1>5, <2>1, <2>2 DEF Revoke, Holder, TypeOK, Idle, LockFree
  <2> QED
    BY <1>5, <2>1, <2>2, <2>3, <2>4 DEF Revoke
<1>6. CASE IssueGrant(o)
  <2>1. PICK i \in Ids : Fresh(i, core) /\ grants' = grants \cup {i}
    BY <1>6 DEF IssueGrant
  <2>2. i \notin issued /\ issued' = issued \cup {i}
    BY <2>1, FreshNumber
  <2>3. Cardinality(grants') <= Limit
    BY <1>0, <1>6, <2>1, OneMore DEF TypeOK, IssueGrant
  <2>4. \A j \in issued : home'[j] = home[j]
    BY <1>0, <2>1, <2>2 DEF Fresh, TypeOK
  <2>5. Holder'
    BY <1>6, <2>2, <2>4 DEF IssueGrant, Holder
  <2> QED
    BY <1>0, <1>6, <2>1, <2>2, <2>3, <2>5 DEF IssueGrant, TypeOK
<1>7. CASE RevokeGrant(o)
  <2>1. PICK i \in issued : home[i] # Nothing /\ grants' = grants \ {i} /\ revoked' = revoked \cup {i}
    BY <1>7 DEF RevokeGrant
  <2>2. Cardinality(grants') <= Limit
    <3>1. grants \subseteq issued /\ grants' \subseteq grants
      BY <1>0, <2>1 DEF TypeOK
    <3> QED
      BY <1>0, <3>1, Fewer, Finite
  <2>3. Holder'
    BY <1>7, <2>1 DEF RevokeGrant, Holder
  <2> QED
    BY <1>0, <1>7, <2>1, <2>2, <2>3 DEF RevokeGrant, TypeOK
<1> QED
  BY <1>1, <1>2, <1>3, <1>4, <1>5, <1>6, <1>7 DEF Administer

-----------------------------------------------------------------------------
(* Calls. *)

\* A call that no step touches stays as it was.
LEMMA CallKept ==
  ASSUME NEW c \in Callers, CallInv(c), call'[c] = call[c],
         issued \subseteq issued', revoked \subseteq revoked', present' \subseteq present,
         \A i \in issued : scope'[i] = scope[i]
  PROVE  CallInv(c)'
  BY DEF CallInv, Good

LEMMA CallType ==
  ASSUME TypeOK, NEW c \in Callers, NEW r \in Calls, call' = [call EXCEPT ![c] = r],
         UNCHANGED <<credentials, admin, process, library>>, faults' \in 0..MaxFaults
  PROVE  TypeOK'
<1>1. call' \in [Callers -> Calls]
  BY DEF TypeOK
<1> QED
  BY <1>1 DEF TypeOK, credentials, process, library

\* The store does not depend on the calls.
LEMMA StoreKept ==
  ASSUME Store, UNCHANGED <<credentials, admin>>
  PROVE  Numbered' /\ Holder' /\ Revocation' /\ ListedHasSecret' /\ LimitHolds'
  BY DEF Store, credentials, Numbered, Holder, Revocation, ListedHasSecret, LimitHolds

Calling(c) == \/ Call(c) \/ Discover(c) \/ Secret(c) \/ Send(c) \/ Answer(c) \/ Timeout(c)
              \/ Check(c) \/ Resolve(c) \/ (c \in Checks /\ NextStage(c)) \/ Broken(c) \/ Denied(c)
              \/ SearchKnowledge(c) \/ ReadSource(c) \/ Look(c) \/ Finish(c)

\* A step of a call changes that call only, and how.
Becomes(c, r) == call' = [call EXCEPT ![c] = r] /\ r \in Calls

LEMMA CallFrame ==
  ASSUME TypeOK, NEW c \in Callers, Calling(c)
  PROVE  UNCHANGED <<credentials, admin, process, library>> /\ faults' \in 0..MaxFaults
<1> USE DEF Steps, NoFault, Fault
<1>1. UNCHANGED <<credentials, admin, process, library>>
  BY DEF Calling, Call, Discover, Secret, Send, Answer, Timeout, Check, Resolve, NextStage, Broken,
     Denied, SearchKnowledge, ReadSource, Look, Finish
<1>2. faults' = faults \/ Fault
  BY DEF Calling, Call, Discover, Secret, Send, Answer, Timeout, Check, Resolve, NextStage, Broken,
     Denied, SearchKnowledge, ReadSource, Look, Finish
<1> QED
  BY <1>1, <1>2 DEF TypeOK

LEMMA Typed ==
  ASSUME TypeOK, NEW c \in Callers, Calling(c)
  PROVE  \E r \in Calls : call' = [call EXCEPT ![c] = r]
<1> USE DEF Moves, Calls, Running
<1>0. call \in [Callers -> Calls] /\ call[c] \in Calls
  BY DEF TypeOK
<1>1. ASSUME \/ \E at \in {"error", "answer", "secret", "send"} : Moves(c, at)
      PROVE  \E r \in Calls : call' = [call EXCEPT ![c] = r]
  <2>1. PICK at \in {"error", "answer", "secret", "send"} : Moves(c, at)
    BY <1>1
  <2>2. [call[c] EXCEPT !.at = at] \in Calls
    BY <1>0
  <2> QED
    BY <1>0, <2>1, <2>2
<1>2. CASE Call(c) \/ Check(c)
  <2>1. PICK i \in Known, at \in {"discover", "send", "resolve"}, url \in Starts \cup {Nothing},
             tool \in Tools, lib \in Libraries : call' = [call EXCEPT ![c] = Starting(i, at, url, tool, lib)]
    <3>1. CASE Call(c)
      <4>1. PICK i \in Known, tool \in Tools, lib \in Libraries :
               call' = [call EXCEPT ![c] =
                  Starting(i, IF home[i] = Nothing THEN "discover" ELSE "send", home[i], tool, lib)]
        BY <3>1 DEF Call
      <4>2. home[i] \in Starts \cup {Nothing}
        BY DEF Known, TypeOK
      <4> QED
        BY <4>1, <4>2
    <3>2. CASE Check(c)
      <4>1. PICK i \in Known, lib \in Libraries :
               call' = [call EXCEPT ![c] = Starting(i, "resolve", core, "list_libraries", lib)]
        BY <3>2 DEF Check
      <4>2. core \in Starts \cup {Nothing} /\ "list_libraries" \in Tools
        BY DEF TypeOK, Tools
      <4> QED
        BY <4>1, <4>2
    <3> QED
      BY <1>2, <3>1, <3>2
  <2>2. i \in Ids /\ (i \in revoked) \in BOOLEAN
    BY DEF Known, TypeOK
  <2>3. Starting(i, at, url, tool, lib) \in Calls
    BY <2>2 DEF Starting
  <2> QED
    BY <2>1, <2>3
<1>3. CASE Discover(c)
  <2>1. CASE call' = [call EXCEPT ![c].at = "secret", ![c].url = endpoint] /\ endpoint # Nothing
    <3>1. [call[c] EXCEPT !.at = "secret", !.url = endpoint] \in Calls
      BY <1>0 DEF TypeOK
    <3> QED
      BY <1>0, <2>1, <3>1
  <2> QED
    BY <1>1, <1>3, <2>1 DEF Discover
<1>4. CASE Secret(c) \/ Answer(c) \/ Timeout(c) \/ Broken(c) \/ Denied(c)
  BY <1>1, <1>4 DEF Secret, Answer, Timeout, Broken, Denied
<1>5. ASSUME Resolved(c), call[c].id \in issued PROVE \E r \in Calls : call' = [call EXCEPT ![c] = r]
  <2>1. scope[call[c].id] \in SUBSET Libraries
    BY <1>5 DEF TypeOK
  <2>2. [call[c] EXCEPT !.at = "run", !.allowed = scope[call[c].id]] \in Calls
    BY <1>0, <2>1
  <2> QED
    BY <1>0, <1>5, <2>2 DEF Resolved
<1>6. CASE Send(c) \/ Resolve(c)
  <2>1. grants \subseteq issued /\ rows \subseteq issued
    BY DEF TypeOK
  <2> QED
    BY <1>1, <1>5, <1>6, <2>1 DEF Send, Resolve
<1>7. ASSUME NEW tool \in Tools, Begins(c, tool) PROVE \E r \in Calls : call' = [call EXCEPT ![c] = r]
  <2>1. (call[c].id \in revoked) \in BOOLEAN
    OBVIOUS
  <2>2. [call[c] EXCEPT !.at = "resolve", !.tool = tool, !.left = {},
                        !.late = call[c].id \in revoked, !.gone = Sources \ present] \in Calls
    BY <1>0, <2>1
  <2> QED
    BY <1>0, <1>7, <2>2 DEF Begins, Rechecks
<1>8. CASE NextStage(c)
  BY <1>1, <1>7, <1>8 DEF NextStage, Tools
<1>9. ASSUME NEW some \in SUBSET Sources, Looks(c, some) PROVE \E r \in Calls : call' = [call EXCEPT ![c] = r]
  <2>1. [call[c] EXCEPT !.at = "look", !.left = some] \in Calls
    BY <1>0
  <2> QED
    BY <1>0, <1>9, <2>1 DEF Looks
<1>10. CASE SearchKnowledge(c)
  <2>1. \A hits \in SUBSET Found(c) : hits \in SUBSET Sources
    BY DEF Found, TypeOK
  <2> QED
    BY <1>9, <1>10, <2>1 DEF SearchKnowledge
<1>11. CASE ReadSource(c)
  <2>1. call[c].shown \subseteq Sources
    BY <1>0
  <2> QED
    BY <1>9, <1>11, <2>1 DEF ReadSource
<1>12. CASE Look(c)
  <2>1. PICK s \in call[c].left :
           \/ Moves(c, "error")
           \/ call' = [call EXCEPT ![c].left = @ \ {s}, ![c].shown = @ \cup {s}]
    BY <1>12 DEF Look
  <2>2. [call[c] EXCEPT !.left = @ \ {s}, !.shown = @ \cup {s}] \in Calls
    BY <1>0
  <2> QED
    BY <1>0, <1>1, <2>1, <2>2
<1>13. CASE Finish(c)
  <2>1. NoCall \in Calls
    BY DEF NoCall, Tools
  <2> QED
    BY <1>13, <2>1 DEF Finish
<1> QED
  BY <1>2, <1>3, <1>4, <1>6, <1>8, <1>10, <1>11, <1>12, <1>13 DEF Calling

LEMMA CallingType ==
  ASSUME Store, NEW c \in Callers, Calling(c)
  PROVE  Store'
<1>1. TypeOK'
  BY CallFrame, Typed, CallType DEF Store
<1>2. UNCHANGED <<credentials, admin>>
  BY CallFrame DEF Store
<1> QED
  BY <1>1, <1>2, StoreKept DEF Store

-----------------------------------------------------------------------------
(* What a call may show. *)

LEMMA CallingInv ==
  ASSUME Store, NEW c \in Callers, CallInv(c), Calling(c)
  PROVE  CallInv(c)'
<1> USE DEF CallInv, Good, Running
<1>0. TypeOK /\ call \in [Callers -> Calls]
  BY DEF Store, TypeOK
<1>1. /\ UNCHANGED <<issued, revoked, present, scope, rows, grants>>
      /\ issued' = issued /\ revoked' = revoked /\ present' = present /\ scope' = scope
  BY <1>0, CallFrame DEF credentials, library
<1>2. ASSUME \/ \E at \in {"error", "secret", "send"} : Moves(c, at) /\ call[c].at \notin {"idle", "look", "answer", "error"}
             \/ Moves(c, "error") /\ call[c].at # "idle"
      PROVE  CallInv(c)'
  <2>1. PICK at \in {"error", "secret", "send"} : Moves(c, at)
    BY <1>2
  <2>2. /\ call'[c].at = at /\ call'[c].id = call[c].id /\ call'[c].late = call[c].late
        /\ call'[c].gone = call[c].gone /\ call'[c].shown = call[c].shown
        /\ call'[c].left = call[c].left /\ call'[c].tool = call[c].tool
    BY <1>0, <2>1 DEF Moves, Calls
  <2>3. at = "error" \/ call[c].at \notin {"look", "answer", "error"}
    BY <1>0, <1>2, <2>1 DEF Moves, Calls
  <2>4. call[c].at # "idle"
    BY <1>2
  <2> QED
    BY <1>1, <2>2, <2>3, <2>4
<1>3. CASE Call(c) \/ Check(c)
  <2> PICK i \in Known, at \in {"discover", "send", "resolve"} :
             \E url, tool, lib : call' = [call EXCEPT ![c] = Starting(i, at, url, tool, lib)]
    BY <1>3 DEF Call, Check
  <2>1. PICK url, tool, lib : call' = [call EXCEPT ![c] = Starting(i, at, url, tool, lib)]
    OBVIOUS
  <2>2. call'[c] = Starting(i, at, url, tool, lib) /\ i \in issued
    BY <1>0, <2>1 DEF Known
  <2> QED
    <3>1. /\ call'[c].at = at /\ call'[c].id = i /\ call'[c].shown = {} /\ call'[c].left = {}
          /\ call'[c].gone = Sources \ present
      BY <2>2 DEF Starting
    <3>2. call'[c].late => i \in revoked
      <4>1. call'[c].late = (i \in revoked)
        BY <2>2 DEF Starting
      <4> QED
        BY <4>1
    <3> QED
      BY <1>1, <2>2, <3>1, <3>2
<1>4. CASE Discover(c)
  <2>1. CASE call' = [call EXCEPT ![c].at = "secret", ![c].url = endpoint]
    BY <1>0, <1>1, <1>4, <2>1 DEF Discover, Steps
  <2> QED
    BY <1>2, <1>4, <2>1 DEF Discover, Steps
<1>5. CASE Secret(c) \/ Broken(c) \/ Denied(c) \/ Timeout(c)
  BY <1>0, <1>1, <1>2, <1>5 DEF Secret, Broken, Denied, Timeout, Steps
<1>6. ASSUME Resolved(c), call[c].id \in rows \cup grants, call[c].at \in {"send", "resolve"}
      PROVE  CallInv(c)'
  BY <1>0, <1>1, <1>6 DEF Resolved, Store, Revocation
<1>7. CASE Send(c) \/ Resolve(c)
  BY <1>2, <1>6, <1>7 DEF Send, Resolve, Steps
<1>8. ASSUME NEW tool, Begins(c, tool), call[c].at \in {"run", "look"},
             call[c].shown = {} \/ (c \in Checks /\ tool = "read_source")
      PROVE  CallInv(c)'
  <2>1. call'[c] = [call[c] EXCEPT !.at = "resolve", !.tool = tool, !.left = {},
                        !.late = call[c].id \in revoked, !.gone = Sources \ present]
    BY <1>0, <1>8 DEF Begins, Rechecks
  <2>2. /\ call'[c].at = "resolve" /\ call'[c].id = call[c].id /\ call'[c].shown = call[c].shown
        /\ call'[c].left = {} /\ call'[c].gone = Sources \ present /\ call'[c].tool = tool
    BY <1>0, <2>1 DEF Calls
  <2>3. call'[c].late => call[c].id \in revoked
    <3>1. call'[c].late = (call[c].id \in revoked)
      BY <1>0, <2>1 DEF Calls
    <3> QED
      BY <3>1
  <2> QED
    BY <1>1, <1>8, <2>2, <2>3
<1>9. ASSUME Moves(c, "answer"), \/ call[c].at = "look" /\ call[c].left = {}
                                 \/ call[c].at = "run" /\ call[c].tool = "list_libraries"
      PROVE  CallInv(c)'
  BY <1>0, <1>1, <1>9 DEF Moves
<1>10. CASE Answer(c)
  BY <1>9, <1>10 DEF Answer, Complete
<1>11. CASE c \in Checks /\ NextStage(c)
  <2>1. call[c].at \in {"run", "look"} /\ Complete(c)
    BY <1>11 DEF NextStage, Complete
  <2>2. CASE call[c].tool = "list_libraries" /\ Begins(c, "search_knowledge")
    BY <1>8, <2>1, <2>2
  <2> QED
    BY <1>8, <1>9, <1>11, <2>1, <2>2 DEF NextStage, Complete
<1>12. CASE SearchKnowledge(c)
  <2>1. PICK hits \in SUBSET Found(c) : (c \in Checks => \A s, t \in hits : s = t) /\ Looks(c, hits)
    BY <1>12 DEF SearchKnowledge
  <2>2. call[c].at = "run" /\ call[c].tool = "search_knowledge" /\ call[c].library \in call[c].allowed
    BY <1>12 DEF SearchKnowledge, Steps, Authorized
  <2> QED
    BY <1>0, <1>1, <2>1, <2>2 DEF Looks
<1>13. CASE ReadSource(c)
  <2>1. PICK s \in IF c \in Checks THEN call[c].shown ELSE Sources : Looks(c, {s})
    BY <1>13 DEF ReadSource
  <2>2. call[c].at = "run" /\ call[c].tool = "read_source" /\ call[c].library \in call[c].allowed
    BY <1>13 DEF ReadSource, Steps, Authorized
  <2> QED
    BY <1>0, <1>1, <2>1, <2>2 DEF Looks
<1>14. CASE Look(c)
  <2>1. PICK s \in call[c].left :
           \/ Moves(c, "error")
           \/ /\ s \in present /\ LibraryOf[s] = call[c].library
              /\ call' = [call EXCEPT ![c].left = @ \ {s}, ![c].shown = @ \cup {s}]
    BY <1>14 DEF Look, Present, Belongs
  <2>2. call[c].at = "look"
    BY <1>14 DEF Look, Steps
  <2>3. CASE Moves(c, "error")
    BY <1>2, <2>2, <2>3
  <2>4. CASE /\ s \in present /\ LibraryOf[s] = call[c].library
             /\ call' = [call EXCEPT ![c].left = @ \ {s}, ![c].shown = @ \cup {s}]
    BY <1>0, <1>1, <2>1, <2>2, <2>4
  <2> QED
    BY <2>1, <2>3, <2>4
<1>15. CASE Finish(c)
  BY <1>0, <1>1, <1>15 DEF Finish, NoCall
<1> QED
  BY <1>3, <1>4, <1>5, <1>7, <1>10, <1>11, <1>12, <1>13, <1>14, <1>15 DEF Calling

-----------------------------------------------------------------------------
(* Core, the library, and the induction. *)

LEMMA OthersStep ==
  ASSUME Store, Delete \/ Start \/ Stop \/ Crash
  PROVE  /\ Store' /\ UNCHANGED <<scope, issued, revoked, call>> /\ present' \subseteq present
<1> USE DEF Store
<1>1. CASE Delete
  <2>1. TypeOK'
    BY <1>1 DEF Delete, TypeOK, credentials, process
  <2> QED
    BY <1>1, <2>1, StoreKept DEF Delete, credentials
<1>2. CASE Start
  <2>1. TypeOK'
    BY <1>2 DEF Start, TypeOK, credentials, library
  <2> QED
    BY <1>2, <2>1, StoreKept DEF Start, credentials, library
<1>3. CASE Stop \/ Crash
  <2>1. /\ core' = 0 /\ grants' = {} /\ admin' = [o \in Owners |-> Idle]
        /\ UNCHANGED <<rows, secrets, home, scope, issued, revoked, starts, library, call, faults>>
        /\ endpoint' \in {endpoint, 0}
    BY <1>3 DEF Stop, Crash, Ends
  <2>2. TypeOK'
    BY <2>1 DEF TypeOK, library
  <2>3. LimitHolds'
    BY <2>1, FS_EmptySet DEF LimitHolds
  <2> QED
    BY <2>1, <2>2, <2>3 DEF Numbered, Holder, Revocation, ListedHasSecret, library
<1> QED
  BY <1>1, <1>2, <1>3

LEMMA StepInv == IInv /\ [Next]_vars => IInv'
<1> SUFFICES ASSUME IInv, [Next]_vars PROVE IInv'
  OBVIOUS
<1>0. Store /\ TypeOK /\ \A c \in Callers : CallInv(c)
  BY DEF IInv, Store, CallsInv
<1>1. ASSUME NEW o \in Owners, Administer(o) PROVE IInv'
  <2>1. call' = call /\ present' = present
    BY <1>1 DEF Administer, Administers, Issue, Verify, Insert, CleanUp, Revoke, IssueGrant,
       RevokeGrant, library
  <2>2. Store' /\ issued \subseteq issued' /\ revoked \subseteq revoked'
        /\ \A i \in issued : scope'[i] = scope[i]
    BY <1>0, <1>1, AdministerType, AdministerStep DEF Store
  <2> QED
    BY <1>0, <2>1, <2>2, CallKept DEF IInv, CallsInv
<1>2. ASSUME NEW c \in Callers, Calling(c) PROVE IInv'
  <2>1. Store' /\ UNCHANGED <<credentials, library>>
    BY <1>0, <1>2, CallingType, CallFrame
  <2>2. \A d \in Callers : d # c => call'[d] = call[d]
    BY <1>0, <1>2, Typed DEF TypeOK
  <2>3. \A d \in Callers : d # c => CallInv(d)'
    BY <1>0, <2>1, <2>2, CallKept DEF credentials, library
  <2>4. CallInv(c)'
    BY <1>0, <1>2, CallingInv
  <2> QED
    BY <2>1, <2>3, <2>4 DEF IInv, CallsInv
<1>3. CASE Delete \/ Start \/ Stop \/ Crash
  BY <1>0, <1>3, OthersStep, CallKept DEF IInv, CallsInv
<1>4. CASE UNCHANGED vars
  <2>1. TypeOK'
    BY <1>0, <1>4 DEF vars, TypeOK
  <2>2. Store' /\ UNCHANGED <<scope, issued, revoked, call, present>>
    BY <1>0, <1>4, <2>1, StoreKept DEF vars, credentials, Store
  <2> QED
    BY <1>0, <2>2, CallKept DEF IInv, CallsInv
<1>5. CASE Next
  <2>1. ASSUME NEW a \in Agents, Call(a) \/ Bridge(a) \/ Timeout(a) PROVE IInv'
    BY <1>2, <2>1 DEF Bridge, Calling, Callers
  <2>2. ASSUME NEW k \in Checks, Check(k) \/ Examine(k) PROVE IInv'
    BY <1>2, <2>2 DEF Examine, Calling, Callers
  <2>3. ASSUME NEW c \in Callers, Serves(c) PROVE IInv'
    BY <1>2, <2>3 DEF Serves, Calling
  <2> QED
    BY <1>1, <1>3, <1>5, <2>1, <2>2, <2>3 DEF Next
<1> QED
  BY <1>4, <1>5

LEMMA Invariance == Spec => []IInv
  BY InitInv, StepInv, PTL DEF Spec

\* Every reachable state is well typed.
THEOREM TypeCorrect == Spec => []TypeOK
  BY Invariance, PTL DEF IInv, Store

\* Nothing is read with a credential that was revoked before the call, or the stage of a
\* self-check, began: whatever Core crashed on, in memory or in the database.
THEOREM RevokedReadsNothing == Spec => []NoReadAfterRevocation
<1>1. IInv => NoReadAfterRevocation
  BY DEF IInv, CallsInv, CallInv, NoReadAfterRevocation
<1> QED
  BY Invariance, <1>1, PTL

\* An answer shows nothing outside the credential's libraries, and nothing that was
\* deleted before the call began, whatever the index still finds.
THEOREM AnswersAreGranted == Spec => []AnswerIsGranted
<1>1. IInv => AnswerIsGranted
  BY DEF IInv, CallsInv, CallInv, Good, AnswerIsGranted
<1> QED
  BY Invariance, <1>1, PTL

\* Whatever fails between vault and database, a listed connection has its secret.
THEOREM ListedAreUsable == Spec => []ListedHasSecret
  BY Invariance, PTL DEF IInv, Store

\* The limits hold for any number of overlapping requests.
THEOREM LimitsHold == Spec => []LimitHolds
  BY Invariance, PTL DEF IInv, Store
===============================================================================
