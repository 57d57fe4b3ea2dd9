------------------------------ MODULE AgentAccess ------------------------------
(***************************************************************************)
(* What an Agent may read, and how it gets there: connections with their   *)
(* secret in the vault of the operating system and their row in            *)
(* agent-connections.sqlite (storage/agent_connections.py), grants in the  *)
(* memory of one Core (mcp/credentials.py), the owner's requests           *)
(* (mcp/routes.py), the bridge, which is a process of its own              *)
(* (mcp/bridge.py), and the tools (mcp/dispatch.py, mcp/service.py).       *)
(*                                                                         *)
(* A credential is its number: tokens are unique and never used again.  A  *)
(* Core is the number of its start, and so is its address.  The store's    *)
(* lock is held through issue and revoke, so a request that has begun one  *)
(* holds it.  Finding the address and being ready are one step: nothing    *)
(* answers between them.                                                   *)
(***************************************************************************)
EXTENDS Integers, FiniteSets

CONSTANTS
    Owners,      \* requests of the owner that may be in progress at once
    Agents,      \* bridges, with one call each
    Checks,      \* self-checks of a connection that the owner may have in progress
    Libraries, Sources,
    LibraryOf,   \* the library of each source
    Limit,       \* connections, and grants, at once (100 in the code)
    MaxIds,      \* bound: credentials ever issued
    MaxCalls,    \* bound: calls in progress at once; they do not touch each other
    MaxStarts,   \* bound: starts of Core
    MaxFaults    \* bound: failures of the vault or of the database

ASSUME ConstantsAssumption ==
    /\ LibraryOf \in [Sources -> Libraries]
    /\ Limit \in Nat
    /\ MaxIds \in Nat /\ MaxCalls \in Nat /\ MaxStarts \in Nat /\ MaxFaults \in Nat

Down == 0
Nothing == 0       \* an address or a credential that is not there
Starts == 1..MaxStarts
Ids == 1..MaxIds

VARIABLES
    rows,        \* credentials with a row in agent-connections.sqlite
    secrets,     \* credentials with a secret in the vault
    grants,      \* credentials in the memory of this Core
    home,        \* the Core that issued each grant, Nothing for a connection
    scope,       \* the libraries of each credential
    issued,      \* credentials ever issued, or begun to be
    admin,       \* the owner's requests that hold the store's lock: next step, credential
    core,        \* the running Core, or Down
    starts,
    endpoint,    \* the address in agent-endpoint.json, or Nothing
    present,     \* sources in the database
    indexed,     \* sources with rows in the index of their library
    call,        \* the call of each Agent and check
    revoked,     \* auxiliary: credentials whose revocation was committed
    faults

credentials == <<rows, secrets, grants, home, scope, issued, revoked>>
library == <<present, indexed>>
process == <<core, starts, endpoint>>
vars == <<rows, secrets, grants, home, scope, issued, admin, core, starts, endpoint,
          present, indexed, call, revoked, faults>>

Idle == [step |-> "idle", id |-> Nothing]
Callers == Agents \cup Checks
Tools == {"list_libraries", "search_knowledge", "read_source"}
Running == {"resolve", "run", "look"}    \* Core is at work on it
Calls == [at : {"idle", "discover", "secret", "send", "answer", "error"} \cup Running,
          id : Ids \cup {Nothing}, url : Starts \cup {Nothing},
          tool : Tools, library : Libraries \cup {Nothing},
          allowed : SUBSET Libraries,  \* the scope of the grant that was resolved
          left : SUBSET Sources,       \* sources still to be looked up
          shown : SUBSET Sources,      \* sources in the answer
          late : BOOLEAN,              \* auxiliary: it began after the revocation, ...
          gone : SUBSET Sources]       \* ... and after the deletion of these

TypeOK ==
    /\ rows \subseteq issued /\ secrets \subseteq issued /\ grants \subseteq issued
    /\ issued \subseteq Ids /\ revoked \subseteq issued
    /\ home \in [Ids -> Starts \cup {Nothing}]
    /\ \A i \in rows \cup secrets : home[i] = Nothing
    /\ \A i \in grants : home[i] = core /\ core # Down
    /\ scope \in [Ids -> SUBSET Libraries]
    /\ admin \in [Owners -> {Idle} \cup [step : {"verify", "insert", "cleanUp"}, id : Ids]]
    /\ core \in Starts \cup {Down} /\ starts \in 0..MaxStarts
    /\ endpoint \in Starts \cup {Nothing}
    /\ present \subseteq Sources /\ indexed \subseteq Sources
    /\ call \in [Callers -> Calls]
    /\ faults \in 0..MaxFaults

NoCall ==
    [at |-> "idle", id |-> Nothing, url |-> Nothing, tool |-> "list_libraries",
     library |-> Nothing, allowed |-> {}, left |-> {}, shown |-> {},
     late |-> FALSE, gone |-> {}]

Init ==
    /\ rows = {} /\ secrets = {} /\ grants = {} /\ issued = {} /\ revoked = {}
    /\ home = [i \in Ids |-> Nothing] /\ scope = [i \in Ids |-> {}]
    /\ admin = [o \in Owners |-> Idle]
    /\ core = Down /\ starts = 0 /\ endpoint = Nothing
    /\ present = Sources /\ indexed = Sources
    /\ call = [c \in Callers |-> NoCall]
    /\ faults = 0

Fault   == faults < MaxFaults /\ faults' = faults + 1
NoFault == UNCHANGED faults

-----------------------------------------------------------------------------
(* The owner. *)

AnyTime == TRUE          \* mutant: the store has no lock
LockFree == \A o \in Owners : admin[o] = Idle

Administers(o, step) == core # Down /\ admin[o].step = step /\ UNCHANGED <<process, library, call>>
Goes(o, step, i) == admin' = [admin EXCEPT ![o] = [step |-> step, id |-> i]]
Done(o) == admin' = [admin EXCEPT ![o] = Idle]

\* The connections and grants whose owner, or Agent, was told of them.
Known == {i \in issued : home[i] # Nothing \/ i \in rows \cup revoked}

Fresh(i, from) ==
    /\ i = Cardinality(issued) + 1 /\ issued' = issued \cup {i}
    /\ \E libs \in SUBSET Libraries \ {{}} : scope' = [scope EXCEPT ![i] = libs]
    /\ home' = [home EXCEPT ![i] = from]

\* issue: the limit, then the secret.  A backend may discard it silently.
Issue(o) ==
    /\ Administers(o, "idle") /\ LockFree
    /\ Cardinality(rows) < Limit
    /\ \E i \in Ids :
        /\ Fresh(i, Nothing) /\ Goes(o, "verify", i)
        /\ \/ NoFault /\ secrets' = secrets \cup {i}
           \/ Fault /\ UNCHANGED secrets
    /\ UNCHANGED <<rows, grants, revoked>>

\* The secret is read back, ...
Verify(o) ==
    /\ Administers(o, "verify")
    /\ \/ NoFault /\ Goes(o, IF admin[o].id \in secrets THEN "insert" ELSE "cleanUp", admin[o].id)
       \/ Fault /\ Goes(o, "cleanUp", admin[o].id)
    /\ UNCHANGED credentials

\* ... and the row is written after it.
Insert(o) ==
    /\ Administers(o, "insert")
    /\ \/ NoFault /\ rows' = rows \cup {admin[o].id} /\ Done(o)
       \/ Fault /\ Goes(o, "cleanUp", admin[o].id) /\ UNCHANGED rows
    /\ UNCHANGED <<secrets, grants, home, scope, issued, revoked>>

\* _cleanup_secret: its failure is not an error.
CleanUp(o) ==
    /\ Administers(o, "cleanUp")
    /\ \/ NoFault /\ secrets' = secrets \ {admin[o].id}
       \/ Fault /\ UNCHANGED secrets
    /\ Done(o)
    /\ UNCHANGED <<rows, grants, home, scope, issued, revoked>>

WithdrawnNot(i) == rows  \* mutant: only the secret is removed
Withdrawn(i) == rows \ {i}

\* revoke: the row first, committed.
Revoke(o) ==
    /\ Administers(o, "idle") /\ LockFree /\ NoFault
    /\ \E i \in Known :
        /\ home[i] = Nothing
        /\ rows' = Withdrawn(i) /\ revoked' = revoked \cup {i}
        /\ Goes(o, "cleanUp", i)
    /\ UNCHANGED <<secrets, grants, home, scope, issued>>

\* The grants in memory have a lock of their own, held for one step.
IssueGrant(o) ==
    /\ Administers(o, "idle") /\ NoFault
    /\ Cardinality(grants) < Limit
    /\ \E i \in Ids : Fresh(i, core) /\ grants' = grants \cup {i}
    /\ UNCHANGED <<rows, secrets, revoked, admin>>

RevokeGrant(o) ==
    /\ Administers(o, "idle") /\ NoFault
    /\ \E i \in issued :
        home[i] # Nothing /\ grants' = grants \ {i} /\ revoked' = revoked \cup {i}
    /\ UNCHANGED <<rows, secrets, home, scope, issued, admin>>

\* A source is deleted; rows of it can stay in the index.
Delete ==
    /\ core # Down
    /\ \E s \in present : present' = present \ {s} /\ indexed' \in {indexed, indexed \ {s}}
    /\ UNCHANGED <<credentials, process, admin, call, faults>>

-----------------------------------------------------------------------------
(* A call: what the bridge, or the self-check, finds on its way. *)

Moves(c, at) == call' = [call EXCEPT ![c].at = at]
Steps(c, at) == call[c].at = at /\ UNCHANGED <<credentials, admin, process, library>>
Alive(c) == call[c].url = core

Admitted == Cardinality({c \in Callers : call[c].at # "idle"}) < MaxCalls

Starting(i, at, url, tool, lib) ==
    [at |-> at, id |-> i, url |-> url, tool |-> tool, library |-> lib,
     allowed |-> {}, left |-> {}, shown |-> {}, late |-> i \in revoked, gone |-> Sources \ present]

\* An Agent calls a tool.  A connection finds address and secret at every call
\* (ProfileBridge); a grant was given with the address of its Core (BridgeClient).
Call(a) ==
    /\ Steps(a, "idle") /\ Admitted /\ NoFault
    /\ \E i \in Known, tool \in Tools, lib \in Libraries :
        call' = [call EXCEPT ![a] =
            Starting(i, IF home[i] = Nothing THEN "discover" ELSE "send", home[i], tool, lib)]

Discover(a) ==
    /\ Steps(a, "discover") /\ NoFault
    /\ \/ endpoint = Nothing /\ Moves(a, "error")
       \/ endpoint # Nothing /\ call' = [call EXCEPT ![a].at = "secret", ![a].url = endpoint]

Secret(a) ==
    /\ Steps(a, "secret")
    /\ \/ NoFault /\ Moves(a, IF call[a].id \in secrets THEN "send" ELSE "error")
       \/ Fault /\ Moves(a, "error")

\* 30 seconds without an answer; Core may still be at work on it.
Timeout(a) ==
    /\ call[a].at \in {"send"} \cup Running /\ Moves(a, "error")
    /\ UNCHANGED <<credentials, admin, process, library>> /\ NoFault

Finish(c) ==
    /\ call[c].at \in {"answer", "error"}
    /\ call' = [call EXCEPT ![c] = NoCall]
    /\ UNCHANGED <<credentials, admin, process, library>> /\ NoFault

-----------------------------------------------------------------------------
(* A call: what Core does. *)

Resolved(c) == call' = [call EXCEPT ![c].at = "run", ![c].allowed = scope[call[c].id]]

\* require_grant: first the grants in memory, then the connections.
Send(a) ==
    /\ Steps(a, "send") /\ NoFault
    /\ LET i == call[a].id IN
       \/ ~Alive(a) /\ Moves(a, "error")
       \/ Alive(a) /\ i \in grants /\ Resolved(a)
       \/ Alive(a) /\ i \notin grants /\ LockFree /\ i \in rows /\ Resolved(a)
       \/ Alive(a) /\ i \notin grants /\ LockFree /\ i \notin rows /\ Moves(a, "error")

\* Core died under the call.
Broken(c) == call[c].at \in Running /\ ~Alive(c) /\ Moves(c, "error") /\ NoFault
             /\ UNCHANGED <<credentials, admin, process, library>>

Authorized(c) == call[c].library \in call[c].allowed

Denied(c) ==
    /\ Steps(c, "run") /\ Alive(c) /\ NoFault
    /\ call[c].tool # "list_libraries" /\ ~Authorized(c)
    /\ Moves(c, "error")

\* What the search of a library brings, and what a client asks to read.
Found(c) == {s \in indexed : LibraryOf[s] = call[c].library}
Looks(c, some) == call' = [call EXCEPT ![c].at = "look", ![c].left = some]

\* A self-check asks for one hit, and reads that one.
SearchKnowledge(c) ==
    /\ Steps(c, "run") /\ Alive(c) /\ NoFault
    /\ call[c].tool = "search_knowledge" /\ Authorized(c)
    /\ \E hits \in SUBSET Found(c) : (c \in Checks => \A s, t \in hits : s = t) /\ Looks(c, hits)

ReadSource(c) ==
    /\ Steps(c, "run") /\ Alive(c) /\ NoFault
    /\ call[c].tool = "read_source" /\ Authorized(c)
    /\ \E s \in IF c \in Checks THEN call[c].shown ELSE Sources : Looks(c, {s})

\* get_source in the database; the library of the source is compared.
Belongs(c, s) == LibraryOf[s] = call[c].library

AsFound(s) == TRUE       \* mutant: what the index knows is taken for present
Present(s) == s \in present

Look(c) ==
    /\ Steps(c, "look") /\ Alive(c) /\ NoFault
    /\ \E s \in call[c].left :
        \/ ~Present(s) /\ Moves(c, "error")
        \/ Present(s) /\ ~Belongs(c, s) /\ Moves(c, "error")
        \/ /\ Present(s) /\ Belongs(c, s)
           /\ call' = [call EXCEPT ![c].left = @ \ {s}, ![c].shown = @ \cup {s}]

\* All is looked up, or there was nothing to look up (list_libraries).
Complete(c) == \/ call[c].at = "look" /\ call[c].left = {}
               \/ call[c].at = "run" /\ call[c].tool = "list_libraries"

Answer(a) ==
    /\ Complete(a) /\ Alive(a) /\ Moves(a, "answer")
    /\ UNCHANGED <<credentials, admin, process, library>> /\ NoFault

-----------------------------------------------------------------------------
(* diagnose_connection: the credential is resolved again before every read. *)

Check(k) ==
    /\ Steps(k, "idle") /\ Admitted /\ core # Down /\ NoFault
    /\ \E i \in Known, lib \in Libraries :
        /\ home[i] = Nothing
        /\ call' = [call EXCEPT ![k] = Starting(i, "resolve", core, "list_libraries", lib)]

\* connection_token: the row, the secret of it, and the row of the secret.
Resolve(k) ==
    /\ Steps(k, "resolve") /\ Alive(k) /\ LockFree
    /\ \/ NoFault /\ call[k].id \in rows \cap secrets /\ Resolved(k)
       \/ NoFault /\ call[k].id \notin rows \cap secrets /\ Moves(k, "error")
       \/ Fault /\ call[k].id \in rows /\ Moves(k, "error")

RetainsGrant(k) == "run" \* mutant: one grant for all the stages
Rechecks(k) == "resolve"

Begins(k, tool) ==
    call' = [call EXCEPT ![k].at = Rechecks(k), ![k].tool = tool, ![k].left = {},
                         ![k].late = call[k].id \in revoked, ![k].gone = Sources \ present]

\* A stage is complete: the next one begins, or it was the last.
NextStage(k) ==
    /\ Complete(k) /\ Alive(k) /\ NoFault
    /\ \/ call[k].tool = "list_libraries" /\ Begins(k, "search_knowledge")
       \/ call[k].tool = "search_knowledge" /\ call[k].shown # {} /\ Begins(k, "read_source")
       \/ call[k].tool = "search_knowledge" /\ call[k].shown = {} /\ Moves(k, "answer")
       \/ call[k].tool = "read_source" /\ Moves(k, "answer")
    /\ UNCHANGED <<credentials, admin, process, library>>

-----------------------------------------------------------------------------
(* Core. *)

Start ==
    /\ core = Down /\ starts < MaxStarts
    /\ starts' = starts + 1 /\ core' = starts' /\ endpoint' = starts'
    /\ UNCHANGED <<credentials, admin, library, call, faults>>

Ends ==
    /\ core # Down /\ core' = Down /\ grants' = {}
    /\ admin' = [o \in Owners |-> Idle]
    /\ UNCHANGED <<rows, secrets, home, scope, issued, revoked, starts, library, call, faults>>

\* An orderly end waits for the requests and withdraws the address; ...
Stop ==
    /\ LockFree /\ \A c \in Callers : call[c].at \in Running => ~Alive(c)
    /\ Ends /\ endpoint' = Nothing

\* ... a crash leaves it, with what issue and revoke had done so far.
Crash == Ends /\ UNCHANGED endpoint

-----------------------------------------------------------------------------
Administer(o) == \/ Issue(o) \/ Verify(o) \/ Insert(o) \/ CleanUp(o) \/ Revoke(o)
                 \/ IssueGrant(o) \/ RevokeGrant(o)
Bridge(a)  == Discover(a) \/ Secret(a) \/ Send(a) \/ Answer(a)
Serves(c)  == \/ Broken(c) \/ Denied(c) \/ SearchKnowledge(c) \/ ReadSource(c) \/ Look(c)
              \/ Finish(c)
Examine(k) == Resolve(k) \/ NextStage(k)

Next ==
    \/ \E o \in Owners : Administer(o)
    \/ \E a \in Agents : Call(a) \/ Bridge(a) \/ Timeout(a)
    \/ \E k \in Checks : Check(k) \/ Examine(k)
    \/ \E c \in Callers : Serves(c)
    \/ Delete \/ Start \/ Stop \/ Crash

Spec == Init /\ [][Next]_vars

-----------------------------------------------------------------------------
(* Properties. *)

\* A call, and a stage of a self-check, that begins after its credential was
\* revoked is refused before a tool reads anything (mcp/routes.py:57-74,
\* mcp/diagnostics.py:52-57): whatever Core crashed on, and although its secret
\* may still be in the vault.
NoReadAfterRevocation ==
    \A c \in Callers : call[c].at \in {"run", "look", "answer"} => ~call[c].late

\* No answer shows a source outside the libraries of the credential, or one that
\* was deleted before the call began (mcp/service.py:40-42, 117-120, 147-151),
\* although the index may still find it.
AnswerIsGranted ==
    \A c \in Callers : call[c].at = "answer" =>
        \A s \in call[c].shown : LibraryOf[s] \in scope[call[c].id] /\ s \notin call[c].gone

\* A connection that is listed can be used: its secret is in the vault, with a
\* backend that discards writes, and with a crash between any two steps of issue
\* and revoke (storage/agent_connections.py:64-93, 139-144).
ListedHasSecret == rows \subseteq secrets

\* The limit holds although requests overlap (agent_connections.py:64-66,
\* credentials.py:29-36).
LimitHolds == Cardinality(rows) <= Limit /\ Cardinality(grants) <= Limit
===============================================================================
