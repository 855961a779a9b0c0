---------------------------- MODULE VideoService ----------------------------
(***************************************************************************)
(* The video endpoints of the Go service (video.go, openfga.go): GET       *)
(* /videos and POST /video.  Each request runs in a goroutine of its own   *)
(* through the authorisation check (fgaCheck), getDB, and one statement    *)
(* against Postgres, so the handlers interleave at every call that leaves  *)
(* the process.  OpenFGA, the go-pg pool, the Postgres server, and the     *)
(* Deployment that restarts the container are external: they are modelled  *)
(* by what the handlers can observe of them.                               *)
(***************************************************************************)
EXTENDS FiniteSets, Naturals

CONSTANTS
  Requests,     \* the HTTP requests clients send, each once
  Users,        \* values of the query parameter "user"
  Ids,          \* non-empty values of the query parameter "id"
  Titles,       \* non-empty values of the query parameter "title"
  Empty,        \* a query parameter that is absent
  None,         \* no pool, no connection, no row
  Environments, \* the environments a container may be started with
  MaxConns,     \* max_connections of the Postgres server
  MaxRestarts   \* bound: container restarts in a behaviour

EnvVars == {"DB_ENDPOINT", "DB_PORT", "DB_USER", "DB_USERNAME", "DB_PASS",
            "DB_PASSWORD", "DB_NAME", "FGA_API_URL", "FGA_STORE_ID",
            "FGA_MODEL_ID"}

(***************************************************************************)
(* An environment is the set of variables that are not empty, and whether  *)
(* the OpenFGA values in it are well formed (NewSdkClient refuses a URL or *)
(* an identifier that is not).                                             *)
(***************************************************************************)
Environment == [set : SUBSET EnvVars, wellFormed : BOOLEAN]

ASSUME ServiceAssumption ==
  /\ None \notin Requests
  /\ Empty \notin Ids \cup Titles
  /\ Environments \subseteq Environment
  /\ MaxConns \in Nat \ {0}
  /\ MaxRestarts \in Nat

VARIABLES
  env,        \* the environment of the running process
  up,         \* whether the process runs
  restarts,   \* how often it was restarted
  dbSession,  \* the package variable of video.go
  pools,      \* go-pg pools the process has open, each named by its creator
  tuples,     \* OpenFGA: the <<user, relation>> pairs granted
  rows,       \* Postgres: rows[i], the request whose row has id i, or None
  backend,    \* Postgres: backend[c], the connection dialled for request c
  pc,         \* where the handler of a request is
  call,       \* what a request asks for
  db,         \* the handler's local variable db: the pool getDB returned
  using,      \* the connection a request has checked out of its pool
  stmt,       \* the statement of a request, as the server sees it
  seen,       \* the table a GET selected
  answer,     \* the status sent to the client
  writes,     \* how often a response was written for the request
  held,       \* history: the user was allowed at some time since arrival
  before      \* history: inserts acknowledged before the request arrived

process == <<env, up, restarts, dbSession, pools>>
handler == <<pc, call, db, answer, writes>>
server  == <<rows, backend, using, stmt, seen>>
history == <<held, before>>
vars == <<process, handler, server, tuples, history>>
-----------------------------------------------------------------------------
Call ==
  [kind : {"get"}, user : Users, id : {Empty}, title : {Empty}] \cup
  [kind : {"post"}, user : Users, id : Ids \cup {Empty},
   title : Titles \cup {Empty}]

NoCall == [kind |-> "none", user |-> Empty, id |-> Empty, title |-> Empty]

Active == {"authorize", "getDB", "validate", "query", "exec"}
Statuses == {200, 400, 401, 500}

\* videosGetHandler checks "reader", videoPostHandler "writer".
Relation(c) == IF c.kind = "get" THEN "reader" ELSE "writer"

FgaOn == "FGA_API_URL" \in env.set
FgaConfigured == {"FGA_STORE_ID", "FGA_MODEL_ID"} \subseteq env.set

\* What OpenFGA would answer now, or TRUE when authorisation is switched off.
Permitted(c) == FgaOn => <<c.user, Relation(c)>> \in tuples

\* getDB's checks of the environment; the message only differs by variable.
DbConfigured ==
  /\ {"DB_ENDPOINT", "DB_PORT", "DB_NAME"} \subseteq env.set
  /\ {"DB_USER", "DB_USERNAME"} \cap env.set # {}
  /\ {"DB_PASS", "DB_PASSWORD"} \cap env.set # {}

Acked == {r \in Requests : answer[r] = 200 /\ call[r].kind = "post"}

Init ==
  /\ env \in Environments
  /\ up = TRUE /\ restarts = 0
  /\ dbSession = None /\ pools = {}
  /\ tuples \in SUBSET (Users \X {"reader", "writer"})
  /\ rows = [i \in Ids |-> None]
  /\ backend = [c \in Requests |-> "closed"]
  /\ pc = [r \in Requests |-> "idle"]
  /\ call = [r \in Requests |-> NoCall]
  /\ db = [r \in Requests |-> None]
  /\ using = [r \in Requests |-> None]
  /\ stmt = [r \in Requests |-> "none"]
  /\ seen = [r \in Requests |-> [i \in Ids |-> None]]
  /\ answer = [r \in Requests |-> 0]
  /\ writes = [r \in Requests |-> 0]
  /\ held = [r \in Requests |-> FALSE]
  /\ before = [r \in Requests |-> {}]

\* The handler of r moves to another step without answering.
Goto(r, from, to) ==
  /\ up /\ pc[r] = from
  /\ pc' = [pc EXCEPT ![r] = to]

\* The handler of r writes a response, if it writes one, and returns.  A
\* handler that returns without writing leaves net/http to send a 200.
Return(r, from, status, written) ==
  /\ Goto(r, from, "done")
  /\ answer' = [answer EXCEPT ![r] = status]
  /\ writes' = [writes EXCEPT ![r] = @ + written]

Arrive(r) ==
  /\ Goto(r, "idle", "authorize")
  /\ \E c \in Call :
       /\ call' = [call EXCEPT ![r] = c]
       /\ held' = [held EXCEPT ![r] = Permitted(c)]
  /\ before' = [before EXCEPT ![r] = Acked]
  /\ UNCHANGED <<process, db, answer, writes, server, tuples>>
-----------------------------------------------------------------------------
(***************************************************************************)
(* fgaCheck and what the two handlers do with its result.                  *)
(***************************************************************************)

\* FGA_API_URL is empty: everybody is allowed.
FgaOff(r) ==
  /\ ~FgaOn
  /\ Goto(r, "authorize", "getDB")
  /\ UNCHANGED <<process, call, db, answer, writes, server, tuples, history>>

\* Variants a plausible slip in the code would give; no action uses them, and
\* each breaks a property below: an error of fgaCheck taken for permission, and
\* one that is dropped.
FgaErrorFailsOpen(r) ==
  /\ FgaOn
  /\ FgaConfigured => env.wellFormed
  /\ Goto(r, "authorize", "getDB")
  /\ UNCHANGED <<process, call, db, answer, writes, server, tuples, history>>

FgaErrorUnhandled(r) ==
  /\ FgaOn /\ FgaConfigured /\ env.wellFormed
  /\ Return(r, "authorize", 500, 1)
  /\ UNCHANGED <<process, call, db, server, tuples, history>>

\* getFgaClient misses a variable, or Check returns an error: 500.
FgaError(r) ==
  /\ FgaOn
  /\ FgaConfigured => env.wellFormed
  /\ Return(r, "authorize", 500, 1)
  /\ UNCHANGED <<process, call, db, server, tuples, history>>

\* OpenFGA answers the Check from the tuples it holds at this moment.
FgaAllow(r) ==
  /\ FgaOn /\ FgaConfigured /\ env.wellFormed
  /\ Permitted(call[r])
  /\ Goto(r, "authorize", "getDB")
  /\ UNCHANGED <<process, call, db, answer, writes, server, tuples, history>>

FgaDeny(r) ==
  /\ FgaOn /\ FgaConfigured /\ env.wellFormed
  /\ ~Permitted(call[r])
  /\ Return(r, "authorize", 401, 1)
  /\ UNCHANGED <<process, call, db, server, tuples, history>>

\* The answer carries no "allowed" field: *data.Allowed panics.  gin.New()
\* has no recovery middleware, net/http closes the client's connection.
FgaPanic(r) ==
  /\ FgaOn /\ FgaConfigured /\ env.wellFormed
  /\ Goto(r, "authorize", "aborted")
  /\ UNCHANGED <<process, call, db, answer, writes, server, tuples, history>>

\* The process ends: handlers die with it, and so do its pools.  A statement
\* that was sent and has no result yet is left to the server.
Exit ==
  /\ up' = FALSE
  /\ pc' = [r \in Requests |-> IF pc[r] \in Active THEN "aborted" ELSE pc[r]]
  /\ dbSession' = None
  /\ pools' = {}
  /\ db' = [r \in Requests |-> None]
  /\ backend' = [c \in Requests |->
       IF \E r \in Requests : using[r] = c /\ stmt[r] = "sent"
       THEN "orphan" ELSE "closed"]
  /\ using' = [r \in Requests |-> IF stmt[r] = "sent" THEN using[r] ELSE None]
  /\ UNCHANGED <<env, restarts, call, answer, writes, rows, stmt, seen,
                 tuples, history>>

\* NewSdkClient refuses the configuration: log.Fatal ends the whole process.
FgaFatal(r) ==
  /\ up /\ pc[r] = "authorize"
  /\ FgaOn /\ FgaConfigured /\ ~env.wellFormed
  /\ Exit

fgaCheck(r) == FgaOff(r) \/ FgaError(r) \/ FgaAllow(r) \/ FgaDeny(r)
               \/ FgaPanic(r) \/ FgaFatal(r)
-----------------------------------------------------------------------------
(***************************************************************************)
(* getDB.  The session pg.Connect returns is kept in a variable that the   *)
(* ":=" of video.go:135 declares inside getDB, so the package variable     *)
(* dbSession keeps its value.                                              *)
(***************************************************************************)
NextStep(r) == IF call[r].kind = "post" THEN "validate" ELSE "query"

\* Variant: the caller answers too, although getDB already did.
GetDBFailsTwice(r) ==
  /\ dbSession = None /\ ~DbConfigured
  /\ Return(r, "getDB", 400, 2)
  /\ UNCHANGED <<process, call, db, server, tuples, history>>

GetDBFails(r) ==
  /\ dbSession = None /\ ~DbConfigured
  /\ Return(r, "getDB", 400, 1)
  /\ UNCHANGED <<process, call, db, server, tuples, history>>

\* Variant: a pool without a reaper (IdleTimeout switched off).
ConnectUntracked(r) == /\ db' = [db EXCEPT ![r] = r]
                       /\ UNCHANGED <<pools, dbSession>>

Connect(r) == /\ pools' = pools \cup {r}
              /\ db' = [db EXCEPT ![r] = r]
              /\ UNCHANGED dbSession

GetDB(r) ==
  /\ dbSession # None \/ DbConfigured
  /\ Goto(r, "getDB", NextStep(r))
  /\ IF dbSession # None
     THEN /\ db' = [db EXCEPT ![r] = dbSession]
          /\ UNCHANGED <<pools, dbSession>>
     ELSE Connect(r)
  /\ UNCHANGED <<env, up, restarts, call, answer, writes, server, tuples,
                 history>>

\* Variant: the return after the 400 is missing.
ValidationFailsAndGoesOn(r) ==
  /\ Empty \in {call[r].id, call[r].title}
  /\ Goto(r, "validate", "query")
  /\ answer' = [answer EXCEPT ![r] = 400]
  /\ writes' = [writes EXCEPT ![r] = 1]
  /\ UNCHANGED <<process, call, db, server, tuples, history>>

\* videoPostHandler looks at "id" and "title" only after it has a session.
ValidationFails(r) ==
  /\ Empty \in {call[r].id, call[r].title}
  /\ Return(r, "validate", 400, 1)
  /\ UNCHANGED <<process, call, db, server, tuples, history>>

Validate(r) ==
  /\ Empty \notin {call[r].id, call[r].title}
  /\ Goto(r, "validate", "query")
  /\ UNCHANGED <<process, call, db, answer, writes, server, tuples, history>>
-----------------------------------------------------------------------------
(***************************************************************************)
(* Select and Insert: check a connection out of the pool, send one         *)
(* statement, and wait for its result.                                     *)
(***************************************************************************)
Open == {c \in Requests : backend[c] # "closed"}
Spare(p) == {c \in Requests : backend[c] = "idle" /\ db[c] = p}

\* An idle connection of the pool is taken, else a new one is dialled.
Query(r) ==
  /\ Goto(r, "query", "exec")
  /\ \E c \in (IF Spare(db[r]) # {} THEN Spare(db[r]) ELSE {r}) :
       /\ c \notin Spare(db[r]) => Cardinality(Open) < MaxConns
       /\ backend' = [backend EXCEPT ![c] = "busy"]
       /\ using' = [using EXCEPT ![r] = c]
  /\ stmt' = [stmt EXCEPT ![r] = "sent"]
  /\ UNCHANGED <<process, call, db, answer, writes, rows, seen, tuples,
                 history>>

\* The server is unreachable or has no connection left: 500.
QueryFails(r) ==
  /\ Return(r, "query", 500, 1)
  /\ UNCHANGED <<process, call, db, server, tuples, history>>

\* The server is done with a statement: a connection whose client is gone
\* closes, any other waits for the client to take the result.
Finish(r, verdict) ==
  /\ stmt' = [stmt EXCEPT ![r] = verdict]
  /\ backend' = [backend EXCEPT ![using[r]] =
                   IF @ = "orphan" THEN "closed" ELSE @]
  /\ using' = [using EXCEPT ![r] =
                 IF backend[using[r]] = "orphan" THEN None ELSE @]
  /\ UNCHANGED <<process, handler, tuples, history>>

ServerSelects(r) ==
  /\ stmt[r] = "sent" /\ call[r].kind = "get"
  /\ seen' = [seen EXCEPT ![r] = rows]
  /\ Finish(r, "applied")
  /\ UNCHANGED rows

\* "id" is the primary key of the table.
ServerInserts(r) ==
  /\ stmt[r] = "sent" /\ call[r].kind = "post"
  /\ rows[call[r].id] = None
  /\ rows' = [rows EXCEPT ![call[r].id] = r]
  /\ Finish(r, "applied")
  /\ UNCHANGED seen

\* A duplicate key or any other error of the statement.
ServerRejects(r) ==
  /\ stmt[r] = "sent"
  /\ Finish(r, "rejected")
  /\ UNCHANGED <<rows, seen>>

\* Variants: a handler that ignores the verdict of the server, and one that
\* answers before it has a verdict.
ResultUnchecked(r) ==
  /\ stmt[r] \in {"applied", "rejected"}
  /\ Return(r, "exec", 200, IF call[r].kind = "get" THEN 1 ELSE 0)
  /\ backend' = [backend EXCEPT ![using[r]] = "idle"]
  /\ using' = [using EXCEPT ![r] = None]
  /\ UNCHANGED <<process, call, db, rows, stmt, seen, tuples, history>>

ResultUnconfirmed(r) ==
  /\ stmt[r] \in {"sent", "applied"}
  /\ Return(r, "exec", 200, IF call[r].kind = "get" THEN 1 ELSE 0)
  /\ backend' = [backend EXCEPT ![using[r]] =
                   IF stmt[r] = "sent" THEN "orphan" ELSE "idle"]
  /\ using' = [using EXCEPT ![r] = IF stmt[r] = "sent" THEN @ ELSE None]
  /\ UNCHANGED <<process, call, db, rows, stmt, seen, tuples, history>>

Result(r) ==
  /\ stmt[r] \in {"applied", "rejected"}
  /\ IF stmt[r] = "rejected" THEN Return(r, "exec", 500, 1)
     ELSE Return(r, "exec", 200, IF call[r].kind = "get" THEN 1 ELSE 0)
  /\ backend' = [backend EXCEPT ![using[r]] = "idle"]
  /\ using' = [using EXCEPT ![r] = None]
  /\ UNCHANGED <<process, call, db, rows, stmt, seen, tuples, history>>

\* The connection breaks while the handler waits: 500, whatever the server
\* did or still does with the statement.
ConnectionLost(r) ==
  /\ Return(r, "exec", 500, 1)
  /\ backend' = [backend EXCEPT ![using[r]] =
                   IF stmt[r] = "sent" THEN "orphan" ELSE "closed"]
  /\ using' = [using EXCEPT ![r] = IF stmt[r] = "sent" THEN @ ELSE None]
  /\ UNCHANGED <<process, call, db, rows, stmt, seen, tuples, history>>

\* The reaper goroutine of a pool closes connections idle for too long.
Reap(c) ==
  /\ up /\ backend[c] = "idle" /\ db[c] \in pools
  /\ backend' = [backend EXCEPT ![c] = "closed"]
  /\ UNCHANGED <<process, handler, rows, using, stmt, seen, tuples, history>>
-----------------------------------------------------------------------------
\* The container is killed (rollout, eviction, out of memory).
Kill == up /\ restarts < MaxRestarts /\ Exit

\* The Deployment starts the container again, perhaps from a new revision.
Restart ==
  /\ ~up /\ restarts < MaxRestarts
  /\ env' \in Environments
  /\ up' = TRUE
  /\ restarts' = restarts + 1
  /\ UNCHANGED <<dbSession, pools, handler, server, tuples, history>>

\* Somebody writes or deletes a relationship tuple in OpenFGA.
ChangeTuple ==
  /\ \E t \in Users \X {"reader", "writer"} :
       tuples' = IF t \in tuples THEN tuples \ {t} ELSE tuples \cup {t}
  /\ held' = [r \in Requests |->
       held[r] \/ (pc[r] \in Active /\
                   <<call[r].user, Relation(call[r])>> \in tuples')]
  /\ UNCHANGED <<process, handler, server, before>>

\* What the handler of r does by itself, one group per place it may be in.
CheckDB(r) == GetDBFails(r) \/ GetDB(r)
Check(r) == ValidationFails(r) \/ Validate(r)
Ask(r) == Query(r) \/ QueryFails(r)
Serve(r) == ServerSelects(r) \/ ServerInserts(r) \/ ServerRejects(r)

Next ==
  \/ \E r \in Requests :
       \/ Arrive(r) \/ fgaCheck(r) \/ CheckDB(r) \/ Check(r) \/ Ask(r)
       \/ Serve(r) \/ Result(r) \/ ConnectionLost(r) \/ Reap(r)
  \/ Kill \/ Restart \/ ChangeTuple

(***************************************************************************)
(* Fairness: the Go scheduler runs every runnable handler, OpenFGA and     *)
(* Postgres answer what they were asked (the code sets no timeout), every  *)
(* reaper goroutine ticks, and the kubelet restarts a container that       *)
(* ended.  Clients, operators, crashes and lost connections owe nothing.   *)
(***************************************************************************)
Fairness ==
  /\ \A r \in Requests :
       /\ WF_vars(fgaCheck(r)) /\ WF_vars(CheckDB(r)) /\ WF_vars(Check(r))
       /\ WF_vars(Ask(r)) /\ WF_vars(Serve(r)) /\ WF_vars(Result(r))
       /\ WF_vars(Reap(r))
  /\ WF_vars(Restart)

Spec == Init /\ [][Next]_vars
FairSpec == Spec /\ Fairness
-----------------------------------------------------------------------------
\* Types.  A handler writes at most one response.
TypeOK ==
  /\ env \in Environments /\ up \in BOOLEAN /\ restarts \in 0..MaxRestarts
  /\ dbSession \in Requests \cup {None} /\ pools \subseteq Requests
  /\ tuples \subseteq Users \X {"reader", "writer"}
  /\ rows \in [Ids -> Requests \cup {None}]
  /\ backend \in [Requests -> {"closed", "busy", "idle", "orphan"}]
  /\ pc \in [Requests -> Active \cup {"idle", "done", "aborted"}]
  /\ call \in [Requests -> Call \cup {NoCall}]
  /\ db \in [Requests -> Requests \cup {None}]
  /\ using \in [Requests -> Requests \cup {None}]
  /\ stmt \in [Requests -> {"none", "sent", "applied", "rejected"}]
  /\ seen \in [Requests -> [Ids -> Requests \cup {None}]]
  /\ answer \in [Requests -> Statuses \cup {0}]
  /\ writes \in [Requests -> 0..1]
  /\ held \in [Requests -> BOOLEAN]
  /\ before \in [Requests -> SUBSET Requests]

\* A POST answered 200 has stored its row, and the row stays: no concurrent
\* insert of the same id, crash or restart takes it away.
AckedIsStored == \A r \in Acked : rows[call[r].id] = r

\* A request answered 400 or 401 never reached the database, so its row can
\* never appear, not even later.
RefusedNeverStored ==
  \A r \in Requests : answer[r] \in {400, 401} =>
    stmt[r] = "none" /\ \A i \in Ids : rows[i] # r

\* Nothing is stored or listed for a user who held the relation at no moment
\* since the request arrived, however the tuples changed meanwhile and
\* whatever another request was allowed.
StatementWasAllowed == \A r \in Requests : stmt[r] # "none" => held[r]

\* A GET lists every row whose POST was acknowledged before it arrived, also
\* across a restart of the process.
ReadsSeeAcked ==
  \A g \in Requests : call[g].kind = "get" /\ stmt[g] = "applied" =>
    \A p \in before[g] : seen[g][call[p].id] = p

\* Every open server connection is accounted for: it is used by exactly one
\* request, or it is idle in a pool whose reaper will close it.
ConnectionsAccounted ==
  /\ \A r, s \in Requests : using[r] # None /\ using[r] = using[s] => r = s
  /\ \A c \in Requests : backend[c] \in {"busy", "orphan"} <=>
                         \E r \in Requests : using[r] = c
  /\ \A c \in Requests : backend[c] = "idle" => db[c] \in pools

\* Each request that ended without a panic or a crash was answered by exactly
\* one party: getDB or the handler wrote one response, or, for a stored POST,
\* none, and net/http sends the 200.  Until then nobody has written.
AnsweredOnce ==
  \A r \in Requests :
    /\ pc[r] = "done" =>
         writes[r] = IF answer[r] = 200 /\ call[r].kind = "post" THEN 0 ELSE 1
    /\ pc[r] # "done" => answer[r] = 0 /\ writes[r] = 0

\* Every request is answered, or its connection is cut.
EveryRequestEnds ==
  \A r \in Requests : pc[r] \in Active ~> pc[r] \in {"done", "aborted"}

\* A Postgres server out of connections gets one back, although no pool is
\* ever closed or used by a second request.
ExhaustionEnds ==
  (Cardinality(Open) = MaxConns) ~> (Cardinality(Open) < MaxConns)

\* The process opens one session and getDB hands it to every later request
\* (video.go:16 and the test of dbSession in video.go:96).
SessionReused == Cardinality(pools) <= 1
-----------------------------------------------------------------------------
(***************************************************************************)
(* The inductive invariant behind the safety properties: how far a handler *)
(* is decides what it has checked, what the server knows of its statement  *)
(* and which connection it holds.                                          *)
(***************************************************************************)
Unsent == {"idle", "authorize", "getDB", "validate", "query"}

HandlerInv ==
  \A r \in Requests :
    /\ ~up => pc[r] \notin Active
    /\ pc[r] = "idle" <=> call[r].kind = "none"
    /\ pc[r] \in Unsent => stmt[r] = "none"
    /\ pc[r] = "exec" => stmt[r] # "none"
    /\ answer[r] \in {400, 401} => stmt[r] = "none"
    /\ answer[r] = 200 => stmt[r] = "applied"

\* A handler past fgaCheck was allowed, and one that still waits and would
\* be allowed now is counted as allowed.
AllowedInv ==
  \A r \in Requests :
    /\ pc[r] = "authorize" /\ Permitted(call[r]) => held[r]
    /\ pc[r] \in {"getDB", "validate", "query"} \/ stmt[r] # "none" => held[r]

\* Only a POST whose id is not empty gets past the validation.
ArgumentInv ==
  \A r \in Requests :
    /\ pc[r] = "validate" => call[r].kind = "post"
    /\ (pc[r] = "query" \/ stmt[r] # "none") /\ call[r].kind = "post"
         => call[r].id \in Ids

RowInv ==
  /\ \A r \in Requests : stmt[r] = "applied" /\ call[r].kind = "post"
       => rows[call[r].id] = r
  /\ \A r \in Requests, i \in Ids : rows[i] = r
       => stmt[r] = "applied" /\ call[r].kind = "post" /\ call[r].id = i
  /\ \A r \in Requests : before[r] \subseteq Acked

\* Because dbSession stays None, a pool and its connection serve only the
\* request they were made for.
SessionInv ==
  /\ dbSession = None
  /\ \A r \in Requests :
       /\ db[r] \in {None, r} /\ using[r] \in {None, r}
       /\ using[r] = r <=> pc[r] = "exec" \/ stmt[r] = "sent"
       /\ using[r] = r => backend[r] = IF pc[r] = "exec" THEN "busy"
                                                         ELSE "orphan"
       /\ using[r] = None => backend[r] \in {"closed", "idle"}
       /\ pc[r] \in Unsent => backend[r] = "closed"
       /\ pc[r] \in {"validate", "query", "exec"} \/ backend[r] = "idle"
            => db[r] = r /\ r \in pools

IInv == /\ TypeOK /\ AnsweredOnce /\ HandlerInv /\ AllowedInv
        /\ ArgumentInv /\ RowInv /\ SessionInv /\ ReadsSeeAcked
-----------------------------------------------------------------------------
(***************************************************************************)
(* The service implements VideoStore.                                      *)
(***************************************************************************)
PhaseOf(r) ==
  CASE pc[r] = "idle" -> "idle"
    [] pc[r] \in Active -> "pending"
    [] pc[r] = "aborted" -> "lost"
    [] pc[r] = "done" -> CASE answer[r] = 200 -> "ok"
                           [] answer[r] \in {400, 401} -> "refused"
                           [] OTHER -> "failed"

Store == INSTANCE VideoStore WITH
  op <- [r \in Requests |-> call[r].kind],
  key <- [r \in Requests |-> call[r].id],
  phase <- [r \in Requests |-> PhaseOf(r)],
  effect <- [r \in Requests |-> stmt[r] = "applied"]

\* Inserts and lists happen once, atomically, while their call is open, and
\* what the client is told agrees with what happened.
StoreRefined == Store!StoreSpec
=============================================================================
