------------------------------ MODULE Service ------------------------------
(***************************************************************************)
(* The server around the handlers: the middleware a request passes, the    *)
(* connection pool its transactions share with every other request, the    *)
(* answer it gets and what the edge may keep of it, a panic, a caller who  *)
(* hangs up, and the shutdown that drains all of this                      *)
(* (internal/api/rest, internal/db/postgres/tenant.go, internal/app).      *)
(*                                                                         *)
(* What a transaction does to the tables is the other modules' subject.    *)
(* Here a write moves its tenant's cup to any stage, and a read sees it.   *)
(***************************************************************************)
EXTENDS Routes, FiniteSets

CONSTANTS
    Clients,            \* requests in progress at once
    Requests,           \* what a client can send
    Conns,              \* the pool's connections, 25 in the code
    Tenants,
    PublicTenant,       \* PUBLIC_TENANT_ID, or NoTenant
    NoTenant, NoToken, BadToken, Nobody, NoRequest, NoAnswer

Stages == {"upcoming", "live", "finished"}
Tokens == [tenant : Tenants, scopes : SUBSET Scopes]

\* The mux finds the handler a request is for.
Dispatched(q) == [q EXCEPT !.route = Mux[q.route]]

ASSUME ServiceAssumption ==
    /\ Conns # {} /\ IsFiniteSet(Clients)
    /\ PublicTenant \in Tenants \cup {NoTenant} /\ NoTenant \notin Tenants
    /\ Nobody \notin Clients
    /\ NoToken \notin Tokens /\ BadToken \notin Tokens /\ NoToken # BadToken
    /\ Requests \subseteq [route : DOMAIN Mux, token : Tokens \cup {NoToken, BadToken},
                           viaEdge : BOOLEAN, wellFormed : BOOLEAN]
    /\ \A q \in Requests : Dispatched(q) # NoRequest
    /\ NoAnswer \notin [status : Nat, says : Sentences, error : Errors,
                      cache : {"absent", "no-store", "public"}, stage : Stages]

VARIABLES
    server,             \* serving, draining, closing (the pool), exited
    late,               \* the drain ran out of time
    stage,              \* where each tenant's cup stands
    conn,               \* who holds each connection, and the tenant it is set to
    pc,                 \* where the goroutine serving each client is
    req,                \* the request it serves
    done,               \* how many of its transactions have committed
    seen,               \* the tenants whose rows they touched
    answer              \* what it is about to send

request == <<pc, req, done, seen, answer>>
vars == <<server, late, stage, conn, pc, req, done, seen, answer>>

Free == [by |-> Nobody, tenant |-> NoTenant]
Held(c) == {k \in Conns : conn[k].by = c}
RouteOf(c) == req[c].route
StepOf(c) == RouteOf(c).steps[done[c] + 1]
WritesDone(c) == {i \in 1..done[c] : RouteOf(c).steps[i].write}

Init ==
    /\ server = "serving" /\ late = FALSE
    /\ stage = [t \in Tenants |-> "upcoming"]
    /\ conn = [k \in Conns |-> Free]
    /\ pc = [c \in Clients |-> "idle"]
    /\ req = [c \in Clients |-> NoRequest]
    /\ done = [c \in Clients |-> 0]
    /\ seen = [c \in Clients |-> {}]
    /\ answer = [c \in Clients |-> NoAnswer]

-----------------------------------------------------------------------------
(* What stands before a handler, in the order it is met.                   *)

\* optionalAuth's test of the Authorization header.
Anonymous(q) == q.token = NoToken

\* No token will do on a public read when there is a tenant to fall back to.
Unauthenticated(q) ==
    CASE q.route.access = "scoped" -> q.token \in {NoToken, BadToken}
      [] q.route.access = "public" ->
            IF Anonymous(q) THEN PublicTenant = NoTenant ELSE q.token = BadToken
      [] OTHER -> FALSE

Unscoped(q) ==
    q.route.access = "scoped" /\ q.route.scope \notin q.token.scopes

Admitted == 0

Barrier(q) ==
    IF ~q.viaEdge /\ q.route.access # "probe" THEN 403
    ELSE IF Unauthenticated(q) THEN 401
    ELSE IF Unscoped(q) THEN 403
    ELSE IF ~q.wellFormed THEN 400 ELSE Admitted

\* The tenant the request's context carries.
TenantOf(q) ==
    IF q.route.access \in {"probe", "open"} THEN NoTenant
    ELSE IF Anonymous(q) THEN PublicTenant ELSE q.token.tenant

\* Seconds, unless a handler that knows its cup's phase says otherwise.
MaxAge(route, s) ==
    IF route.phased /\ s = "live" THEN 0
    ELSE IF route.phased /\ s = "finished" THEN 3600 ELSE 60

\* Bug: whoever holds a token that writes nothing counts as anonymous.
MarkedAnonymous_Spectators(q) ==
    q.token = NoToken \/ (q.token # BadToken /\ q.token.scopes = {})

\* cacheableRead's own test of the header.
MarkedAnonymous(q) == q.token = NoToken

CacheControl(q, status, s) ==
    IF q.route.access \notin {"open", "public"} THEN "absent"
    ELSE IF MarkedAnonymous(q) /\ MaxAge(q.route, s) > 0 /\ status \in 200..299
         THEN "public" ELSE "no-store"

-----------------------------------------------------------------------------
\* The goroutine has its answer: what it held goes back to the pool.
Finish(c, a) ==
    /\ pc' = [pc EXCEPT ![c] = "replying"]
    /\ answer' = [answer EXCEPT ![c] = a]
    /\ conn' = [k \in Conns |-> IF conn[k].by = c THEN Free ELSE conn[k]]
    /\ UNCHANGED req

Says(status, says, error, cache, s) ==
    [status |-> status, says |-> says, error |-> error, cache |-> cache, stage |-> s]

\* An answer a handler writes, through the wrapper that sets the header.
Respond(c, status, says, error, s) ==
    Finish(c, Says(status, says, error, CacheControl(req'[c], status, s), s))

\* A dispatched request arrives; the ones a check turns away touch nothing.
Arrive(c, q) ==
    /\ server = "serving" /\ pc[c] = "idle"
    /\ req' = [req EXCEPT ![c] = q]
    /\ \/ /\ Barrier(q) = Admitted
          /\ pc' = [pc EXCEPT ![c] = "waiting"]
          /\ UNCHANGED answer
       \/ /\ Barrier(q) # Admitted
          /\ pc' = [pc EXCEPT ![c] = "replying"]
          /\ answer' = [answer EXCEPT ![c] =
                Says(Barrier(q), "refused", Unmapped,
                     IF ~q.viaEdge THEN "absent" ELSE CacheControl(q, Barrier(q), "upcoming"),
                     "upcoming")]
    /\ UNCHANGED <<server, late, stage, conn, done, seen>>

\* A closed pool hands out nothing.
PoolOpen == server \in {"serving", "draining"}

\* WithTenantContext: a connection, BEGIN, and the tenant set for this
\* transaction alone.  Match formats and the health check set none.
Acquire(c) ==
    /\ pc[c] = "waiting" /\ PoolOpen
    /\ \E k \in Conns :
          /\ conn[k].by = Nobody
          /\ conn' = [conn EXCEPT ![k] = [by |-> c, tenant |-> TenantOf(req[c])]]
    /\ pc' = [pc EXCEPT ![c] = "querying"]
    /\ UNCHANGED <<server, late, stage, req, done, seen, answer>>

\* The pool is closed, or the caller hung up, or the health check's two
\* seconds are over, before there is a connection.
NoConnection(c) ==
    /\ pc[c] = "waiting"
    /\ UNCHANGED req
    /\ Respond(c, IF RouteOf(c).access = "probe" THEN 503 ELSE 500, ServerFault, Unmapped,
               "upcoming")
    /\ UNCHANGED <<server, late, stage, done, seen>>

\* The stage a transaction leaves its tenant's cup at.
StageAfter(c) ==
    IF StepOf(c).write
    THEN {[stage EXCEPT ![TenantOf(req[c])] = s] : s \in Stages} ELSE {stage}

StageSeen(c) == IF TenantOf(req[c]) = NoTenant THEN "upcoming" ELSE stage[TenantOf(req[c])]

\* Rows are visible through the transaction's own setting.
Touched(c) == seen[c] \cup {conn[k].tenant : k \in Held(c)}

LastStep(c) == done[c] + 1 = Len(RouteOf(c).steps)

\* Bug: the connection is kept for the transaction to come.
CommitStep_KeepsConnection(c) ==
    /\ pc[c] = "querying" /\ ~LastStep(c)
    /\ pc' = [pc EXCEPT ![c] = "waiting"]
    /\ done' = [done EXCEPT ![c] = @ + 1]
    /\ seen' = [seen EXCEPT ![c] = Touched(c)]
    /\ stage' \in StageAfter(c)
    /\ UNCHANGED <<server, late, conn, req, answer>>

\* A transaction commits and is not the handler's last.
CommitStep(c) ==
    /\ pc[c] = "querying" /\ ~LastStep(c)
    /\ pc' = [pc EXCEPT ![c] = "waiting"]
    /\ done' = [done EXCEPT ![c] = @ + 1]
    /\ seen' = [seen EXCEPT ![c] = Touched(c)]
    /\ conn' = [k \in Conns |-> IF conn[k].by = c THEN Free ELSE conn[k]]
    /\ stage' \in StageAfter(c)
    /\ UNCHANGED <<server, late, req, answer>>

\* The handler's last transaction commits, or a read that settles it early.
Succeed(c) ==
    /\ pc[c] = "querying"
    /\ LastStep(c) \/ StepOf(c).settles
    /\ done' = [done EXCEPT ![c] = @ + 1]
    /\ seen' = [seen EXCEPT ![c] = Touched(c)]
    /\ stage' \in StageAfter(c)
    /\ UNCHANGED req
    /\ Respond(c, RouteOf(c).ok, "ok", Unmapped, StageSeen(c))
    /\ UNCHANGED <<server, late>>

\* The health check's own answer to a database it cannot reach.
Unreachable == [status |-> 503, says |-> ServerFault, error |-> Unmapped]

\* A transaction fails, or its caller hangs up, and is rolled back.
Fail(c) ==
    /\ pc[c] = "querying"
    /\ UNCHANGED req
    /\ \E chain \in StepOf(c).fails :
          LET a == IF RouteOf(c).access = "probe" THEN Unreachable ELSE DomainAnswer(chain)
          IN Respond(c, a.status, a.says, a.error, "upcoming")
    /\ UNCHANGED <<server, late, stage, done, seen>>

\* Bug: the panicking goroutine writes nothing.
Panic_Silent(c) ==
    /\ pc[c] \in {"waiting", "querying"}
    /\ Finish(c, NoAnswer)
    /\ UNCHANGED <<server, late, stage, done, seen>>

\* Bug: a panicking goroutine leaves its transaction open.
Panic_Leaks(c) ==
    /\ pc[c] \in {"waiting", "querying"}
    /\ pc' = [pc EXCEPT ![c] = "replying"]
    /\ answer' = [answer EXCEPT ![c] = Says(500, NoBody, Unmapped, "absent", "upcoming")]
    /\ UNCHANGED <<server, late, stage, conn, req, done, seen>>

\* A handler panics: recovered, and whatever transaction it was in rolled back.
Panic(c) ==
    /\ pc[c] \in {"waiting", "querying"}
    /\ Finish(c, Says(500, NoBody, Unmapped, "absent", "upcoming"))
    /\ UNCHANGED <<server, late, stage, done, seen>>

\* The answer goes out, past the edge.
Reply(c) ==
    /\ pc[c] = "replying"
    /\ pc' = [pc EXCEPT ![c] = "idle"]
    /\ req' = [req EXCEPT ![c] = NoRequest]
    /\ done' = [done EXCEPT ![c] = 0]
    /\ seen' = [seen EXCEPT ![c] = {}]
    /\ answer' = [answer EXCEPT ![c] = NoAnswer]
    /\ UNCHANGED <<server, late, stage, conn>>

-----------------------------------------------------------------------------
(* Server.Shutdown: the listener first, the pool when the drain is over.   *)

Signal ==
    /\ server = "serving"
    /\ server' = "draining"
    /\ UNCHANGED <<late, stage, conn>> /\ UNCHANGED request

\* Bug: the pool is closed as soon as the signal comes.
Drained_AtOnce ==
    /\ server = "draining"
    /\ server' = "closing"
    /\ UNCHANGED <<late, stage, conn>> /\ UNCHANGED request

\* http.Server.Shutdown returns once no handler is running.
Drained ==
    /\ server = "draining" /\ \A c \in Clients : pc[c] = "idle"
    /\ server' = "closing"
    /\ UNCHANGED <<late, stage, conn>> /\ UNCHANGED request

\* Ten seconds are over: the deferred Close runs all the same.
DrainTimesOut ==
    /\ server = "draining" /\ \E c \in Clients : pc[c] # "idle"
    /\ server' = "closing" /\ late' = TRUE
    /\ UNCHANGED <<stage, conn>> /\ UNCHANGED request

\* Close returns once every connection is back; the process ends, and with it
\* the goroutines still at work.
Exit ==
    /\ server = "closing" /\ \A k \in Conns : conn[k].by = Nobody
    /\ server' = "exited"
    /\ pc' = [c \in Clients |-> IF pc[c] = "idle" THEN "idle" ELSE "lost"]
    /\ UNCHANGED <<late, stage, conn, req, done, seen, answer>>

Running == server # "exited"

Step(c) ==
    Running /\ (\/ CommitStep(c) \/ Succeed(c) \/ Fail(c) \/ Reply(c)
                \/ (NoConnection(c) /\ ~PoolOpen))

Next ==
    \/ \E c \in Clients :
          \/ \E q \in Requests : Arrive(c, Dispatched(q))
          \/ Running /\ (\/ Acquire(c) \/ NoConnection(c) \/ CommitStep(c) \/ Succeed(c)
                         \/ Fail(c) \/ Panic(c) \/ Reply(c))
    \/ Signal \/ Drained \/ DrainTimesOut \/ Exit

Spec == Init /\ [][Next]_vars

\* Statements return, the pool serves who waits in turn, the ten seconds pass.
\* Nobody has to call, hang up, panic or stop the server.
FairSpec ==
    /\ Spec
    /\ \A c \in Clients : WF_vars(Step(c)) /\ SF_vars(Running /\ Acquire(c))
    /\ WF_vars(Drained) /\ WF_vars(DrainTimesOut) /\ WF_vars(Exit)

-----------------------------------------------------------------------------
\* Every variable has its shape: a goroutine holds at most one connection, and
\* only inside a transaction; a free one has no tenant set; whoever replies has
\* an answer.
TypeOK ==
    /\ server \in {"serving", "draining", "closing", "exited"} /\ late \in BOOLEAN
    /\ stage \in [Tenants -> Stages]
    /\ \A k \in Conns :
          /\ conn[k].by \in Clients \cup {Nobody}
          /\ conn[k].tenant \in Tenants \cup {NoTenant}
          /\ conn[k].by = Nobody => conn[k] = Free
    /\ pc \in [Clients -> {"idle", "waiting", "querying", "replying", "lost"}]
    /\ \A c \in Clients :
          /\ Cardinality(Held(c)) = IF pc[c] = "querying" THEN 1 ELSE 0
          /\ pc[c] = "idle" <=> req[c] = NoRequest
          /\ pc[c] = "replying" => answer[c] # NoAnswer
          /\ seen[c] \subseteq Tenants \cup {NoTenant}

\* Unless the drain ran out of time, the pool closes and the process ends with
\* no request on the way: none finds the pool shut, none is left unanswered
\* (app/server.go, Shutdown).
NoRequestCutShort ==
    server \in {"closing", "exited"} /\ ~late => \A c \in Clients : pc[c] = "idle"

\* A success says every transaction of the handler has committed, and a refusal
\* with a 4xx that none of its writes has, so that it can be corrected and sent
\* again; the sentence is that of the most specific sentinel the error wraps, and
\* never of a generic one below it (rest/json.go, domainAnswers).
AnswersTellTheTruth ==
    \A c \in Clients : pc[c] = "replying" =>
        LET a == answer[c]
        IN /\ a.says = "ok" =>
                \A i \in DOMAIN RouteOf(c).steps : RouteOf(c).steps[i].write => i <= done[c]
           /\ a.status \in 400..499 => WritesDone(c) = {}
           /\ a.error # Unmapped => a.says = Head(a.error)

\* What the edge may keep and hand to anybody is a success, made of the public
\* tenant's rows or of no tenant's, and when its handler knows the cup's phase,
\* not of a cup being played (rest/cache.go against rest/middleware.go).
EdgeKeepsOnlyPublicAnswers ==
    \A c \in Clients : pc[c] = "replying" /\ answer[c].cache = "public" =>
        /\ answer[c].says = "ok"
        /\ seen[c] \subseteq {PublicTenant, NoTenant}
        /\ RouteOf(c).phased => answer[c].stage # "live"

\* Every request is answered unless the process ends under it: nobody waits for
\* ever for a connection (one transaction at a time, never one inside another).
EveryRequestAnswered ==
    \A c \in Clients : (pc[c] # "idle") ~> (pc[c] = "idle" \/ server = "exited")

\* A server told to stop does: no connection is left out of the pool.
ShutdownEnds == (server = "draining") ~> (server = "exited")
=============================================================================
