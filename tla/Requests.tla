----------------------------- MODULE Requests -----------------------------
(***************************************************************************)
(* One request through the API: the global guards, the validation pipe,    *)
(* the handler, the serializer, and the envelope of ResponseInterceptor or *)
(* of HttpExceptionFilter.  Requests share no state in the process; what   *)
(* other clients do meanwhile is done to the tables, between any two       *)
(* awaits of this one.                                                     *)
(***************************************************************************)
EXTENDS Integers, FiniteSets

CONSTANTS
  Users,         \* user ids
  Odd,           \* users whose row does not match UserResponseDto
  AdminUserIds,  \* ADMIN_USER_IDS
  AdminOnly,     \* routes with @Roles('admin')
  Production,    \* NODE_ENV = production
  MaxLimit,      \* greatest limit of ListUsersQueryDto (100 in the code)
  MaxPage,       \* bound: greatest page that is asked for
  MaxChanges     \* bound: changes of the tables during the request

Routes == {"health", "me", "find", "list"}
Public == {"health"}

ASSUME RequestAssumption ==
  /\ IsFiniteSet(Users)
  /\ Odd \subseteq Users
  /\ AdminUserIds \subseteq Users
  /\ AdminOnly \subseteq Routes \ Public
  /\ Production \in BOOLEAN
  /\ MaxLimit \in Nat \ {0}
  /\ MaxPage \in Nat
  /\ MaxChanges \in Nat

VARIABLES
  \* PostgreSQL
  table,     \* the users
  sessions,  \* users that the credentials of a session stand for
  role,      \* role[u]
  \* the request
  route,     \* its route
  caller,    \* whose credentials it carries
  query,     \* page and limit, or the user it wants
  at,        \* where it is in the pipeline
  user,      \* req.user
  got,       \* which of findAll's two queries have been answered
  items,     \* the rows the handler has read
  total,     \* what count returned
  answer,    \* the response
  \* what happened during it
  changes,   \* changes of the tables
  moved,     \* the table changed between findAll's two queries
  ever,      \* at some moment the caller was entitled to the route
  always     \* at every moment

world   == <<table, sessions, role, changes>>
input   == <<route, caller, query>>
work    == <<user, got, items, total>>
history == <<moved, ever, always>>
rvars   == <<world, input, at, work, answer, history>>

Nobody   == "nobody"
NoUser   == [id |-> Nobody, role |-> "none"]
NoPages  == [total |-> 0, totalPages |-> 0,
             hasNext |-> FALSE, hasPrev |-> FALSE]
NoAnswer == [status |-> 0, message |-> "none", details |-> FALSE, data |-> {},
             pagination |-> NoPages]

ASSUME NobodyAssumption == Nobody \notin Users

-----------------------------------------------------------------------------
(* Operators of the pipeline.                                              *)

Required == IF route \in AdminOnly THEN {"admin"} ELSE {}

\* RolesGuard's condition on req.user.
Allowed(u) == Required = {} \/ u.role \in Required \/ u.id \in AdminUserIds

\* What the guards are meant to find out, from the tables.
Entitled ==
  \/ route \in Public
  \/ /\ caller \in sessions
     /\ Allowed([id |-> caller, role |-> role[caller]])

\* ListUsersQueryDto.
Valid == query.page > 0 /\ query.limit \in 1..MaxLimit

\* Mutant: pages counted from 0.
SkipFromZero == query.page * query.limit

Skip == (query.page - 1) * query.limit

\* findMany has no orderBy: any rows, as many as skip and take leave.
PageOf(rows) ==
  IF Cardinality(rows) <= Skip
  THEN {{}}
  ELSE {S \in SUBSET rows :
          Cardinality(S) = IF Cardinality(rows) - Skip < query.limit
                           THEN Cardinality(rows) - Skip
                           ELSE query.limit}

\* buildPagination.
Pagination ==
  LET pages == IF query.limit > 0
               THEN (total + query.limit - 1) \div query.limit
               ELSE 0
  IN  [total |-> total, totalPages |-> pages,
       hasNext |-> query.page < pages, hasPrev |-> query.page > 1]

\* Exceptions, by the class that the filter tells apart.
Exception(kind, status) == [kind |-> kind, status |-> status]

StatusOf(e) ==
  CASE e.kind \in {"app", "http"} -> e.status
    [] e.kind = "validation"      -> 422
    [] OTHER                      -> 500

\* Mutant: the text of an unexpected error goes to the client.
MessageAlwaysOwn(e) ==
  CASE e.kind = "app"                             -> "translated"
    [] e.kind \in {"validation", "serialization"} -> "fixed"
    [] OTHER                                      -> "own"

\* Where the text of the response comes from.
MessageOf(e) ==
  CASE e.kind = "app"                             -> "translated"
    [] e.kind \in {"validation", "serialization"} -> "fixed"
    [] e.kind = "http"                            -> "own"
    [] OTHER -> IF Production THEN "fixed" ELSE "own"

ErrorResponse(e) ==
  [status |-> StatusOf(e), message |-> MessageOf(e),
   details |-> e.kind = "validation", data |-> {}, pagination |-> NoPages]

\* What the handler read fits the DTO of its route.
Serializable == route \in {"find", "list"} => items \intersect Odd = {}

SuccessResponse ==
  [status |-> 200, message |-> "none", details |-> FALSE, data |-> items,
   pagination |-> IF route = "list" THEN Pagination ELSE NoPages]

\* HttpExceptionFilter.catch.
Throw(e) ==
  /\ at' = "answered"
  /\ answer' = ErrorResponse(e)

Unexpected == Exception("error", 500)

Goto(place) == at' = place /\ UNCHANGED answer

QTypeOK ==
  /\ table \subseteq Users
  /\ sessions \subseteq table
  /\ role \in [Users -> {"user", "admin"}]
  /\ route \in Routes
  /\ caller \in Users \union {Nobody}
  /\ query \in [page : Nat, limit : Nat, wanted : Users \union {Nobody}]
  /\ at \in {"guard", "roles", "pipe", "handler", "reply", "answered"}
  /\ user = NoUser \/ user \in [id : Users, role : {"user", "admin"}]
  /\ got \subseteq {"page", "count"}
  /\ items \subseteq Users
  /\ total \in Nat
  /\ (answer = NoAnswer) = (at # "answered")
  /\ answer.status \in {0, 200, 401, 403, 404, 422, 500}
  /\ answer.message \in {"none", "own", "fixed", "translated"}
  /\ answer.details \in BOOLEAN
  /\ answer.data \subseteq Users
  /\ changes \in Nat
  /\ moved \in BOOLEAN /\ ever \in BOOLEAN /\ always \in BOOLEAN

\* What a request asks for by its route; the id in its path may be anybody's.
Queries ==
  [page   : IF route = "list" THEN 0..MaxPage ELSE {0},
   limit  : IF route = "list" THEN 0..(MaxLimit + 1) ELSE {0},
   wanted : IF route = "find" THEN Users \union {Nobody} ELSE {Nobody}]

RInit ==
  /\ table \in SUBSET Users
  /\ sessions \in SUBSET table
  /\ role \in [Users -> {"user", "admin"}]
  /\ \A u \in Users \ table : role[u] = "user"
  /\ route \in Routes
  /\ caller \in Users \union {Nobody}
  /\ query \in Queries
  /\ at = "guard"
  /\ user = NoUser
  /\ got = {} /\ items = {} /\ total = 0
  /\ answer = NoAnswer
  /\ changes = 0
  /\ moved = FALSE
  /\ ever = Entitled
  /\ always = Entitled

-----------------------------------------------------------------------------
(* The guards and the pipe.                                                *)

\* BetterAuthGuard: better-auth looks up the session and its user.
Authenticate ==
  /\ at = "guard"
  /\ \/ /\ route \in Public
        /\ Goto("roles") /\ UNCHANGED user
     \/ /\ route \notin Public /\ caller \in sessions
        /\ user' = [id |-> caller, role |-> role[caller]]
        /\ Goto("roles")
     \/ /\ route \notin Public /\ caller \notin sessions
        /\ Throw(Exception("http", 401)) /\ UNCHANGED user
  /\ UNCHANGED <<world, input, got, items, total, history>>

\* getSession rejects.
AuthenticateFails ==
  /\ at = "guard" /\ route \notin Public
  /\ Throw(Unexpected)
  /\ UNCHANGED <<world, input, work, history>>

\* Mutant: ADMIN_USER_IDS is not consulted.
AuthorizeByRole ==
  /\ at = "roles"
  /\ IF Required = {} \/ user.role \in Required
     THEN Goto("pipe")
     ELSE Throw(Exception("http", 403))
  /\ UNCHANGED <<world, input, work, history>>

\* RolesGuard: decides on req.user, which may be out of date by now.
Authorize ==
  /\ at = "roles"
  /\ IF Required = {} \/ (user # NoUser /\ Allowed(user))
     THEN Goto("pipe")
     ELSE Throw(Exception("http", 403))
  /\ UNCHANGED <<world, input, work, history>>

\* ZodValidationPipe.
Validate ==
  /\ at = "pipe"
  /\ IF route # "list" \/ Valid
     THEN Goto("handler")
     ELSE Throw(Exception("validation", 400))
  /\ UNCHANGED <<world, input, work, history>>

-----------------------------------------------------------------------------
(* The handlers.                                                           *)

\* AuthController.me.
Me ==
  /\ at = "handler" /\ route = "me"
  /\ items' = {user.id}
  /\ Goto("reply")
  /\ UNCHANGED <<world, input, user, got, total, history>>

\* UsersService.findOne.
FindOne ==
  /\ at = "handler" /\ route = "find"
  /\ IF query.wanted \in table
     THEN items' = {query.wanted} /\ Goto("reply")
     ELSE UNCHANGED items /\ Throw(Exception("app", 404))
  /\ UNCHANGED <<world, input, user, got, total, history>>

\* UsersService.findAll sends both queries at once; either may be first.
Got(q) ==
  /\ at = "handler" /\ route = "list"
  /\ q \notin got
  /\ got' = got \union {q}
  /\ Goto(IF got' = {"page", "count"} THEN "reply" ELSE "handler")
  /\ UNCHANGED <<world, input, user, history>>

FindAll == Got("page") /\ items' \in PageOf(table) /\ UNCHANGED total

Count == Got("count") /\ total' = Cardinality(table) /\ UNCHANGED items

\* A query rejects; Promise.all rejects with it.
QueryFails ==
  /\ at = "handler" /\ route \in {"find", "list"}
  /\ Throw(Unexpected)
  /\ UNCHANGED <<world, input, work, history>>

\* HealthController: the ping is answered or rejects, if Redis can be reached.
PingSettles ==
  /\ at = "handler" /\ route = "health"
  /\ Goto("reply")
  /\ UNCHANGED <<world, input, work, history>>

\* Mutant: pingRedis waits for the ping alone.
NoTimeout == FALSE /\ UNCHANGED rvars

\* The timeout that pingRedis races against the ping.
PingTimesOut ==
  /\ at = "handler" /\ route = "health"
  /\ Goto("reply")
  /\ UNCHANGED <<world, input, work, history>>

\* ZodSerializerInterceptor sees the handler's result first, then
\* ResponseInterceptor wraps what it made of it.
Reply ==
  /\ at = "reply"
  /\ IF Serializable
     THEN at' = "answered" /\ answer' = SuccessResponse
     ELSE Throw(Exception("serialization", 500))
  /\ UNCHANGED <<world, input, work, history>>

-----------------------------------------------------------------------------
(* The other clients, through better-auth: one change of its tables.       *)

Recorded ==
  /\ moved' = (moved \/ (table' # table /\ got \notin {{}, {"page", "count"}}))
  /\ ever' = (ever \/ Entitled')
  /\ always' = (always /\ Entitled')

Change ==
  /\ at # "answered"
  /\ changes < MaxChanges
  /\ changes' = changes + 1
  /\ UNCHANGED <<input, at, work, answer>>

\* defaultRole.
SignsUp(u) ==
  /\ u \notin table
  /\ Change
  /\ table' = table \union {u}
  /\ role' = [role EXCEPT ![u] = "user"]
  /\ UNCHANGED sessions
  /\ Recorded

\* An admin removes the user, and with it its sessions.
IsRemoved(u) ==
  /\ u \in table
  /\ Change
  /\ table' = table \ {u}
  /\ sessions' = sessions \ {u}
  /\ UNCHANGED role
  /\ Recorded

SignsIn(u) ==
  /\ u \in table \ sessions
  /\ Change
  /\ sessions' = sessions \union {u}
  /\ UNCHANGED <<table, role>>
  /\ Recorded

\* Signs out, is banned, or the session expires.
SignsOut(u) ==
  /\ u \in sessions
  /\ Change
  /\ sessions' = sessions \ {u}
  /\ UNCHANGED <<table, role>>
  /\ Recorded

GetsRole(u) ==
  /\ u \in table
  /\ Change
  /\ \E r \in {"user", "admin"} : role' = [role EXCEPT ![u] = r]
  /\ UNCHANGED <<table, sessions>>
  /\ Recorded

-----------------------------------------------------------------------------

Serve ==
  \/ Authenticate
  \/ Authorize
  \/ Validate
  \/ Me
  \/ FindOne
  \/ FindAll
  \/ Count
  \/ PingTimesOut
  \/ Reply

Others(u) ==
  \/ SignsUp(u)
  \/ IsRemoved(u)
  \/ SignsIn(u)
  \/ SignsOut(u)
  \/ GetsRole(u)

RNext ==
  \/ Serve
  \/ AuthenticateFails
  \/ QueryFails
  \/ PingSettles
  \/ \E u \in Users : Others(u)

RSpec == RInit /\ [][RNext]_rvars

\* PostgreSQL answers or rejects, timers fire; Redis need not answer a ping.
RFairSpec == RSpec /\ WF_rvars(Serve)

-----------------------------------------------------------------------------
(* Properties.                                                             *)

\* findAll's page and total come from two queries outside a transaction.  If
\* the table does not change between them, the page, its total and the links
\* that buildPagination derives agree: a page that has a next one is full, the
\* last one ends at total, and only pages behind it are empty, so that a client
\* that follows hasNext reads total rows.
PagesAddUp ==
  LET p == answer.pagination
      n == Cardinality(answer.data)
  IN  answer.status = 200 /\ route = "list" /\ ~moved =>
        /\ n <= p.total
        /\ p.hasNext => n = query.limit /\ Skip + n < p.total
        /\ ~p.hasNext /\ n > 0 => Skip + n = p.total
        /\ (n = 0 <=> query.page > p.totalPages)

\* The guards act on a session and a role read once, while sign-outs, removals
\* and new roles go on.  Still, only a caller that was entitled to the route at
\* some moment of the request is served, and one that was entitled all the
\* time, as an admin or by ADMIN_USER_IDS, is not refused.
AccessIsRight ==
  /\ answer.status \in {200, 404, 422} => ever
  /\ answer.status \in {401, 403} => ~always

\* Whatever fails, and wherever in the pipeline, a server error does not tell
\* its cause in production, and no rows come with it; details come with
\* failed validations only.
CauseHidden ==
  /\ answer.status = 500 => /\ Production => answer.message = "fixed"
                            /\ answer.data = {}
  /\ answer.details => answer.status = 422

\* Every request is answered, a health check even if Redis never answers.
EveryRequestAnswered == <>(at = "answered")
=============================================================================
