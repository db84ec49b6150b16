--------------------------- MODULE RequestsProofs ---------------------------
(***************************************************************************)
(* Proofs about Requests.                                                  *)
(***************************************************************************)
EXTENDS Requests, FiniteSetTheorems, TLAPS

\* The rows that skip and take leave of n.
RowsShown(n) ==
  IF n <= Skip THEN 0 ELSE IF n - Skip < query.limit THEN n - Skip ELSE query.limit

-----------------------------------------------------------------------------
(* Arithmetic.                                                             *)

\* Rounding up: there is a next page exactly if the pages so far do not hold t.
LEMMA RoundedUp ==
  ASSUME NEW t \in Nat, NEW l \in Nat \ {0}, NEW p \in Nat
  PROVE  p < (t + l - 1) \div l <=> p * l < t
  <1> DEFINE q == (t + l - 1) \div l
  <1>1. q \in Int /\ l * q <= t + l - 1 /\ t + l - 1 < l * (q + 1)
    OBVIOUS
  <1>2. CASE p < q
    <2>1. l * (p + 1) <= l * q
      BY <1>1, <1>2
    <2> QED BY <1>1, <1>2, <2>1
  <1>3. CASE ~ (p < q)
    <2>1. l * q <= l * p
      BY <1>1, <1>3
    <2> QED BY <1>1, <1>3, <2>1
  <1> QED BY <1>2, <1>3

\* A page has as many rows as skip and take leave.
LEMMA PageSize ==
  ASSUME QTypeOK, Valid, NEW rows, rows \in PageOf(table)
  PROVE  rows \subseteq Users /\ Cardinality(rows) = RowsShown(Cardinality(table))
  <1>1. Cardinality({}) = 0
    BY FS_EmptySet
  <1>2. CASE Cardinality(table) <= Skip
    BY <1>1, <1>2 DEF PageOf, RowsShown
  <1>3. CASE ~ (Cardinality(table) <= Skip)
    BY <1>3 DEF PageOf, RowsShown, QTypeOK
  <1> QED BY <1>2, <1>3

\* The table is finite.
LEMMA TableSize ==
  ASSUME table \subseteq Users
  PROVE  Cardinality(table) \in Nat
  BY RequestAssumption, FS_Subset, FS_CardinalityType

-----------------------------------------------------------------------------
(* The inductive invariant.                                                *)

Both == {"page", "count"}

\* Where the request is, and what it has by then.
PlaceOK ==
  /\ got # {} => route = "list"
  /\ at \in {"guard", "roles", "pipe"} => got = {}
  /\ at = "handler" => got # Both
  /\ at \in {"handler", "reply"} /\ route = "list" => Valid
  /\ at = "reply" /\ route = "list" => got = Both
  /\ at \in {"roles", "pipe", "handler"} /\ route \notin Public =>
       user \in [id : Users, role : {"user", "admin"}]

\* What the two queries saw, while the table does not move between them.
ReadsOK ==
  ~ moved =>
    /\ got = {"page"} => Cardinality(items) = RowsShown(Cardinality(table))
    /\ got = {"count"} => total = Cardinality(table)
    /\ got = Both => Cardinality(items) = RowsShown(total)

\* What the guards know of the caller, and what was ever true of it.
GuardOK ==
  /\ Entitled => ever
  /\ always => Entitled
  /\ at = "roles" /\ route \notin Public =>
       IF Allowed(user) THEN ever ELSE ~ always
  /\ at \in {"pipe", "handler", "reply"} => ever

RInv ==
  /\ QTypeOK
  /\ PlaceOK
  /\ ReadsOK
  /\ GuardOK
  /\ PagesAddUp
  /\ AccessIsRight
  /\ CauseHidden

-----------------------------------------------------------------------------
(* Answers.                                                                *)

\* What the filter makes of an exception.
LEMMA Thrown ==
  ASSUME RInv, NEW kind \in {"app", "http", "validation", "serialization", "error"},
         NEW status \in {400, 401, 403, 404, 500},
         kind = "app" => status = 404, kind = "http" => status \in {401, 403},
         Throw(Exception(kind, status))
  PROVE  /\ at' = "answered"
         /\ answer' # NoAnswer
         /\ answer'.status = IF kind \in {"app", "http"} THEN status
                             ELSE IF kind = "validation" THEN 422 ELSE 500
         /\ answer'.message \in {"own", "fixed", "translated"}
         /\ answer'.status = 500 /\ Production => answer'.message = "fixed"
         /\ answer'.details \in BOOLEAN
         /\ answer'.details => kind = "validation"
         /\ answer'.data = {}
  <1> DEFINE e == Exception(kind, status)
  <1>1. e.kind = kind /\ e.status = status
    BY DEF Exception
  <1>2. at' = "answered" /\ answer' = ErrorResponse(e)
    BY DEF Throw
  <1>3. /\ answer'.status = StatusOf(e) /\ answer'.message = MessageOf(e)
        /\ answer'.data = {}
        /\ answer'.details \in BOOLEAN
        /\ answer'.details => e.kind = "validation"
    BY <1>2 DEF ErrorResponse
  <1> HIDE DEF e
  <1>4. StatusOf(e) = IF kind \in {"app", "http"} THEN status
                      ELSE IF kind = "validation" THEN 422 ELSE 500
    BY <1>1 DEF StatusOf
  <1>5. /\ MessageOf(e) \in {"own", "fixed", "translated"}
        /\ Production /\ kind \notin {"app", "http"} => MessageOf(e) = "fixed"
    BY <1>1 DEF MessageOf
  <1>6. answer' # NoAnswer
    BY <1>3, <1>5 DEF NoAnswer
  <1>7. StatusOf(e) = 500 => kind \notin {"app", "http"}
    BY <1>4
  <1> QED BY <1>1, <1>2, <1>3, <1>4, <1>5, <1>6, <1>7

\* A step that only moves the request leaves what is known of the tables alone.
LEMMA SameWorld ==
  ASSUME RInv, UNCHANGED <<world, input, history>>
  PROVE  /\ Entitled' = Entitled /\ Skip' = Skip /\ Valid' = Valid
         /\ (Entitled' => ever') /\ (always' => Entitled')
  BY DEF RInv, GuardOK, world, input, history, Entitled, Required, Allowed,
     Skip,
         Valid

\* An exception ends the request, and whoever throws it has a reason.
LEMMA ThrowStep ==
  ASSUME RInv, UNCHANGED <<world, input, work, history>>,
         NEW kind \in {"app", "http", "validation", "serialization", "error"},
         NEW status \in {400, 401, 403, 404, 500},
         kind = "app" => status = 404, kind = "http" => status \in {401, 403},
         kind \in {"app", "validation"} => ever,
         kind = "http" => ~ always,
         Throw(Exception(kind, status))
  PROVE  RInv'
  <1>1. /\ at' = "answered"
        /\ answer' # NoAnswer
        /\ answer'.status = IF kind \in {"app", "http"} THEN status
                            ELSE IF kind = "validation" THEN 422 ELSE 500
        /\ answer'.message \in {"own", "fixed", "translated"}
        /\ answer'.status = 500 /\ Production => answer'.message = "fixed"
        /\ answer'.details \in BOOLEAN
        /\ answer'.details => kind = "validation"
        /\ answer'.data = {}
    BY Thrown
  <1>2. QTypeOK'
    BY <1>1 DEF RInv, QTypeOK, world, input, work, history
  <1>3. PlaceOK'
    BY <1>1 DEF RInv, PlaceOK, input, work
  <1>4. ReadsOK'
    BY DEF RInv, ReadsOK, RowsShown, Skip, world, input, work, history
  <1>5. GuardOK'
    BY <1>1, SameWorld DEF GuardOK
  <1>6. PagesAddUp'
    BY <1>1 DEF PagesAddUp
  <1>7. AccessIsRight'
    BY <1>1 DEF AccessIsRight, history
  <1>8. CauseHidden'
    BY <1>1 DEF CauseHidden
  <1> QED BY <1>2, <1>3, <1>4, <1>5, <1>6, <1>7, <1>8 DEF RInv

\* A step to the next place of the pipeline, with what has to be known there.
LEMMA GotoStep ==
  ASSUME RInv, UNCHANGED <<world, input, answer, history>>, at # "answered",
         NEW place \in {"roles", "pipe", "handler", "reply"}, at' = place,
         user' = NoUser \/ user' \in [id : Users, role : {"user", "admin"}],
         got' \subseteq Both, items' \subseteq Users, total' \in Nat,
         PlaceOK', ReadsOK',
         place = "roles" /\ route \notin Public =>
           IF Allowed(user') THEN ever ELSE ~ always,
         place # "roles" => ever
  PROVE  RInv'
  <1>1. answer' = NoAnswer
    BY DEF RInv, QTypeOK
  <1>2. QTypeOK'
    BY <1>1 DEF RInv, QTypeOK, Both, world, input, history
  <1>3. GuardOK'
    <2>1. Allowed(user)' <=> Allowed(user')
      BY DEF Allowed, Required, input
    <2> QED BY <2>1, SameWorld DEF GuardOK, input, history
  <1>4. PagesAddUp' /\ AccessIsRight' /\ CauseHidden'
    BY <1>1 DEF NoAnswer, PagesAddUp, AccessIsRight, CauseHidden
  <1> QED BY <1>2, <1>3, <1>4 DEF RInv

-----------------------------------------------------------------------------
(* Each action preserves it.                                               *)

\* A request that arrives has read nothing.
LEMMA InitRInv == RInit => RInv
  <1> SUFFICES ASSUME RInit PROVE RInv
    OBVIOUS
  <1>1. query \in [page : Nat, limit : Nat, wanted : Users \union {Nobody}]
    BY RequestAssumption DEF RInit, Queries
  <1>2. Entitled \in BOOLEAN
    BY DEF Entitled, Allowed
  <1>3. QTypeOK
    BY <1>1, <1>2 DEF RInit, QTypeOK, NoAnswer
  <1>4. PlaceOK /\ ReadsOK
    BY DEF RInit, PlaceOK, ReadsOK, Both
  <1>5. GuardOK
    BY DEF RInit, GuardOK
  <1>6. PagesAddUp /\ AccessIsRight /\ CauseHidden
    BY DEF RInit, NoAnswer, PagesAddUp, AccessIsRight, CauseHidden
  <1> QED BY <1>3, <1>4, <1>5, <1>6 DEF RInv

\* BetterAuthGuard leaves the caller of a session, or refuses one without.
LEMMA AuthenticateStep ==
  ASSUME RInv, Authenticate
  PROVE  RInv'
  <1>1. /\ at = "guard" /\ got = {} /\ Both # {}
        /\ user = NoUser \/ user \in [id : Users, role : {"user", "admin"}]
        /\ items \subseteq Users /\ total \in Nat
    BY DEF RInv, QTypeOK, PlaceOK, Authenticate, Both
  <1>2. CASE route \in Public /\ Goto("roles") /\ UNCHANGED user
    <2>1. PlaceOK' /\ ReadsOK'
      BY <1>1, <1>2 DEF Authenticate, Goto, PlaceOK, ReadsOK, Both, input
    <2> QED BY <1>1, <1>2, <2>1, GotoStep DEF Authenticate, Goto
  <1>3. CASE /\ route \notin Public /\ caller \in sessions
             /\ user' = [id |-> caller, role |-> role[caller]]
             /\ Goto("roles")
    <2>1. user' \in [id : Users, role : {"user", "admin"}]
      BY <1>3 DEF RInv, QTypeOK
    <2>2. PlaceOK' /\ ReadsOK'
      BY <1>1, <1>3, <2>1 DEF Authenticate, Goto, PlaceOK, ReadsOK, Both, input
    <2>3. IF Allowed(user') THEN ever ELSE ~ always
      BY <1>3 DEF RInv, GuardOK, Entitled
    <2> QED BY <1>1, <1>3, <2>1, <2>2, <2>3, GotoStep DEF Authenticate, Goto
  <1>4. CASE /\ route \notin Public /\ caller \notin sessions
             /\ Throw(Exception("http", 401)) /\ UNCHANGED user
    <2>1. ~ always
      BY <1>4 DEF RInv, GuardOK, Entitled
    <2> QED BY <1>4, <2>1, ThrowStep DEF Authenticate, work
  <1> QED BY <1>2, <1>3, <1>4 DEF Authenticate

\* Nobody's handler, query or session lookup failed with more than its error.
LEMMA FailureStep ==
  ASSUME RInv, AuthenticateFails \/ QueryFails
  PROVE  RInv'
  BY ThrowStep DEF AuthenticateFails, QueryFails, Unexpected

\* RolesGuard leaves a caller who was entitled when it was read.
LEMMA AuthorizeStep ==
  ASSUME RInv, Authorize
  PROVE  RInv'
  <1>1. /\ at = "roles" /\ got = {} /\ Both # {}
        /\ user = NoUser \/ user \in [id : Users, role : {"user", "admin"}]
        /\ items \subseteq Users /\ total \in Nat
    BY DEF RInv, QTypeOK, PlaceOK, Authorize, Both
  <1>2. route \in Public => Required = {} /\ ever
    BY RequestAssumption DEF RInv, GuardOK, Entitled, Required
  <1>3. route \notin Public => user # NoUser /\ IF Allowed(user) THEN ever ELSE ~ always
    BY <1>1, NobodyAssumption DEF RInv, GuardOK, PlaceOK, NoUser
  <1>4. CASE Goto("pipe") /\ ever
    <2>1. PlaceOK' /\ ReadsOK'
      BY <1>1, <1>4 DEF RInv, Authorize, Goto, PlaceOK, ReadsOK, Both, input,
         work
    <2> QED BY <1>1, <1>4, <2>1, GotoStep DEF Authorize, Goto, work
  <1>5. CASE Throw(Exception("http", 403)) /\ ~ always
    BY <1>5, ThrowStep DEF Authorize
  <1>6. Required = {} => Allowed(user)
    BY DEF Allowed
  <1> QED BY <1>2, <1>3, <1>4, <1>5, <1>6 DEF Authorize

\* The pipe passes a valid page and limit only.
LEMMA ValidateStep ==
  ASSUME RInv, Validate
  PROVE  RInv'
  <1>1. /\ at = "pipe" /\ got = {} /\ Both # {} /\ ever
        /\ user = NoUser \/ user \in [id : Users, role : {"user", "admin"}]
        /\ items \subseteq Users /\ total \in Nat
    BY DEF RInv, QTypeOK, PlaceOK, GuardOK, Validate, Both
  <1>2. CASE Goto("handler") /\ (route # "list" \/ Valid)
    <2>1. PlaceOK' /\ ReadsOK'
      BY <1>1, <1>2
         DEF RInv, Validate, Goto, PlaceOK, ReadsOK, Both, input, work, Valid
    <2> QED BY <1>1, <1>2, <2>1, GotoStep DEF Validate, Goto, work
  <1>3. CASE Throw(Exception("validation", 400))
    BY <1>1, <1>3, ThrowStep DEF Validate
  <1> QED BY <1>2, <1>3 DEF Validate

\* The handlers with one await at most.
LEMMA HandlerStep ==
  ASSUME RInv, Me \/ FindOne \/ PingSettles \/ PingTimesOut
  PROVE  RInv'
  <1>1. /\ at = "handler" /\ route # "list" /\ ever
        /\ user = NoUser \/ user \in [id : Users, role : {"user", "admin"}]
        /\ route = "me" => user \in [id : Users, role : {"user", "admin"}]
        /\ items \subseteq Users /\ total \in Nat /\ got = {} /\ Both # {}
    BY DEF RInv, QTypeOK, PlaceOK, GuardOK, Me, FindOne, PingSettles,
           PingTimesOut, Both, Public
  <1>2. CASE Goto("reply") /\ items' \subseteq Users /\ UNCHANGED <<user, got, total>>
    <2>1. UNCHANGED <<world, input, history>>
      BY DEF Me, FindOne, PingSettles, PingTimesOut
    <2>2. PlaceOK'
      BY <1>1, <1>2, <2>1 DEF PlaceOK, Goto, input
    <2>3. ReadsOK'
      BY <1>1, <1>2 DEF ReadsOK, Both
    <2> QED BY <1>1, <1>2, <2>1, <2>2, <2>3, GotoStep DEF Goto
  <1>3. CASE Throw(Exception("app", 404)) /\ UNCHANGED items /\ FindOne
    BY <1>1, <1>3, ThrowStep DEF FindOne, work
  <1>4. CASE Me
    <2>1. user.id \in Users
      BY <1>1, <1>4 DEF Me
    <2> QED BY <1>2, <1>4, <2>1 DEF Me
  <1>5. CASE FindOne
    <2>1. table \subseteq Users
      BY DEF RInv, QTypeOK
    <2> QED BY <1>2, <1>3, <1>5, <2>1 DEF FindOne
  <1>6. CASE PingSettles \/ PingTimesOut
    BY <1>1, <1>2, <1>6 DEF PingSettles, PingTimesOut, work
  <1> QED BY <1>4, <1>5, <1>6

\* findAll's two queries, in either order.
LEMMA ListStep ==
  ASSUME RInv, FindAll \/ Count
  PROVE  RInv'
  <1>1. /\ at = "handler" /\ route = "list" /\ ever /\ Valid
        /\ user = NoUser \/ user \in [id : Users, role : {"user", "admin"}]
        /\ items \subseteq Users /\ total \in Nat /\ got \subseteq Both /\ got # Both
        /\ table \subseteq Users
    BY DEF RInv, QTypeOK, PlaceOK, GuardOK, FindAll, Count, Got, Both
  <1>2. /\ UNCHANGED <<world, input, user, history, answer>>
        /\ at' = IF got' = Both THEN "reply" ELSE "handler"
        /\ got' \subseteq Both
    BY <1>1 DEF FindAll, Count, Got, Goto, Both
  <1>3. items' \subseteq Users /\ total' \in Nat
    BY <1>1, PageSize, TableSize DEF FindAll, Count, RInv
  <1>4. PlaceOK'
    BY <1>1, <1>2, SameWorld DEF PlaceOK, input, Both, Public, FindAll, Count,
       Got,
                                 RInv
  <1>5. ReadsOK'
    <2>1. \A n : RowsShown(n)' = RowsShown(n)
      BY <1>2 DEF RowsShown, Skip, input
    <2>2. /\ moved' = moved /\ table' = table
          /\ "page" # "count" /\ {"page"} # Both /\ {"count"} # Both
      BY <1>2 DEF world, history, Both
    <2>3. CASE FindAll
      <3>1. Cardinality(items') = RowsShown(Cardinality(table)) /\ total' = total
        BY <1>1, <2>3, PageSize DEF FindAll, RInv
      <3>2. got' = got \union {"page"} /\ (got = {} \/ got = {"count"})
        BY <1>1, <2>3 DEF FindAll, Got, Both
      <3> QED BY <2>1, <2>2, <3>1, <3>2 DEF ReadsOK, RInv, Both
    <2>4. CASE Count
      <3>1. total' = Cardinality(table) /\ items' = items
        BY <2>4 DEF Count
      <3>2. got' = got \union {"count"} /\ (got = {} \/ got = {"page"})
        BY <1>1, <2>4 DEF Count, Got, Both
      <3> QED BY <2>1, <2>2, <3>1, <3>2 DEF ReadsOK, RInv, Both
    <2> QED BY <2>3, <2>4
  <1> QED BY <1>1, <1>2, <1>3, <1>4, <1>5, GotoStep

\* The page that the handler read is the one the envelope describes.
LEMMA PaginationRight ==
  ASSUME Valid, query.page \in Nat, query.limit \in Nat, total \in Nat,
         NEW n, n = RowsShown(total)
  PROVE  /\ Pagination.total = total
         /\ n <= total
         /\ Pagination.hasNext => n = query.limit /\ Skip + n < total
         /\ ~ Pagination.hasNext /\ n > 0 => Skip + n = total
         /\ (n = 0 <=> query.page > Pagination.totalPages)
  <1> DEFINE p == query.page
             l == query.limit
             pages == (total + l - 1) \div l
  <1>1. p \in Nat \ {0} /\ l \in Nat \ {0} /\ total \in Nat
    BY RequestAssumption DEF Valid
  <1>2. /\ Pagination.total = total
        /\ Pagination.totalPages = pages
        /\ Pagination.hasNext <=> p < pages
    <2> DEFINE next == p < pages
    <2>1. Pagination = [total |-> total, totalPages |-> pages,
                        hasNext |-> next, hasPrev |-> p > 1]
      BY <1>1 DEF Pagination
    <2> HIDE DEF next, pages
    <2>2. /\ Pagination.total = total /\ Pagination.totalPages = pages
          /\ Pagination.hasNext = next
      BY <2>1
    <2> QED BY <2>2 DEF next
  <1>3. /\ p < pages <=> p * l < total
        /\ p - 1 < pages <=> (p - 1) * l < total
    <2>1. p \in Nat /\ p - 1 \in Nat
      BY <1>1
    <2> HIDE DEF p, l
    <2> QED BY <1>1, <2>1, RoundedUp, Zenon
  <1>4. p * l = Skip + l /\ Skip = (p - 1) * l /\ Skip \in Nat
    BY <1>1 DEF Skip
  <1>5. pages \in Int
    BY <1>1
  <1>6. n = IF total <= Skip THEN 0 ELSE IF total - Skip < l THEN total - Skip ELSE l
    BY DEF RowsShown
  <1> HIDE DEF p, l, pages
  <1>7. /\ n <= total
        /\ p < pages => n = l /\ Skip + n < total
        /\ ~ (p < pages) /\ n > 0 => Skip + n = total
        /\ (n = 0) <=> (p > pages)
    BY <1>1, <1>3, <1>4, <1>5, <1>6
  <1> QED BY <1>2, <1>7 DEF p, l, pages

\* The answer is made of what the handler left.
LEMMA ReplyStep ==
  ASSUME RInv, Reply
  PROVE  RInv'
  <1>1. at = "reply" /\ ever /\ UNCHANGED <<world, input, work, history>>
    BY DEF RInv, GuardOK, Reply
  <1>2. CASE Throw(Exception("serialization", 500))
    BY <1>1, <1>2, ThrowStep
  <1>3. CASE at' = "answered" /\ answer' = SuccessResponse
    <2>1. /\ answer'.status = 200 /\ answer'.message = "none"
          /\ answer'.details = FALSE /\ answer'.data = items
          /\ answer' # NoAnswer
          /\ route = "list" => answer'.pagination = Pagination
      BY <1>3 DEF SuccessResponse, NoAnswer
    <2>2. QTypeOK'
      <3>1. /\ (answer' = NoAnswer) = (at' # "answered")
            /\ answer'.status \in {0, 200, 401, 403, 404, 422, 500}
            /\ answer'.message \in {"none", "own", "fixed", "translated"}
            /\ answer'.details \in BOOLEAN
            /\ answer'.data \subseteq Users
        BY <1>3, <2>1 DEF RInv, QTypeOK
      <3>2. at' \in {"guard", "roles", "pipe", "handler", "reply", "answered"}
        BY <1>3
      <3> QED
        BY <1>1, <3>1, <3>2 DEF RInv, QTypeOK, world, input, work, history
    <2>3. PlaceOK'
      BY <1>1, <1>3 DEF RInv, PlaceOK, input, work
    <2>4. ReadsOK'
      BY <1>1 DEF RInv, ReadsOK, RowsShown, Skip, world, input, work, history
    <2>5. GuardOK'
      BY <1>1, <1>3, SameWorld DEF GuardOK
    <2>6. PagesAddUp'
      <3> SUFFICES ASSUME route = "list", ~ moved
                   PROVE  PagesAddUp'
        BY <1>1 DEF PagesAddUp, input, history
      <3>1. /\ Valid /\ query.page \in Nat /\ query.limit \in Nat /\ total \in Nat
            /\ Cardinality(items) = RowsShown(total)
        BY <1>1 DEF RInv, QTypeOK, PlaceOK, ReadsOK
      <3>2. query' = query /\ Skip' = Skip
        BY <1>1, SameWorld DEF input
      <3> QED BY <2>1, <3>1, <3>2, PaginationRight DEF PagesAddUp
    <2>7. AccessIsRight' /\ CauseHidden'
      BY <1>1, <2>1 DEF AccessIsRight, CauseHidden, history
    <2> QED BY <2>2, <2>3, <2>4, <2>5, <2>6, <2>7 DEF RInv
  <1> QED BY <1>2, <1>3 DEF Reply

\* What other clients do to the tables.
LEMMA OthersStep ==
  ASSUME RInv, NEW u \in Users, Others(u)
  PROVE  RInv'
  <1>1. /\ at # "answered" /\ answer = NoAnswer
        /\ UNCHANGED <<input, at, work, answer>> /\ Recorded /\ changes' \in Nat
    BY DEF RInv, QTypeOK, Others, SignsUp, IsRemoved, SignsIn, SignsOut,
       GetsRole,
           Change
  <1>2. table' \subseteq Users /\ sessions' \subseteq table'
        /\ role' \in [Users -> {"user", "admin"}]
    BY DEF RInv, QTypeOK, Others, SignsUp, IsRemoved, SignsIn, SignsOut,
       GetsRole
  <1>3. QTypeOK'
    <2>1. moved' \in BOOLEAN /\ ever' \in BOOLEAN /\ always' \in BOOLEAN
      BY <1>1 DEF Recorded
    <2> QED BY <1>1, <1>2, <2>1 DEF RInv, QTypeOK, input, work
  <1>4. PlaceOK'
    BY <1>1 DEF RInv, PlaceOK, input, work, Valid
  <1>5. ReadsOK'
    <2>1. ~ moved' => ~ moved /\ (table' = table \/ got = {} \/ got = Both)
      BY <1>1 DEF Recorded, Both
    <2>2. \A n : RowsShown(n)' = RowsShown(n)
      BY <1>1 DEF RowsShown, Skip, input
    <2>3. {"page"} # {} /\ {"count"} # {} /\ {"page"} # Both /\ {"count"} # Both
      BY DEF Both
    <2>4. got' = got /\ items' = items /\ total' = total
      BY <1>1 DEF work
    <2> QED BY <2>1, <2>2, <2>3, <2>4 DEF RInv, ReadsOK
  <1>6. GuardOK'
    <2>1. ever' = (ever \/ Entitled') /\ always' = (always /\ Entitled')
      BY <1>1 DEF Recorded
    <2>2. Allowed(user)' <=> Allowed(user)
      BY <1>1 DEF Allowed, Required, input, work
    <2> QED BY <1>1, <2>1, <2>2 DEF RInv, GuardOK, input
  <1>7. PagesAddUp' /\ AccessIsRight' /\ CauseHidden'
    BY <1>1 DEF NoAnswer, PagesAddUp, AccessIsRight, CauseHidden
  <1> QED BY <1>3, <1>4, <1>5, <1>6, <1>7 DEF RInv

-----------------------------------------------------------------------------
(* The theorems.                                                           *)

\* The invariant holds in every reachable state, for any users, limits, pages
\* and changes.
THEOREM RInductive == RSpec => []RInv
  <1>1. RInv /\ [RNext]_rvars => RInv'
    <2> SUFFICES ASSUME RInv, [RNext]_rvars PROVE RInv'
      OBVIOUS
    <2>1. CASE UNCHANGED rvars
      BY <2>1
         DEF rvars, world, input, work, history, RInv, QTypeOK, PlaceOK,
         ReadsOK,
             GuardOK, PagesAddUp, AccessIsRight, CauseHidden, RowsShown, Skip, Valid,
             Entitled, Allowed, Required
    <2>2. CASE RNext
      BY <2>2, AuthenticateStep, FailureStep, AuthorizeStep, ValidateStep,
         HandlerStep, ListStep, ReplyStep, OthersStep
         DEF RNext, Serve
    <2> QED BY <2>1, <2>2
  <1> QED BY InitRInv, <1>1, PTL DEF RSpec

\* The variables of Requests keep their types.
THEOREM RTypeCorrect == RSpec => []QTypeOK
  BY RInductive, PTL DEF RInv

\* Pages, totals and links of buildPagination agree while the table rests.
THEOREM PagesRight == RSpec => []PagesAddUp
  BY RInductive, PTL DEF RInv

\* The guards' decisions are right at some moment of the request.
THEOREM GuardsRight == RSpec => []AccessIsRight
  BY RInductive, PTL DEF RInv

\* No server error tells its cause in production.
THEOREM CausesHidden == RSpec => []CauseHidden
  BY RInductive, PTL DEF RInv
=============================================================================
