---------------------------- MODULE FrontEndProofs ----------------------------
(***************************************************************************)
(* What holds of FrontEnd for every set of requests, tokens, tenants and   *)
(* sessions: the types, that an operation runs with the authority of its   *)
(* own request, that no tool asks for less than the routes do, and that    *)
(* the roles keep the duties apart.                                        *)
(***************************************************************************)
EXTENDS FrontEnd, TLAPS

-----------------------------------------------------------------------------
(* The tables of routes and tools *)

LEMMA ToolsAreRoutes == Tools \subseteq Routes
  <1>1. CatalogTools \subseteq Routes
    BY DEF CatalogTools, Rows, Routes, CoreRoutes, ItemRoutes
  <1>2. BrokerTools \subseteq Routes
    BY DEF BrokerTools, Rows, Routes, BrokerRoutes
  <1>3. SystemTools \subseteq Routes
    BY DEF SystemTools, Rows, Routes, SystemRoutes
  <1>4. RotationTools \subseteq Routes
    BY DEF RotationTools, Rows, Routes, RotationRoutes
  <1>5. EmergencyTools \subseteq Routes
    BY DEF EmergencyTools, Rows, Routes, BreakGlassRoutes
  <1>6. SandboxTools \subseteq Routes
    BY DEF SandboxTools, Rows, Routes, BrokerRoutes
  <1> QED
    BY <1>1, <1>2, <1>3, <1>4, <1>5, <1>6 DEF Tools

LEMMA RowOf ==
  ASSUME NEW ops, NEW scope, NEW roles, NEW row \in Rows(ops, scope, roles)
  PROVE  row.op \in ops /\ row.scope = scope /\ row.roles = roles
  BY DEF Rows

\* Every route to an operation of a duty asks for a role of that duty.
LEMMA RoutesKeepDuties ==
  ASSUME NEW row \in Routes, NEW duty \in Duties, row.op \in duty[1]
  PROVE  row.roles # {} /\ row.roles \subseteq duty[2]
  <1> DEFINE Kept == row.roles # {} /\ row.roles \subseteq duty[2]
  <1>1. CASE row \in AuthorizeRoute
    BY <1>1, RowOf DEF AuthorizeRoute, Duties
  <1>2. CASE row \in ToolingRoutes
    BY <1>2, RowOf DEF ToolingRoutes, Duties
  <1>3. CASE row \in CoreRoutes
    BY <1>3, RowOf DEF CoreRoutes, Duties
  <1>4. CASE row \in BrokerRoutes
    BY <1>4, RowOf DEF BrokerRoutes, Duties
  <1>5. CASE row \in AuthRoutes
    BY <1>5, RowOf DEF AuthRoutes, Duties, AuthAdmins
  <1>6. CASE row \in TenantRoutes
    BY <1>6, RowOf DEF TenantRoutes, Duties
  <1>7. CASE row \in SystemRoutes
    BY <1>7, RowOf DEF SystemRoutes, Duties, Maintainers
  <1>8. CASE row \in RotationRoutes
    BY <1>8, RowOf DEF RotationRoutes, Duties
  <1>9. CASE row \in BackupRoutes
    BY <1>9, RowOf DEF BackupRoutes, Duties, BackupOperators
  <1>10. CASE row \in ApprovalRoutes
    BY <1>10, RowOf DEF ApprovalRoutes, Duties, Reviewers
  <1>11. CASE row \in BreakGlassRoutes
    BY <1>11, RowOf DEF BreakGlassRoutes, Duties, Reviewers
  <1>12. CASE row \in ClientRoutes
    BY <1>12, RowOf DEF ClientRoutes, Duties, AuthAdmins
  <1>13. CASE row \in ItemRoutes
    BY <1>13, RowOf DEF ItemRoutes, Duties
  <1> QED
    BY <1>1, <1>2, <1>3, <1>4, <1>5, <1>6, <1>7, <1>8, <1>9, <1>10, <1>11, <1>12, <1>13
       DEF Routes

-----------------------------------------------------------------------------
(* What a request knows *)

\* What was found out about the token of a request by the await it is at.
Knows(q) ==
  /\ q.pc \in {"token", "tenant", "mcp"} => q.via \in {"api", "mcp"}
  /\ q.pc # "idle" /\ q.via # "stdio" => q.token \in issued
  /\ q.pc = "token" /\ q.revoked => q.token \notin live
  /\ q.pc \in {"tenant", "mcp", "run"} /\ q.via # "stdio" => ~q.revoked
  /\ q.pc = "mcp" =>
       /\ q.via = "mcp" /\ ResourceMatches(q.token, "mcp")
       /\ q.context = [Issued[q.token] EXCEPT !.resource = "mcp"]
  /\ q.pc = "run" =>
       /\ \E row \in Routes : row.op = q.op /\ MayCall(q.context, row)
       /\ q.via = "stdio" => q.context = LocalOperator
       /\ q.via # "stdio" =>
            /\ q.context \in {Issued[q.token], [Issued[q.token] EXCEPT !.resource = "mcp"]}
            /\ ResourceMatches(q.token, q.via)

IInv == TypeOK /\ \A r \in Requests : Knows(req[r])

LEMMA LocalOperatorType == LocalOperator \in AuthContext
  BY DEF LocalOperator, AuthContext, Resources

LEMMA IssuedTypes ==
  ASSUME NEW t \in TokenIds
  PROVE  /\ Issued[t] \in AuthContext
         /\ [Issued[t] EXCEPT !.resource = "mcp"] \in AuthContext
  BY FrontEndAssumption DEF AuthContext, Resources

LEMMA IdleFits == Idle \in Request /\ Knows(Idle)
  <1>1. Idle \in Request
    BY LocalOperatorType DEF Idle, Request
  <1>2. Idle.pc = "idle"
    BY DEF Idle
  <1> QED
    BY <1>1, <1>2 DEF Knows

\* Tokens are only ever added to those that were issued, and one that is dead
\* stays dead.
TokensMove ==
  /\ issued \subseteq issued'
  /\ \A t \in issued : t \notin live => t \notin live'

LEMMA KnowsStays ==
  ASSUME TypeOK, TokensMove, NEW q, Knows(q)
  PROVE  Knows(q)'
  BY DEF Knows, TokensMove

\* A request moves on, and the others know what they knew.
LEMMA RequestMoves ==
  ASSUME IInv, NEW r \in Requests, NEW q \in Request, Knows(q),
         req' = [req EXCEPT ![r] = q], UNCHANGED <<issued, live>>
  PROVE  req' \in [Requests -> Request] /\ \A s \in Requests : Knows(req[s])'
  <1>1. req' \in [Requests -> Request]
    BY DEF IInv, TypeOK
  <1>2. ASSUME NEW s \in Requests
        PROVE  Knows(req[s])'
    <2>1. req'[s] = q \/ req'[s] = req[s]
      BY DEF IInv, TypeOK
    <2> QED
      BY <2>1 DEF IInv, Knows
  <1> QED
    BY <1>1, <1>2

\* A request that only moves itself on.
LEMMA OnlyRequestMoves ==
  ASSUME IInv, NEW r \in Requests, NEW q \in Request, Knows(q),
         req' = [req EXCEPT ![r] = q], UNCHANGED <<issued, live, disabled, sessions>>
  PROVE  IInv'
  <1>1. req' \in [Requests -> Request] /\ \A s \in Requests : Knows(req[s])'
    BY RequestMoves
  <1> QED
    BY <1>1 DEF IInv, TypeOK

\* A request is answered.
LEMMA Answered ==
  ASSUME IInv, NEW r \in Requests, Answer(r), UNCHANGED <<issued, live>>
  PROVE  req' \in [Requests -> Request] /\ \A s \in Requests : Knows(req[s])'
  BY IdleFits, RequestMoves DEF Answer

LEMMA OnlyAnswered ==
  ASSUME IInv, NEW r \in Requests, Answer(r),
         UNCHANGED <<issued, live, disabled, sessions>>
  PROVE  IInv'
  BY Answered DEF IInv, TypeOK

LEMMA ArriveStep ==
  ASSUME IInv, NEW r \in Requests, Arrive(r)
  PROVE  IInv'
  <1>1. PICK t \in issued, target \in {"api", "mcp"} :
          req' = [req EXCEPT ![r] = [Idle EXCEPT !.pc = "token", !.token = t,
                                                 !.revoked = t \notin live,
                                                 !.via = target]]
    BY DEF Arrive
  <1> DEFINE late == t \notin live
             q == [Idle EXCEPT !.pc = "token", !.token = t, !.revoked = late,
                               !.via = target]
  <1>2. late \in BOOLEAN /\ (late => t \notin live) /\ t \in TokenIds
    BY DEF IInv, TypeOK
  <1>3. req' = [req EXCEPT ![r] = q]
    BY <1>1
  <1> HIDE DEF late
  <1>4. q \in Request /\ Idle \in Request
    BY <1>2, IdleFits DEF Request
  <1>5. q.pc = "token" /\ q.token = t /\ q.revoked = late /\ q.via = target
    BY <1>4 DEF Request
  <1> HIDE DEF q
  <1>6. Knows(q)
    BY <1>2, <1>5 DEF Knows
  <1> QED
    BY <1>3, <1>4, <1>6, OnlyRequestMoves DEF Arrive

LEMMA ReadTokenStep ==
  ASSUME IInv, NEW r \in Requests, ReadToken(r)
  PROVE  IInv'
  <1> DEFINE q == [req[r] EXCEPT !.pc = "tenant"]
  <1>1. req[r] \in Request /\ Knows(req[r])
    BY DEF IInv, TypeOK
  <1>2. CASE req[r].token \in live
    <2>1. q \in Request
      BY <1>1 DEF Request
    <2>2. /\ q.pc = "tenant" /\ q.via = req[r].via /\ q.token = req[r].token
          /\ q.revoked = req[r].revoked
      BY <1>1 DEF Request
    <2>3. Knows(q)
      BY <1>1, <1>2, <2>2 DEF Knows, ReadToken
    <2>4. req' = [req EXCEPT ![r] = q]
      BY <1>2 DEF ReadToken
    <2> QED
      BY <2>1, <2>3, <2>4, OnlyRequestMoves DEF ReadToken
  <1>3. CASE req[r].token \notin live
    BY <1>3, OnlyAnswered DEF ReadToken
  <1> QED
    BY <1>2, <1>3

\* A row that lets a context through starts the operation with it.
LEMMA RunFits ==
  ASSUME IInv, NEW r \in Requests, NEW row \in Routes, NEW context \in AuthContext,
         MayCall(context, row), req[r].pc \in {"tenant", "mcp"},
         context \in {Issued[req[r].token],
                      [Issued[req[r].token] EXCEPT !.resource = "mcp"]},
         ResourceMatches(req[r].token, req[r].via)
  PROVE  LET q == [req[r] EXCEPT !.pc = "run", !.op = row.op, !.context = context] IN
         q \in Request /\ Knows(q)
  <1> DEFINE q == [req[r] EXCEPT !.pc = "run", !.op = row.op, !.context = context]
  <1>1. req[r] \in Request /\ Knows(req[r])
    BY DEF IInv, TypeOK
  <1>2. q \in Request
    BY <1>1 DEF Request
  <1>3. /\ q.pc = "run" /\ q.via = req[r].via /\ q.token = req[r].token
        /\ q.revoked = req[r].revoked /\ q.op = row.op /\ q.context = context
    BY <1>1 DEF Request
  <1> HIDE DEF q
  <1>4. Knows(q)
    BY <1>1, <1>3 DEF Knows
  <1> QED
    BY <1>2, <1>4 DEF q

LEMMA CallRouteStep ==
  ASSUME IInv, NEW r \in Requests, CallRoute(r)
  PROVE  IInv'
  <1> DEFINE context == Issued[req[r].token]
  <1>1. req[r].token \in TokenIds /\ ResourceMatches(req[r].token, req[r].via)
    BY DEF IInv, TypeOK, Knows, CallRoute, Authenticated
  <1>2. CASE Answer(r)
    BY <1>2, OnlyAnswered DEF CallRoute
  <1>3. CASE ~Answer(r)
    <2>1. PICK row \in Routes :
            /\ MayCall(context, row)
            /\ req' = [req EXCEPT ![r].pc = "run", ![r].op = row.op,
                                  ![r].context = context]
      BY <1>3 DEF CallRoute
    <2> DEFINE q == [req[r] EXCEPT !.pc = "run", !.op = row.op, !.context = context]
    <2>2. q \in Request /\ Knows(q)
      BY <1>1, <2>1, IssuedTypes, RunFits DEF CallRoute
    <2>3. req' = [req EXCEPT ![r] = q]
      BY <2>1
    <2> HIDE DEF q
    <2> QED
      BY <2>2, <2>3, OnlyRequestMoves DEF CallRoute
  <1> QED
    BY <1>2, <1>3

LEMMA EnterMcpStep ==
  ASSUME IInv, NEW r \in Requests, EnterMcp(r)
  PROVE  IInv'
  <1> DEFINE context == [Issued[req[r].token] EXCEPT !.resource = "mcp"]
             q == [req[r] EXCEPT !.pc = "mcp", !.context = context]
  <1>1. /\ req[r] \in Request /\ Knows(req[r])
        /\ req[r].token \in TokenIds /\ ResourceMatches(req[r].token, "mcp")
    BY DEF IInv, TypeOK, Knows, EnterMcp, Authenticated
  <1>2. CASE Answer(r)
    BY <1>2, OnlyAnswered DEF EnterMcp
  <1>3. CASE ~Answer(r)
    <2>1. req' = [req EXCEPT ![r] = q]
      BY <1>3 DEF EnterMcp
    <2>2. context \in AuthContext
      BY <1>1, IssuedTypes
    <2>3. q \in Request
      BY <1>1, <2>2 DEF Request
    <2>4. /\ q.pc = "mcp" /\ q.via = "mcp" /\ q.token = req[r].token
          /\ q.revoked = req[r].revoked /\ q.context = context
      BY <1>1 DEF Request, EnterMcp
    <2> HIDE DEF q
    <2>5. Knows(q)
      BY <1>1, <2>4 DEF Knows, EnterMcp
    <2> QED
      BY <2>1, <2>3, <2>5, OnlyRequestMoves DEF EnterMcp
  <1> QED
    BY <1>2, <1>3

LEMMA CallToolStep ==
  ASSUME IInv, NEW r \in Requests, CallTool(r)
  PROVE  IInv'
  <1> DEFINE context == req[r].context
  <1>1. /\ req[r] \in Request /\ Knows(req[r]) /\ req[r].pc = "mcp"
    BY DEF IInv, TypeOK, CallTool
  <1>2. /\ context \in AuthContext /\ req[r].via = "mcp"
        /\ context = [Issued[req[r].token] EXCEPT !.resource = "mcp"]
        /\ ResourceMatches(req[r].token, req[r].via)
    BY <1>1 DEF Request, Knows
  <1>3. CASE Answer(r)
    BY <1>3, OnlyAnswered DEF CallTool
  <1>4. CASE ~Answer(r)
    <2>1. PICK row \in Tools :
            /\ MayCall(context, row)
            /\ req' = [req EXCEPT ![r].pc = "run", ![r].op = row.op,
                                  ![r].context = context]
      BY <1>2, <1>4 DEF CallTool, ContextFromExtra
    <2> DEFINE q == [req[r] EXCEPT !.pc = "run", !.op = row.op, !.context = context]
    <2>2. row \in Routes
      BY ToolsAreRoutes
    <2>3. q \in Request /\ Knows(q)
      BY <1>1, <1>2, <2>1, <2>2, RunFits
    <2>4. req' = [req EXCEPT ![r] = q]
      BY <2>1
    <2> HIDE DEF q
    <2> QED
      BY <2>3, <2>4, OnlyRequestMoves DEF CallTool
  <1> QED
    BY <1>3, <1>4

LEMMA CallStdioToolStep ==
  ASSUME IInv, NEW r \in Requests, CallStdioTool(r)
  PROVE  IInv'
  <1>1. PICK row \in Tools :
          /\ MayCall(LocalOperator, row)
          /\ req' = [req EXCEPT ![r] = [Idle EXCEPT !.pc = "run", !.via = "stdio",
                                                    !.op = row.op]]
    BY DEF CallStdioTool
  <1> DEFINE q == [Idle EXCEPT !.pc = "run", !.via = "stdio", !.op = row.op]
  <1>2. row \in Routes /\ Idle \in Request /\ Idle.context = LocalOperator
    BY ToolsAreRoutes, IdleFits DEF Idle
  <1>3. q \in Request
    BY <1>2 DEF Request
  <1>4. q.pc = "run" /\ q.via = "stdio" /\ q.op = row.op /\ q.context = LocalOperator
    BY <1>2 DEF Request
  <1>5. req' = [req EXCEPT ![r] = q]
    BY <1>1
  <1> HIDE DEF q
  <1>6. Knows(q)
    BY <1>1, <1>2, <1>4 DEF Knows
  <1> QED
    BY <1>3, <1>5, <1>6, OnlyRequestMoves DEF CallStdioTool

LEMMA PerformStep ==
  ASSUME IInv, NEW r \in Requests, Perform(r)
  PROVE  IInv'
  <1>1. /\ issued' = issued /\ live' \subseteq live
        /\ disabled' \subseteq Tenants /\ sessions' = sessions
    BY DEF Perform, IInv, TypeOK
  <1>2. req' = [req EXCEPT ![r] = Idle]
    BY DEF Perform, Answer
  <1>3. TokensMove
    BY <1>1 DEF TokensMove
  <1>4. ASSUME NEW s \in Requests
        PROVE  Knows(req[s])'
    <2>1. req'[s] = Idle \/ req'[s] = req[s]
      BY <1>2 DEF IInv, TypeOK
    <2>2. Knows(Idle)' /\ (\A q : Knows(q) => Knows(q)')
      BY <1>3, IdleFits, KnowsStays DEF IInv
    <2> QED
      BY <2>1, <2>2 DEF IInv, Knows
  <1> QED
    BY <1>1, <1>2, <1>4, IdleFits DEF IInv, TypeOK

LEMMA HandOutStep ==
  ASSUME IInv, HandOut, UNCHANGED <<disabled, sessions, req>>
  PROVE  IInv'
  <1>1. PICK t \in TokenIds \ issued : issued' = issued \cup {t} /\ live' = live \cup {t}
    BY DEF HandOut
  <1>2. TokensMove
    BY <1>1 DEF TokensMove
  <1>3. ASSUME NEW s \in Requests
        PROVE  Knows(req[s])'
    BY <1>2, KnowsStays DEF IInv, Knows
  <1> QED
    BY <1>1, <1>3 DEF IInv, TypeOK

LEMMA FrontEndStep == IInv /\ [Next]_vars => IInv'
  <1> SUFFICES ASSUME IInv, [Next]_vars PROVE IInv'
    OBVIOUS
  <1>1. ASSUME NEW r \in Requests, RefuseToken(r) \/ LeaveMcp(r)
        PROVE  IInv'
    BY <1>1, OnlyAnswered DEF RefuseToken, LeaveMcp
  <1>2. ASSUME NEW r \in Requests, OpenSession(r)
        PROVE  IInv'
    <2>1. PICK s \in SessionIds \ DOMAIN sessions :
            sessions' = [i \in DOMAIN sessions \cup {s} |->
                           IF i = s THEN req[r].token ELSE sessions[i]]
      BY <1>2 DEF OpenSession
    <2>2. req[r].token \in TokenIds
      BY <1>2 DEF IInv, TypeOK, Knows, OpenSession
    <2>3. req' \in [Requests -> Request] /\ \A q \in Requests : Knows(req[q])'
      BY <1>2, Answered DEF OpenSession
    <2> QED
      BY <1>2, <2>1, <2>2, <2>3 DEF OpenSession, IInv, TypeOK
  <1>3. ASSUME NEW r \in Requests, CloseSession(r)
        PROVE  IInv'
    <2>1. req' \in [Requests -> Request] /\ \A q \in Requests : Knows(req[q])'
      BY <1>3, Answered DEF CloseSession
    <2> QED
      BY <1>3, <2>1 DEF CloseSession, IInv, TypeOK
  <1>4. ASSUME NEW r \in Requests, HandleOAuthToken(r) \/ LocalSession(r)
        PROVE  IInv'
    BY <1>4, HandOutStep DEF HandleOAuthToken, LocalSession
  <1>5. CASE Restart
    BY <1>5, IdleFits DEF Restart, IInv, TypeOK, Knows
  <1>6. CASE UNCHANGED vars
    BY <1>6 DEF vars, IInv, TypeOK, Knows
  <1> QED
    BY <1>1, <1>2, <1>3, <1>4, <1>5, <1>6, ArriveStep, ReadTokenStep, CallRouteStep,
       EnterMcpStep, CallToolStep, CallStdioToolStep, PerformStep
       DEF Next

LEMMA FrontEndInvariant == Spec => []IInv
  <1>1. Init => IInv
    BY IdleFits, FrontEndAssumption DEF Init, IInv, TypeOK
  <1> QED
    BY <1>1, FrontEndStep, PTL DEF Spec

-----------------------------------------------------------------------------
(* The theorems *)

\* Requests, tokens, tenants and sessions always have their types.
THEOREM FrontEndTypes == Spec => []TypeOK
  <1>1. IInv => TypeOK
    BY DEF IInv
  <1> QED
    BY <1>1, FrontEndInvariant, PTL

\* An operation runs with the authority of the token its own request brought,
\* which was not revoked when the request arrived, whoever opened the session.
THEOREM OperationsRunAsTheirCallers == Spec => []RunsAsItsCaller
  <1>1. IInv => RunsAsItsCaller
    BY DEF IInv, Knows, RunsAsItsCaller, Running
  <1> QED
    BY <1>1, FrontEndInvariant, PTL

\* What runs, through a tool or a route, some route to the same operation
\* would have let the same context do.
THEOREM ToolsAskNoLess == Spec => []FrontEndsAgree
  <1>1. IInv => FrontEndsAgree
    BY DEF IInv, Knows, FrontEndsAgree, Running
  <1> QED
    BY <1>1, FrontEndInvariant, PTL

\* An operation that belongs to a duty runs only for a role of that duty.
THEOREM RolesSeparateDuties == Spec => []DutiesAreSeparated
  <1>1. ASSUME IInv, NEW r \in Requests, NEW duty \in Duties, Running(r),
               req[r].op \in duty[1]
        PROVE  req[r].context.roles \cap duty[2] # {}
    <2>1. PICK row \in Routes : row.op = req[r].op /\ MayCall(req[r].context, row)
      BY <1>1 DEF IInv, Knows, Running
    <2>2. row.roles # {} /\ row.roles \subseteq duty[2]
      BY <1>1, <2>1, RoutesKeepDuties
    <2>3. row.roles \cap req[r].context.roles # {}
      BY <2>1, <2>2 DEF MayCall, HasRole, AnyRole
    <2> QED
      BY <2>2, <2>3
  <1>2. IInv => DutiesAreSeparated
    BY <1>1 DEF DutiesAreSeparated
  <1> QED
    BY <1>2, FrontEndInvariant, PTL
=============================================================================
