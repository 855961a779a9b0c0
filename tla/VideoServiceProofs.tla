------------------------- MODULE VideoServiceProofs -------------------------
(***************************************************************************)
(* Proofs about VideoService for every set of requests, users, ids and     *)
(* titles, every set of environments and every bound.                      *)
(***************************************************************************)
EXTENDS VideoService, TLAPS

USE ServiceAssumption
USE DEF process, handler, server, history

\* A handler that returns leaves well-typed answers, because it had not
\* answered before.
LEMMA ReturnTypes ==
  ASSUME TypeOK, AnsweredOnce, NEW r \in Requests, NEW from, from # "done",
         NEW s \in Statuses, NEW w \in 0..1, Return(r, from, s, w)
  PROVE  /\ pc' \in [Requests -> Active \cup {"idle", "done", "aborted"}]
         /\ answer' \in [Requests -> Statuses \cup {0}]
         /\ writes' \in [Requests -> 0..1]
<1>1. writes[r] = 0 /\ pc[r] # "done"
  BY DEF TypeOK, AnsweredOnce, Return, Goto
<1>2. writes[r] + w \in 0..1
  BY <1>1
<1>3. QED
  BY <1>2 DEF TypeOK, Return, Goto

LEMMA FinishTypes ==
  ASSUME TypeOK, NEW r \in Requests, NEW v \in {"applied", "rejected"},
         Finish(r, v)
  PROVE  /\ backend' \in [Requests -> {"closed", "busy", "idle", "orphan"}]
         /\ using' \in [Requests -> Requests \cup {None}]
         /\ stmt' \in [Requests -> {"none", "sent", "applied", "rejected"}]
<1>1. stmt' \in [Requests -> {"none", "sent", "applied", "rejected"}]
  BY DEF Finish, TypeOK
<1>2. using' \in [Requests -> Requests \cup {None}]
  BY DEF Finish, TypeOK
<1>3. backend' \in [Requests -> {"closed", "busy", "idle", "orphan"}]
  BY DEF Finish, TypeOK
<1>4. QED
  BY <1>1, <1>2, <1>3

\* What a handler that got a result, or lost its connection, answers.
LEMMA ResultReturns ==
  ASSUME NEW r \in Requests, Result(r)
  PROVE  \E s \in Statuses, w \in 0..1 : Return(r, "exec", s, w)
<1>1. {200, 500} \subseteq Statuses
  BY DEF Statuses
<1>2. CASE stmt[r] = "rejected"
  <2>1. Return(r, "exec", 500, 1)
    BY <1>2 DEF Result
  <2>2. QED
    BY <1>1, <2>1
<1>3. CASE stmt[r] # "rejected"
  <2>1. PICK w \in 0..1 : Return(r, "exec", 200, w)
    BY <1>3 DEF Result
  <2>2. QED
    BY <1>1, <2>1
<1>4. QED
  BY <1>2, <1>3

\* Every step keeps the types.
LEMMA TypeInductive == TypeOK /\ AnsweredOnce /\ [Next]_vars => TypeOK'
<1> SUFFICES ASSUME TypeOK, AnsweredOnce, [Next]_vars PROVE TypeOK'
  OBVIOUS
<1>1. ASSUME NEW r \in Requests, Arrive(r) PROVE TypeOK'
  <2>1. call' \in [Requests -> Call \cup {NoCall}]
    BY <1>1 DEF Arrive, TypeOK
  <2>2. held' \in [Requests -> BOOLEAN]
    BY <1>1 DEF Arrive, TypeOK, Permitted
  <2>3. before' \in [Requests -> SUBSET Requests]
    BY <1>1 DEF Arrive, TypeOK, Acked
  <2>4. QED
    BY <1>1, <2>1, <2>2, <2>3 DEF Arrive, Goto, TypeOK, Active
<1>2. ASSUME NEW r \in Requests, FgaOff(r) PROVE TypeOK'
  BY <1>2 DEF FgaOff, Goto, TypeOK, Active
<1>3. ASSUME NEW r \in Requests, FgaError(r) PROVE TypeOK'
  <2>1. Return(r, "authorize", 500, 1)
    BY <1>3 DEF FgaError
  <2>2. 500 \in Statuses /\ 1 \in 0..1
    BY DEF Statuses
  <2>3. /\ pc' \in [Requests -> Active \cup {"idle", "done", "aborted"}]
        /\ answer' \in [Requests -> Statuses \cup {0}]
        /\ writes' \in [Requests -> 0..1]
    BY <2>1, <2>2, ReturnTypes
  <2>4. QED
    BY <1>3, <2>3 DEF FgaError, TypeOK
<1>4. ASSUME NEW r \in Requests, FgaAllow(r) PROVE TypeOK'
  BY <1>4 DEF FgaAllow, Goto, TypeOK, Active
<1>5. ASSUME NEW r \in Requests, FgaDeny(r) PROVE TypeOK'
  <2>1. Return(r, "authorize", 401, 1)
    BY <1>5 DEF FgaDeny
  <2>2. 401 \in Statuses /\ 1 \in 0..1
    BY DEF Statuses
  <2>3. /\ pc' \in [Requests -> Active \cup {"idle", "done", "aborted"}]
        /\ answer' \in [Requests -> Statuses \cup {0}]
        /\ writes' \in [Requests -> 0..1]
    BY <2>1, <2>2, ReturnTypes
  <2>4. QED
    BY <1>5, <2>3 DEF FgaDeny, TypeOK
<1>6. ASSUME NEW r \in Requests, FgaPanic(r) PROVE TypeOK'
  BY <1>6 DEF FgaPanic, Goto, TypeOK, Active
<1>7. ASSUME NEW r \in Requests, GetDBFails(r) PROVE TypeOK'
  <2>1. Return(r, "getDB", 400, 1)
    BY <1>7 DEF GetDBFails
  <2>2. 400 \in Statuses /\ 1 \in 0..1
    BY DEF Statuses
  <2>3. /\ pc' \in [Requests -> Active \cup {"idle", "done", "aborted"}]
        /\ answer' \in [Requests -> Statuses \cup {0}]
        /\ writes' \in [Requests -> 0..1]
    BY <2>1, <2>2, ReturnTypes
  <2>4. QED
    BY <1>7, <2>3 DEF GetDBFails, TypeOK
<1>8. ASSUME NEW r \in Requests, GetDB(r) PROVE TypeOK'
  <2>1. /\ db' \in [Requests -> Requests \cup {None}]
        /\ pools' \subseteq Requests
        /\ dbSession' = dbSession
    BY <1>8 DEF GetDB, Connect, TypeOK
  <2>2. NextStep(r) \in Active
    BY DEF NextStep, Active
  <2>3. pc' \in [Requests -> Active \cup {"idle", "done", "aborted"}]
    BY <1>8, <2>2 DEF GetDB, Goto, TypeOK
  <2>4. UNCHANGED <<env, up, restarts, call, answer, writes, server,
                    tuples, history>>
    BY <1>8 DEF GetDB
  <2>5. QED
    BY <2>1, <2>3, <2>4 DEF TypeOK
<1>9. ASSUME NEW r \in Requests, ValidationFails(r) PROVE TypeOK'
  <2>1. Return(r, "validate", 400, 1)
    BY <1>9 DEF ValidationFails
  <2>2. 400 \in Statuses /\ 1 \in 0..1
    BY DEF Statuses
  <2>3. /\ pc' \in [Requests -> Active \cup {"idle", "done", "aborted"}]
        /\ answer' \in [Requests -> Statuses \cup {0}]
        /\ writes' \in [Requests -> 0..1]
    BY <2>1, <2>2, ReturnTypes
  <2>4. QED
    BY <1>9, <2>3 DEF ValidationFails, TypeOK
<1>10. ASSUME NEW r \in Requests, Validate(r) PROVE TypeOK'
  BY <1>10 DEF Validate, Goto, TypeOK, Active
<1>11. ASSUME NEW r \in Requests, Query(r) PROVE TypeOK'
  <2>1. /\ using' \in [Requests -> Requests \cup {None}]
        /\ backend' \in [Requests -> {"closed", "busy", "idle", "orphan"}]
    BY <1>11 DEF Query, Spare, TypeOK
  <2>2. QED
    BY <1>11, <2>1 DEF Query, Goto, TypeOK, Active
<1>12. ASSUME NEW r \in Requests, QueryFails(r) PROVE TypeOK'
  <2>1. Return(r, "query", 500, 1)
    BY <1>12 DEF QueryFails
  <2>2. 500 \in Statuses /\ 1 \in 0..1
    BY DEF Statuses
  <2>3. /\ pc' \in [Requests -> Active \cup {"idle", "done", "aborted"}]
        /\ answer' \in [Requests -> Statuses \cup {0}]
        /\ writes' \in [Requests -> 0..1]
    BY <2>1, <2>2, ReturnTypes
  <2>4. QED
    BY <1>12, <2>3 DEF QueryFails, TypeOK
<1>13. ASSUME NEW r \in Requests, ServerSelects(r) PROVE TypeOK'
  BY <1>13, FinishTypes DEF ServerSelects, Finish, TypeOK
<1>14. ASSUME NEW r \in Requests, ServerInserts(r) PROVE TypeOK'
  BY <1>14, FinishTypes DEF ServerInserts, Finish, TypeOK
<1>15. ASSUME NEW r \in Requests, ServerRejects(r) PROVE TypeOK'
  BY <1>15, FinishTypes DEF ServerRejects, Finish, TypeOK
<1>16. ASSUME NEW r \in Requests, Result(r) PROVE TypeOK'
  <2>1. /\ using' \in [Requests -> Requests \cup {None}]
        /\ backend' \in [Requests -> {"closed", "busy", "idle", "orphan"}]
    BY <1>16 DEF Result, TypeOK
  <2>2. PICK s \in Statuses, w \in 0..1 : Return(r, "exec", s, w)
    BY <1>16, ResultReturns
  <2>3. /\ pc' \in [Requests -> Active \cup {"idle", "done", "aborted"}]
        /\ answer' \in [Requests -> Statuses \cup {0}]
        /\ writes' \in [Requests -> 0..1]
    BY <2>2, ReturnTypes
  <2>4. QED
    BY <1>16, <2>1, <2>3 DEF Result, TypeOK
<1>17. ASSUME NEW r \in Requests, ConnectionLost(r) PROVE TypeOK'
  <2>0. /\ using' \in [Requests -> Requests \cup {None}]
        /\ backend' \in [Requests -> {"closed", "busy", "idle", "orphan"}]
    BY <1>17 DEF ConnectionLost, TypeOK
  <2>1. Return(r, "exec", 500, 1)
    BY <1>17 DEF ConnectionLost
  <2>2. 500 \in Statuses /\ 1 \in 0..1
    BY DEF Statuses
  <2>3. /\ pc' \in [Requests -> Active \cup {"idle", "done", "aborted"}]
        /\ answer' \in [Requests -> Statuses \cup {0}]
        /\ writes' \in [Requests -> 0..1]
    BY <2>1, <2>2, ReturnTypes
  <2>4. QED
    BY <1>17, <2>0, <2>3 DEF ConnectionLost, TypeOK
<1>18. ASSUME NEW r \in Requests, Reap(r) PROVE TypeOK'
  BY <1>18 DEF Reap, TypeOK
<1>19. ASSUME up, Exit PROVE TypeOK'
  <2>1. using' \in [Requests -> Requests \cup {None}]
    BY <1>19 DEF Exit, TypeOK
  <2>2. backend' \in [Requests -> {"closed", "busy", "idle", "orphan"}]
    BY <1>19 DEF Exit, TypeOK
  <2>3. pc' \in [Requests -> Active \cup {"idle", "done", "aborted"}]
    BY <1>19 DEF Exit, TypeOK, Active
  <2>4. QED
    BY <1>19, <2>1, <2>2, <2>3 DEF Exit, TypeOK
<1>20. CASE Restart
  BY <1>20 DEF Restart, TypeOK
<1>21. CASE ChangeTuple
  BY <1>21 DEF ChangeTuple, TypeOK
<1>22. CASE UNCHANGED vars
  BY <1>22 DEF vars, TypeOK
<1>23. QED
  BY <1>1, <1>2, <1>3, <1>4, <1>5, <1>6, <1>7, <1>8, <1>9, <1>10, <1>11,
      <1>12, <1>13, <1>14, <1>15, <1>16, <1>17, <1>18, <1>19, <1>20, <1>21,
      <1>22
  DEF Next, fgaCheck, FgaFatal, CheckDB, Check, Ask, Serve, Kill

\* Nobody answers a request twice, and whoever ends a handler answers.
LEMMA AnsweredInductive ==
  TypeOK /\ AnsweredOnce /\ HandlerInv /\ [Next]_vars => AnsweredOnce'
<1> SUFFICES ASSUME TypeOK, AnsweredOnce, HandlerInv, [Next]_vars
             PROVE AnsweredOnce'
  OBVIOUS
<1> USE DEF TypeOK, AnsweredOnce, HandlerInv, Goto, Return
<1>1. ASSUME NEW r \in Requests, Arrive(r) PROVE AnsweredOnce'
  BY <1>1 DEF Arrive
<1>2. ASSUME NEW r \in Requests, FgaOff(r) PROVE AnsweredOnce'
  BY <1>2 DEF FgaOff
<1>3. ASSUME NEW r \in Requests, FgaError(r) PROVE AnsweredOnce'
  BY <1>3 DEF FgaError
<1>4. ASSUME NEW r \in Requests, FgaAllow(r) PROVE AnsweredOnce'
  BY <1>4 DEF FgaAllow
<1>5. ASSUME NEW r \in Requests, FgaDeny(r) PROVE AnsweredOnce'
  BY <1>5 DEF FgaDeny
<1>6. ASSUME NEW r \in Requests, FgaPanic(r) PROVE AnsweredOnce'
  BY <1>6 DEF FgaPanic
<1>7. ASSUME NEW r \in Requests, GetDBFails(r) PROVE AnsweredOnce'
  BY <1>7 DEF GetDBFails
<1>8. ASSUME NEW r \in Requests, GetDB(r) PROVE AnsweredOnce'
  BY <1>8 DEF GetDB, Connect, NextStep
<1>9. ASSUME NEW r \in Requests, ValidationFails(r) PROVE AnsweredOnce'
  BY <1>9 DEF ValidationFails
<1>10. ASSUME NEW r \in Requests, Validate(r) PROVE AnsweredOnce'
  BY <1>10 DEF Validate
<1>11. ASSUME NEW r \in Requests, Query(r) PROVE AnsweredOnce'
  BY <1>11 DEF Query
<1>12. ASSUME NEW r \in Requests, QueryFails(r) PROVE AnsweredOnce'
  BY <1>12 DEF QueryFails
<1>13. ASSUME NEW r \in Requests, ServerSelects(r) PROVE AnsweredOnce'
  BY <1>13 DEF ServerSelects, Finish
<1>14. ASSUME NEW r \in Requests, ServerInserts(r) PROVE AnsweredOnce'
  BY <1>14 DEF ServerInserts, Finish
<1>15. ASSUME NEW r \in Requests, ServerRejects(r) PROVE AnsweredOnce'
  BY <1>15 DEF ServerRejects, Finish
<1>16. ASSUME NEW r \in Requests, Result(r) PROVE AnsweredOnce'
  <2>1. call[r].kind \in {"get", "post"}
    BY <1>16 DEF Result, Call, NoCall, Active
  <2>2. CASE stmt[r] = "rejected"
    <3>1. Return(r, "exec", 500, 1) /\ UNCHANGED call
      BY <1>16, <2>2 DEF Result
    <3>2. QED
      BY <3>1
  <2>3. CASE stmt[r] # "rejected"
    BY <1>16, <2>1, <2>3 DEF Result
  <2>4. QED
    BY <2>2, <2>3
<1>17. ASSUME NEW r \in Requests, ConnectionLost(r) PROVE AnsweredOnce'
  BY <1>17 DEF ConnectionLost
<1>18. ASSUME NEW r \in Requests, Reap(r) PROVE AnsweredOnce'
  BY <1>18 DEF Reap
<1>19. ASSUME up, Exit PROVE AnsweredOnce'
  BY <1>19 DEF Exit, Active
<1>20. CASE Restart
  BY <1>20 DEF Restart
<1>21. CASE ChangeTuple
  BY <1>21 DEF ChangeTuple
<1>22. CASE UNCHANGED vars
  BY <1>22 DEF vars
<1>23. QED
  BY <1>1, <1>2, <1>3, <1>4, <1>5, <1>6, <1>7, <1>8, <1>9, <1>10, <1>11,
      <1>12, <1>13, <1>14, <1>15, <1>16, <1>17, <1>18, <1>19, <1>20, <1>21,
      <1>22
  DEF Next, fgaCheck, FgaFatal, CheckDB, Check, Ask, Serve, Kill

\* The handler's place tells what happened to its statement.
LEMMA HandlerInductive ==
  TypeOK /\ AnsweredOnce /\ HandlerInv /\ [Next]_vars => HandlerInv'
<1> SUFFICES ASSUME TypeOK, AnsweredOnce, HandlerInv, [Next]_vars
             PROVE HandlerInv'
  OBVIOUS
<1> USE DEF TypeOK, AnsweredOnce, HandlerInv, Goto, Return, Active, Unsent
<1>1. ASSUME NEW r \in Requests, Arrive(r) PROVE HandlerInv'
  BY <1>1 DEF Arrive, Call
<1>2. ASSUME NEW r \in Requests, FgaOff(r) PROVE HandlerInv'
  BY <1>2 DEF FgaOff
<1>3. ASSUME NEW r \in Requests, FgaError(r) PROVE HandlerInv'
  BY <1>3 DEF FgaError
<1>4. ASSUME NEW r \in Requests, FgaAllow(r) PROVE HandlerInv'
  BY <1>4 DEF FgaAllow
<1>5. ASSUME NEW r \in Requests, FgaDeny(r) PROVE HandlerInv'
  BY <1>5 DEF FgaDeny
<1>6. ASSUME NEW r \in Requests, FgaPanic(r) PROVE HandlerInv'
  BY <1>6 DEF FgaPanic
<1>7. ASSUME NEW r \in Requests, GetDBFails(r) PROVE HandlerInv'
  BY <1>7 DEF GetDBFails
<1>8. ASSUME NEW r \in Requests, GetDB(r) PROVE HandlerInv'
  BY <1>8 DEF GetDB, Connect, NextStep
<1>9. ASSUME NEW r \in Requests, ValidationFails(r) PROVE HandlerInv'
  BY <1>9 DEF ValidationFails
<1>10. ASSUME NEW r \in Requests, Validate(r) PROVE HandlerInv'
  BY <1>10 DEF Validate
<1>11. ASSUME NEW r \in Requests, Query(r) PROVE HandlerInv'
  BY <1>11 DEF Query
<1>12. ASSUME NEW r \in Requests, QueryFails(r) PROVE HandlerInv'
  BY <1>12 DEF QueryFails
<1>13. ASSUME NEW r \in Requests, ServerSelects(r) PROVE HandlerInv'
  BY <1>13 DEF ServerSelects, Finish
<1>14. ASSUME NEW r \in Requests, ServerInserts(r) PROVE HandlerInv'
  BY <1>14 DEF ServerInserts, Finish
<1>15. ASSUME NEW r \in Requests, ServerRejects(r) PROVE HandlerInv'
  BY <1>15 DEF ServerRejects, Finish
<1>16. ASSUME NEW r \in Requests, Result(r) PROVE HandlerInv'
  BY <1>16 DEF Result
<1>17. ASSUME NEW r \in Requests, ConnectionLost(r) PROVE HandlerInv'
  BY <1>17 DEF ConnectionLost
<1>18. ASSUME NEW r \in Requests, Reap(r) PROVE HandlerInv'
  BY <1>18 DEF Reap
<1>19. ASSUME up, Exit PROVE HandlerInv'
  BY <1>19 DEF Exit
<1>20. CASE Restart
  BY <1>20 DEF Restart
<1>21. CASE ChangeTuple
  BY <1>21 DEF ChangeTuple
<1>22. CASE UNCHANGED vars
  BY <1>22 DEF vars
<1>23. QED
  BY <1>1, <1>2, <1>3, <1>4, <1>5, <1>6, <1>7, <1>8, <1>9, <1>10, <1>11,
      <1>12, <1>13, <1>14, <1>15, <1>16, <1>17, <1>18, <1>19, <1>20, <1>21,
      <1>22
  DEF Next, fgaCheck, FgaFatal, CheckDB, Check, Ask, Serve, Kill

\* Whatever is sent to the server was allowed after the request arrived.
LEMMA AllowedInductive ==
  TypeOK /\ HandlerInv /\ AllowedInv /\ [Next]_vars => AllowedInv'
<1> SUFFICES ASSUME TypeOK, HandlerInv, AllowedInv, [Next]_vars
             PROVE AllowedInv'
  OBVIOUS
<1> USE DEF TypeOK, HandlerInv, AllowedInv, Goto, Return, Active,
     Permitted, FgaOn, Relation
<1>1. ASSUME NEW r \in Requests, Arrive(r) PROVE AllowedInv'
  <2> HIDE DEF Permitted, FgaOn, Relation
  <2>1. PICK c \in Call : /\ call' = [call EXCEPT ![r] = c]
                         /\ held' = [held EXCEPT ![r] = Permitted(c)]
    BY <1>1 DEF Arrive
  <2>2. stmt[r] = "none" /\ pc'[r] = "authorize"
    BY <1>1 DEF Arrive, Unsent
  <2>3. held'[r] = Permitted(c) /\ call'[r] = c
    BY <2>1 DEF TypeOK
  <2>4. Permitted(call[r])' => held'[r]
    BY <1>1, <2>3 DEF Arrive, Permitted, FgaOn
  <2>5. ASSUME NEW q \in Requests, q # r
        PROVE  /\ pc'[q] = pc[q] /\ stmt'[q] = stmt[q]
               /\ call'[q] = call[q] /\ held'[q] = held[q]
    BY <1>1, <2>1, <2>5 DEF Arrive, Goto, TypeOK
  <2>6. ASSUME NEW q \in Requests, q # r
        PROVE  Permitted(call[q])' <=> Permitted(call[q])
    BY <1>1, <2>5, <2>6 DEF Arrive, Permitted, FgaOn
  <2>7. QED
    BY <1>1, <2>2, <2>4, <2>5, <2>6 DEF Arrive, AllowedInv
<1>2. ASSUME NEW r \in Requests, FgaOff(r) PROVE AllowedInv'
  BY <1>2 DEF FgaOff
<1>3. ASSUME NEW r \in Requests, FgaError(r) PROVE AllowedInv'
  BY <1>3 DEF FgaError
<1>4. ASSUME NEW r \in Requests, FgaAllow(r) PROVE AllowedInv'
  BY <1>4 DEF FgaAllow
<1>5. ASSUME NEW r \in Requests, FgaDeny(r) PROVE AllowedInv'
  BY <1>5 DEF FgaDeny
<1>6. ASSUME NEW r \in Requests, FgaPanic(r) PROVE AllowedInv'
  BY <1>6 DEF FgaPanic
<1>7. ASSUME NEW r \in Requests, GetDBFails(r) PROVE AllowedInv'
  BY <1>7 DEF GetDBFails
<1>8. ASSUME NEW r \in Requests, GetDB(r) PROVE AllowedInv'
  BY <1>8 DEF GetDB, Connect, NextStep
<1>9. ASSUME NEW r \in Requests, ValidationFails(r) PROVE AllowedInv'
  BY <1>9 DEF ValidationFails
<1>10. ASSUME NEW r \in Requests, Validate(r) PROVE AllowedInv'
  BY <1>10 DEF Validate
<1>11. ASSUME NEW r \in Requests, Query(r) PROVE AllowedInv'
  BY <1>11 DEF Query
<1>12. ASSUME NEW r \in Requests, QueryFails(r) PROVE AllowedInv'
  BY <1>12 DEF QueryFails
<1>13. ASSUME NEW r \in Requests, ServerSelects(r) PROVE AllowedInv'
  BY <1>13 DEF ServerSelects, Finish
<1>14. ASSUME NEW r \in Requests, ServerInserts(r) PROVE AllowedInv'
  BY <1>14 DEF ServerInserts, Finish
<1>15. ASSUME NEW r \in Requests, ServerRejects(r) PROVE AllowedInv'
  BY <1>15 DEF ServerRejects, Finish
<1>16. ASSUME NEW r \in Requests, Result(r) PROVE AllowedInv'
  BY <1>16 DEF Result
<1>17. ASSUME NEW r \in Requests, ConnectionLost(r) PROVE AllowedInv'
  BY <1>17 DEF ConnectionLost
<1>18. ASSUME NEW r \in Requests, Reap(r) PROVE AllowedInv'
  BY <1>18 DEF Reap
<1>19. ASSUME up, Exit PROVE AllowedInv'
  BY <1>19 DEF Exit
<1>20. CASE Restart
  BY <1>20 DEF Restart
<1>21. CASE ChangeTuple
  BY <1>21 DEF ChangeTuple
<1>22. CASE UNCHANGED vars
  BY <1>22 DEF vars
<1>23. QED
  BY <1>1, <1>2, <1>3, <1>4, <1>5, <1>6, <1>7, <1>8, <1>9, <1>10, <1>11,
      <1>12, <1>13, <1>14, <1>15, <1>16, <1>17, <1>18, <1>19, <1>20, <1>21,
      <1>22
  DEF Next, fgaCheck, FgaFatal, CheckDB, Check, Ask, Serve, Kill

\* No statement with an empty id is sent.
LEMMA ArgumentInductive ==
  TypeOK /\ HandlerInv /\ ArgumentInv /\ [Next]_vars => ArgumentInv'
<1> SUFFICES ASSUME TypeOK, HandlerInv, ArgumentInv, [Next]_vars
             PROVE ArgumentInv'
  OBVIOUS
<1> USE DEF TypeOK, HandlerInv, ArgumentInv, Goto, Return, Active, Call,
     NoCall, Unsent
<1>1. ASSUME NEW r \in Requests, Arrive(r) PROVE ArgumentInv'
  BY <1>1 DEF Arrive
<1>2. ASSUME NEW r \in Requests, FgaOff(r) PROVE ArgumentInv'
  BY <1>2 DEF FgaOff
<1>3. ASSUME NEW r \in Requests, FgaError(r) PROVE ArgumentInv'
  BY <1>3 DEF FgaError
<1>4. ASSUME NEW r \in Requests, FgaAllow(r) PROVE ArgumentInv'
  BY <1>4 DEF FgaAllow
<1>5. ASSUME NEW r \in Requests, FgaDeny(r) PROVE ArgumentInv'
  BY <1>5 DEF FgaDeny
<1>6. ASSUME NEW r \in Requests, FgaPanic(r) PROVE ArgumentInv'
  BY <1>6 DEF FgaPanic
<1>7. ASSUME NEW r \in Requests, GetDBFails(r) PROVE ArgumentInv'
  BY <1>7 DEF GetDBFails
<1>8. ASSUME NEW r \in Requests, GetDB(r) PROVE ArgumentInv'
  BY <1>8 DEF GetDB, Connect, NextStep
<1>9. ASSUME NEW r \in Requests, ValidationFails(r) PROVE ArgumentInv'
  BY <1>9 DEF ValidationFails
<1>10. ASSUME NEW r \in Requests, Validate(r) PROVE ArgumentInv'
  BY <1>10 DEF Validate
<1>11. ASSUME NEW r \in Requests, Query(r) PROVE ArgumentInv'
  BY <1>11 DEF Query
<1>12. ASSUME NEW r \in Requests, QueryFails(r) PROVE ArgumentInv'
  BY <1>12 DEF QueryFails
<1>13. ASSUME NEW r \in Requests, ServerSelects(r) PROVE ArgumentInv'
  BY <1>13 DEF ServerSelects, Finish
<1>14. ASSUME NEW r \in Requests, ServerInserts(r) PROVE ArgumentInv'
  BY <1>14 DEF ServerInserts, Finish
<1>15. ASSUME NEW r \in Requests, ServerRejects(r) PROVE ArgumentInv'
  BY <1>15 DEF ServerRejects, Finish
<1>16. ASSUME NEW r \in Requests, Result(r) PROVE ArgumentInv'
  BY <1>16 DEF Result
<1>17. ASSUME NEW r \in Requests, ConnectionLost(r) PROVE ArgumentInv'
  BY <1>17 DEF ConnectionLost
<1>18. ASSUME NEW r \in Requests, Reap(r) PROVE ArgumentInv'
  BY <1>18 DEF Reap
<1>19. ASSUME up, Exit PROVE ArgumentInv'
  BY <1>19 DEF Exit
<1>20. CASE Restart
  BY <1>20 DEF Restart
<1>21. CASE ChangeTuple
  BY <1>21 DEF ChangeTuple
<1>22. CASE UNCHANGED vars
  BY <1>22 DEF vars
<1>23. QED
  BY <1>1, <1>2, <1>3, <1>4, <1>5, <1>6, <1>7, <1>8, <1>9, <1>10, <1>11,
      <1>12, <1>13, <1>14, <1>15, <1>16, <1>17, <1>18, <1>19, <1>20, <1>21,
      <1>22
  DEF Next, fgaCheck, FgaFatal, CheckDB, Check, Ask, Serve, Kill

\* The rows are exactly the inserts that took effect.
LEMMA RowInductive ==
  TypeOK /\ AnsweredOnce /\ HandlerInv /\ ArgumentInv /\ RowInv
    /\ [Next]_vars => RowInv'
<1> SUFFICES ASSUME TypeOK, AnsweredOnce, HandlerInv, ArgumentInv, RowInv,
                    [Next]_vars
             PROVE RowInv'
  OBVIOUS
<1> USE DEF TypeOK, AnsweredOnce, HandlerInv, ArgumentInv, RowInv, Goto,
     Return, Active, Unsent, Acked
<1>1. ASSUME NEW r \in Requests, Arrive(r) PROVE RowInv'
  BY <1>1 DEF Arrive
<1>2. ASSUME NEW r \in Requests, FgaOff(r) PROVE RowInv'
  BY <1>2 DEF FgaOff
<1>3. ASSUME NEW r \in Requests, FgaError(r) PROVE RowInv'
  BY <1>3 DEF FgaError
<1>4. ASSUME NEW r \in Requests, FgaAllow(r) PROVE RowInv'
  BY <1>4 DEF FgaAllow
<1>5. ASSUME NEW r \in Requests, FgaDeny(r) PROVE RowInv'
  BY <1>5 DEF FgaDeny
<1>6. ASSUME NEW r \in Requests, FgaPanic(r) PROVE RowInv'
  BY <1>6 DEF FgaPanic
<1>7. ASSUME NEW r \in Requests, GetDBFails(r) PROVE RowInv'
  BY <1>7 DEF GetDBFails
<1>8. ASSUME NEW r \in Requests, GetDB(r) PROVE RowInv'
  BY <1>8 DEF GetDB, Connect, NextStep
<1>9. ASSUME NEW r \in Requests, ValidationFails(r) PROVE RowInv'
  BY <1>9 DEF ValidationFails
<1>10. ASSUME NEW r \in Requests, Validate(r) PROVE RowInv'
  BY <1>10 DEF Validate
<1>11. ASSUME NEW r \in Requests, Query(r) PROVE RowInv'
  BY <1>11 DEF Query
<1>12. ASSUME NEW r \in Requests, QueryFails(r) PROVE RowInv'
  BY <1>12 DEF QueryFails
<1>13. ASSUME NEW r \in Requests, ServerSelects(r) PROVE RowInv'
  BY <1>13 DEF ServerSelects, Finish
<1>14. ASSUME NEW r \in Requests, ServerInserts(r) PROVE RowInv'
  BY <1>14 DEF ServerInserts, Finish
<1>15. ASSUME NEW r \in Requests, ServerRejects(r) PROVE RowInv'
  BY <1>15 DEF ServerRejects, Finish
<1>16. ASSUME NEW r \in Requests, Result(r) PROVE RowInv'
  BY <1>16 DEF Result
<1>17. ASSUME NEW r \in Requests, ConnectionLost(r) PROVE RowInv'
  <2>1. \A q \in Requests : q \in Acked <=> q \in Acked'
    <3>1. /\ pc[r] = "exec" /\ UNCHANGED call
          /\ answer' = [answer EXCEPT ![r] = 500]
      BY <1>17 DEF ConnectionLost
    <3>2. answer[r] = 0
      BY <3>1
    <3>3. answer[r] # 200 /\ answer'[r] # 200
      BY <3>1, <3>2
    <3>4. \A q \in Requests : answer[q] = 200 <=> answer'[q] = 200
      BY <3>1, <3>3
    <3>5. QED
      BY <3>1, <3>4
  <2>2. UNCHANGED <<call, rows, stmt, before>>
    BY <1>17 DEF ConnectionLost
  <2>3. QED
    BY <2>1, <2>2
<1>18. ASSUME NEW r \in Requests, Reap(r) PROVE RowInv'
  BY <1>18 DEF Reap
<1>19. ASSUME up, Exit PROVE RowInv'
  BY <1>19 DEF Exit
<1>20. CASE Restart
  BY <1>20 DEF Restart
<1>21. CASE ChangeTuple
  BY <1>21 DEF ChangeTuple
<1>22. CASE UNCHANGED vars
  BY <1>22 DEF vars
<1>23. QED
  BY <1>1, <1>2, <1>3, <1>4, <1>5, <1>6, <1>7, <1>8, <1>9, <1>10, <1>11,
      <1>12, <1>13, <1>14, <1>15, <1>16, <1>17, <1>18, <1>19, <1>20, <1>21,
      <1>22
  DEF Next, fgaCheck, FgaFatal, CheckDB, Check, Ask, Serve, Kill

\* Pools and connections stay private to their request.
LEMMA SessionInductive ==
  TypeOK /\ HandlerInv /\ SessionInv /\ [Next]_vars => SessionInv'
<1> SUFFICES ASSUME TypeOK, HandlerInv, SessionInv, [Next]_vars
             PROVE SessionInv'
  OBVIOUS
<1> USE DEF TypeOK, HandlerInv, SessionInv, Goto, Return, Active, Unsent
<1>1. ASSUME NEW r \in Requests, Arrive(r) PROVE SessionInv'
  BY <1>1 DEF Arrive
<1>2. ASSUME NEW r \in Requests, FgaOff(r) PROVE SessionInv'
  BY <1>2 DEF FgaOff
<1>3. ASSUME NEW r \in Requests, FgaError(r) PROVE SessionInv'
  BY <1>3 DEF FgaError
<1>4. ASSUME NEW r \in Requests, FgaAllow(r) PROVE SessionInv'
  BY <1>4 DEF FgaAllow
<1>5. ASSUME NEW r \in Requests, FgaDeny(r) PROVE SessionInv'
  BY <1>5 DEF FgaDeny
<1>6. ASSUME NEW r \in Requests, FgaPanic(r) PROVE SessionInv'
  BY <1>6 DEF FgaPanic
<1>7. ASSUME NEW r \in Requests, GetDBFails(r) PROVE SessionInv'
  BY <1>7 DEF GetDBFails
<1>8. ASSUME NEW r \in Requests, GetDB(r) PROVE SessionInv'
  BY <1>8 DEF GetDB, Connect, NextStep
<1>9. ASSUME NEW r \in Requests, ValidationFails(r) PROVE SessionInv'
  BY <1>9 DEF ValidationFails
<1>10. ASSUME NEW r \in Requests, Validate(r) PROVE SessionInv'
  BY <1>10 DEF Validate
<1>11. ASSUME NEW r \in Requests, Query(r) PROVE SessionInv'
  BY <1>11 DEF Query, Spare
<1>12. ASSUME NEW r \in Requests, QueryFails(r) PROVE SessionInv'
  BY <1>12 DEF QueryFails
<1>13. ASSUME NEW r \in Requests, ServerSelects(r) PROVE SessionInv'
  BY <1>13 DEF ServerSelects, Finish
<1>14. ASSUME NEW r \in Requests, ServerInserts(r) PROVE SessionInv'
  BY <1>14 DEF ServerInserts, Finish
<1>15. ASSUME NEW r \in Requests, ServerRejects(r) PROVE SessionInv'
  BY <1>15 DEF ServerRejects, Finish
<1>16. ASSUME NEW r \in Requests, Result(r) PROVE SessionInv'
  BY <1>16 DEF Result
<1>17. ASSUME NEW r \in Requests, ConnectionLost(r) PROVE SessionInv'
  BY <1>17 DEF ConnectionLost
<1>18. ASSUME NEW r \in Requests, Reap(r) PROVE SessionInv'
  BY <1>18 DEF Reap
<1>19. ASSUME up, Exit PROVE SessionInv'
  BY <1>19 DEF Exit
<1>20. CASE Restart
  BY <1>20 DEF Restart
<1>21. CASE ChangeTuple
  BY <1>21 DEF ChangeTuple
<1>22. CASE UNCHANGED vars
  BY <1>22 DEF vars
<1>23. QED
  BY <1>1, <1>2, <1>3, <1>4, <1>5, <1>6, <1>7, <1>8, <1>9, <1>10, <1>11,
      <1>12, <1>13, <1>14, <1>15, <1>16, <1>17, <1>18, <1>19, <1>20, <1>21,
      <1>22
  DEF Next, fgaCheck, FgaFatal, CheckDB, Check, Ask, Serve, Kill

\* A list contains what was acknowledged before its request arrived.
LEMMA ReadsInductive ==
  TypeOK /\ HandlerInv /\ RowInv /\ ReadsSeeAcked
    /\ [Next]_vars => ReadsSeeAcked'
<1> SUFFICES ASSUME TypeOK, HandlerInv, RowInv, ReadsSeeAcked, [Next]_vars
             PROVE ReadsSeeAcked'
  OBVIOUS
<1> USE DEF TypeOK, HandlerInv, RowInv, ReadsSeeAcked, Goto, Return,
     Active, Unsent, Acked
<1>1. ASSUME NEW r \in Requests, Arrive(r) PROVE ReadsSeeAcked'
  BY <1>1 DEF Arrive
<1>2. ASSUME NEW r \in Requests, FgaOff(r) PROVE ReadsSeeAcked'
  BY <1>2 DEF FgaOff
<1>3. ASSUME NEW r \in Requests, FgaError(r) PROVE ReadsSeeAcked'
  BY <1>3 DEF FgaError
<1>4. ASSUME NEW r \in Requests, FgaAllow(r) PROVE ReadsSeeAcked'
  BY <1>4 DEF FgaAllow
<1>5. ASSUME NEW r \in Requests, FgaDeny(r) PROVE ReadsSeeAcked'
  BY <1>5 DEF FgaDeny
<1>6. ASSUME NEW r \in Requests, FgaPanic(r) PROVE ReadsSeeAcked'
  BY <1>6 DEF FgaPanic
<1>7. ASSUME NEW r \in Requests, GetDBFails(r) PROVE ReadsSeeAcked'
  BY <1>7 DEF GetDBFails
<1>8. ASSUME NEW r \in Requests, GetDB(r) PROVE ReadsSeeAcked'
  BY <1>8 DEF GetDB, Connect, NextStep
<1>9. ASSUME NEW r \in Requests, ValidationFails(r) PROVE ReadsSeeAcked'
  BY <1>9 DEF ValidationFails
<1>10. ASSUME NEW r \in Requests, Validate(r) PROVE ReadsSeeAcked'
  BY <1>10 DEF Validate
<1>11. ASSUME NEW r \in Requests, Query(r) PROVE ReadsSeeAcked'
  BY <1>11 DEF Query
<1>12. ASSUME NEW r \in Requests, QueryFails(r) PROVE ReadsSeeAcked'
  BY <1>12 DEF QueryFails
<1>13. ASSUME NEW r \in Requests, ServerSelects(r) PROVE ReadsSeeAcked'
  BY <1>13 DEF ServerSelects, Finish
<1>14. ASSUME NEW r \in Requests, ServerInserts(r) PROVE ReadsSeeAcked'
  BY <1>14 DEF ServerInserts, Finish
<1>15. ASSUME NEW r \in Requests, ServerRejects(r) PROVE ReadsSeeAcked'
  BY <1>15 DEF ServerRejects, Finish
<1>16. ASSUME NEW r \in Requests, Result(r) PROVE ReadsSeeAcked'
  BY <1>16 DEF Result
<1>17. ASSUME NEW r \in Requests, ConnectionLost(r) PROVE ReadsSeeAcked'
  BY <1>17 DEF ConnectionLost
<1>18. ASSUME NEW r \in Requests, Reap(r) PROVE ReadsSeeAcked'
  BY <1>18 DEF Reap
<1>19. ASSUME up, Exit PROVE ReadsSeeAcked'
  BY <1>19 DEF Exit
<1>20. CASE Restart
  BY <1>20 DEF Restart
<1>21. CASE ChangeTuple
  BY <1>21 DEF ChangeTuple
<1>22. CASE UNCHANGED vars
  BY <1>22 DEF vars
<1>23. QED
  BY <1>1, <1>2, <1>3, <1>4, <1>5, <1>6, <1>7, <1>8, <1>9, <1>10, <1>11,
      <1>12, <1>13, <1>14, <1>15, <1>16, <1>17, <1>18, <1>19, <1>20, <1>21,
      <1>22
  DEF Next, fgaCheck, FgaFatal, CheckDB, Check, Ask, Serve, Kill
-----------------------------------------------------------------------------
\* The initial states satisfy the inductive invariant.
LEMMA InitInvariant == Init => IInv
<1> SUFFICES ASSUME Init PROVE IInv
  OBVIOUS
<1> USE DEF Init
<1>1. TypeOK
  BY DEF TypeOK, Call, NoCall, Active, Statuses
<1>2. AnsweredOnce /\ HandlerInv /\ AllowedInv /\ ArgumentInv
  BY DEF AnsweredOnce, HandlerInv, AllowedInv, ArgumentInv, NoCall, Active
<1>3. RowInv /\ SessionInv /\ ReadsSeeAcked
  BY DEF RowInv, SessionInv, ReadsSeeAcked, NoCall, Acked
<1>4. QED
  BY <1>1, <1>2, <1>3 DEF IInv

\* Every step preserves it.
LEMMA NextInvariant == IInv /\ [Next]_vars => IInv'
BY TypeInductive, AnsweredInductive, HandlerInductive, AllowedInductive,
   ArgumentInductive, RowInductive, SessionInductive, ReadsInductive
   DEF IInv

\* The inductive invariant holds in every reachable state.
THEOREM Invariant == Spec => []IInv
BY InitInvariant, NextInvariant, PTL DEF Spec

\* Every variable keeps its type; in particular no handler, getDB included,
\* writes a second response.
THEOREM TypeCorrect == Spec => []TypeOK
<1>1. IInv => TypeOK
  BY DEF IInv
<1>2. QED
  BY <1>1, Invariant, PTL

\* getDB answers exactly when its caller does not: a finished request has one
\* response, written once by getDB or the handler or, for a stored POST, sent
\* by net/http, whatever its handler returned from.
THEOREM AnsweredOnceCorrect == Spec => []AnsweredOnce
<1>1. IInv => AnsweredOnce
  BY DEF IInv
<1>2. QED
  BY <1>1, Invariant, PTL

\* Nobody takes away the row of an acknowledged POST: not a concurrent insert
\* of the same id, a crash, or a restart.
THEOREM AckedIsStoredCorrect == Spec => []AckedIsStored
<1>1. IInv => AckedIsStored
  BY DEF IInv, AckedIsStored, HandlerInv, RowInv, Acked
<1>2. QED
  BY <1>1, Invariant, PTL

\* A POST that was refused (400, 401) has no row and never gets one.
THEOREM RefusedNeverStoredCorrect == Spec => []RefusedNeverStored
<1>1. IInv => RefusedNeverStored
  BY DEF IInv, RefusedNeverStored, HandlerInv, RowInv
<1>2. QED
  BY <1>1, Invariant, PTL

\* No statement runs for a user who was not allowed at any time since the
\* request arrived.
THEOREM StatementWasAllowedCorrect == Spec => []StatementWasAllowed
<1>1. IInv => StatementWasAllowed
  BY DEF IInv, StatementWasAllowed, AllowedInv
<1>2. QED
  BY <1>1, Invariant, PTL

\* A list contains every row acknowledged before it was asked for.
THEOREM ReadsSeeAckedCorrect == Spec => []ReadsSeeAcked
<1>1. IInv => ReadsSeeAcked
  BY DEF IInv
<1>2. QED
  BY <1>1, Invariant, PTL

\* No open connection is forgotten: one request uses it, or a reaper will
\* close it.
THEOREM ConnectionsAccountedCorrect == Spec => []ConnectionsAccounted
<1>1. ASSUME IInv PROVE ConnectionsAccounted
  <2> USE <1>1 DEF IInv, SessionInv, TypeOK
  <2>1. \A r, s \in Requests : using[r] # None /\ using[r] = using[s] => r = s
    OBVIOUS
  <2>2. \A c \in Requests : backend[c] \in {"busy", "orphan"} <=>
                            \E r \in Requests : using[r] = c
    <3>1. ASSUME NEW c \in Requests, backend[c] \in {"busy", "orphan"}
          PROVE  using[c] = c
      BY <3>1
    <3>2. ASSUME NEW c \in Requests, NEW r \in Requests, using[r] = c
          PROVE  backend[c] \in {"busy", "orphan"}
      BY <3>2
    <3>3. QED
      BY <3>1, <3>2
  <2>3. \A c \in Requests : backend[c] = "idle" => db[c] \in pools
    OBVIOUS
  <2>4. QED
    BY <2>1, <2>2, <2>3 DEF ConnectionsAccounted
<1>2. QED
  BY <1>1, Invariant, PTL

\* No session is shared: dbSession is never assigned, so every request that
\* gets as far as getDB makes a pool and a connection of its own.
THEOREM SessionPrivate == Spec => []SessionInv
<1>1. IInv => SessionInv
  BY DEF IInv
<1>2. QED
  BY <1>1, Invariant, PTL
=============================================================================
