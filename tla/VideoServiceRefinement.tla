----------------------- MODULE VideoServiceRefinement -----------------------
(***************************************************************************)
(* VideoService implements VideoStore, for every value of the constants:   *)
(* the initial states map to initial states of the store and every step    *)
(* maps to one step of the store or to none.                               *)
(***************************************************************************)
EXTENDS VideoServiceProofs

USE ServiceAssumption
USE DEF process, handler, server, history

\* A step that moves no request to another phase, and takes no effect on the
\* table, is a stuttering step of the store.
LEMMA StutterMaps ==
  ASSUME TypeOK, TypeOK', UNCHANGED <<call, rows, seen>>,
         \A q \in Requests : PhaseOf(q)' = PhaseOf(q),
         \A q \in Requests : stmt'[q] = "applied" <=> stmt[q] = "applied"
  PROVE  UNCHANGED Store!storeVars
BY DEF Store!storeVars, TypeOK

\* A step of a handler that neither answers nor dies keeps every phase.
LEMMA GotoMaps ==
  ASSUME TypeOK, TypeOK', NEW r \in Requests, NEW from \in Active,
         NEW to \in Active, Goto(r, from, to),
         UNCHANGED <<call, answer, rows, seen>>,
         \A q \in Requests : stmt'[q] = "applied" <=> stmt[q] = "applied"
  PROVE  UNCHANGED Store!storeVars
<1>1. \A q \in Requests : PhaseOf(q)' = PhaseOf(q)
  BY DEF PhaseOf, Goto, TypeOK, Active
<1>2. QED
  BY <1>1, StutterMaps

\* The handler of r ends, with an answer the store allows.
LEMMA ReturnMaps ==
  ASSUME TypeOK, TypeOK', NEW r \in Requests, NEW from \in Active,
         NEW s \in Statuses, NEW w, Return(r, from, s, w),
         UNCHANGED <<call, rows, stmt, seen>>,
         s = 200 => stmt[r] = "applied",
         s \in {400, 401} => stmt[r] # "applied"
  PROVE  Store!StoreNext
<1>1. PICK reply : reply = PhaseOf(r)'
  OBVIOUS
<1>2. /\ PhaseOf(r) = "pending" /\ reply \in Store!Replies
      /\ reply = "ok" => s = 200
      /\ reply = "refused" => s \in {400, 401}
  BY <1>1 DEF PhaseOf, Return, Goto, TypeOK, Active, Statuses, Store!Replies
<1>3. \A q \in Requests : q # r => PhaseOf(q)' = PhaseOf(q)
  BY DEF PhaseOf, Return, Goto, TypeOK
<1>4. [q \in Requests |-> PhaseOf(q)']
        = [[q \in Requests |-> PhaseOf(q)] EXCEPT ![r] = reply]
  BY <1>1, <1>3
<1>5. /\ reply = "ok" => [q \in Requests |-> stmt[q] = "applied"][r]
      /\ reply = "refused" => ~[q \in Requests |-> stmt[q] = "applied"][r]
  <2>1. [q \in Requests |-> stmt[q] = "applied"][r] <=> stmt[r] = "applied"
    BY Zenon
  <2>2. QED
    BY <1>2, <2>1
<1>6. UNCHANGED <<call, rows, stmt, seen>>
  OBVIOUS
<1>7. Store!Reply(r, reply)
  BY <1>2, <1>4, <1>5, <1>6 DEF Store!Reply
<1>8. QED
  BY <1>2, <1>7 DEF Store!StoreNext

\* The server lets the statement of r take effect.
LEMMA EffectMaps ==
  ASSUME IInv, TypeOK', NEW r \in Requests, stmt[r] = "sent",
         stmt' = [stmt EXCEPT ![r] = "applied"], UNCHANGED handler
  PROVE  /\ PhaseOf(r) \in {"pending", "failed", "lost"}
         /\ \A q \in Requests : PhaseOf(q)' = PhaseOf(q)
         /\ [q \in Requests |-> stmt'[q] = "applied"]
              = [[q \in Requests |-> stmt[q] = "applied"] EXCEPT ![r] = TRUE]
<1>1. PhaseOf(r) \in {"pending", "failed", "lost"}
  BY DEF PhaseOf, IInv, TypeOK, HandlerInv, Unsent, Active, Statuses
<1>2. \A q \in Requests : PhaseOf(q)' = PhaseOf(q)
  BY DEF PhaseOf
<1>3. [q \in Requests |-> stmt'[q] = "applied"]
        = [[q \in Requests |-> stmt[q] = "applied"] EXCEPT ![r] = TRUE]
  BY DEF IInv, TypeOK
<1>4. QED
  BY <1>1, <1>2, <1>3

\* The initial states of the service are initial states of the store.
LEMMA InitRefines == Init => Store!StoreInit
<1> SUFFICES ASSUME Init PROVE Store!StoreInit
  OBVIOUS
<1>1. \A r \in Requests : /\ PhaseOf(r) = "idle"
                          /\ call[r].kind = "none" /\ call[r].id = Empty
                          /\ ~(stmt[r] = "applied")
  BY DEF Init, PhaseOf, NoCall, Active
<1>2. QED
  BY <1>1 DEF Init, Store!StoreInit

\* Every step of the service is a step of the store or none.
LEMMA NextRefines ==
  IInv /\ IInv' /\ [Next]_vars => [Store!StoreNext]_(Store!storeVars)
<1> SUFFICES ASSUME IInv, IInv', [Next]_vars
             PROVE  Store!StoreNext \/ UNCHANGED Store!storeVars
  OBVIOUS
<1> USE DEF IInv
<1>1. ASSUME NEW r \in Requests, Arrive(r) PROVE Store!Invoke(r)
  <2>1. PICK c \in Call : call' = [call EXCEPT ![r] = c]
    BY <1>1 DEF Arrive
  <2>2. c.kind \in {"get", "post"} /\ c.id \in Ids \cup {Empty}
    BY DEF Call
  <2>3. PhaseOf(r) = "idle" /\ PhaseOf(r)' = "pending"
    BY <1>1 DEF Arrive, Goto, PhaseOf, Active, TypeOK
  <2>4. ASSUME NEW q \in Requests, q # r
        PROVE  PhaseOf(q)' = PhaseOf(q) /\ call'[q] = call[q]
    BY <1>1, <2>1, <2>4 DEF Arrive, Goto, PhaseOf, TypeOK
  <2>5. call'[r] = c
    BY <2>1 DEF TypeOK
  <2>6. /\ [q \in Requests |-> PhaseOf(q)']
             = [[q \in Requests |-> PhaseOf(q)] EXCEPT ![r] = "pending"]
        /\ [q \in Requests |-> call'[q].kind]
             = [[q \in Requests |-> call[q].kind] EXCEPT ![r] = c.kind]
        /\ [q \in Requests |-> call'[q].id]
             = [[q \in Requests |-> call[q].id] EXCEPT ![r] = c.id]
    BY <2>3, <2>4, <2>5
  <2>7. UNCHANGED <<rows, stmt, seen>>
    BY <1>1 DEF Arrive
  <2>8. QED
    BY <2>2, <2>3, <2>6, <2>7 DEF Store!Invoke
<1>2. ASSUME NEW r \in Requests, ServerSelects(r) PROVE Store!List(r)
  <2>1. /\ stmt[r] = "sent" /\ stmt' = [stmt EXCEPT ![r] = "applied"]
        /\ UNCHANGED handler
    BY <1>2 DEF ServerSelects, Finish
  <2>2. /\ call[r].kind = "get" /\ seen' = [seen EXCEPT ![r] = rows]
        /\ rows' = rows
    BY <1>2 DEF ServerSelects
  <2>3. QED
    BY <2>1, <2>2, EffectMaps DEF Store!List
<1>3. ASSUME NEW r \in Requests, ServerInserts(r) PROVE Store!Insert(r)
  <2>1. /\ stmt[r] = "sent" /\ stmt' = [stmt EXCEPT ![r] = "applied"]
        /\ UNCHANGED handler
    BY <1>3 DEF ServerInserts, Finish
  <2>2. /\ call[r].kind = "post" /\ rows[call[r].id] = None
        /\ rows' = [rows EXCEPT ![call[r].id] = r] /\ seen' = seen
    BY <1>3 DEF ServerInserts
  <2>3. call[r].id \in Ids
    BY <2>1, <2>2 DEF ArgumentInv
  <2>4. QED
    BY <2>1, <2>2, <2>3, EffectMaps DEF Store!Insert

<1>4. ASSUME NEW r \in Requests, ServerRejects(r)
      PROVE  UNCHANGED Store!storeVars
  <2>1. \A q \in Requests : PhaseOf(q)' = PhaseOf(q)
    BY <1>4 DEF ServerRejects, Finish, PhaseOf
  <2>2. \A q \in Requests : stmt'[q] = "applied" <=> stmt[q] = "applied"
    BY <1>4 DEF ServerRejects, Finish, TypeOK
  <2>3. UNCHANGED <<call, rows, seen>>
    BY <1>4 DEF ServerRejects, Finish
  <2>4. QED
    BY <2>1, <2>2, <2>3, StutterMaps
<1>5. ASSUME NEW r \in Requests,
             FgaOff(r) \/ FgaAllow(r) \/ GetDB(r) \/ Validate(r) \/ Query(r)
      PROVE  UNCHANGED Store!storeVars
  <2>1. PICK from \in Active, to \in Active : Goto(r, from, to)
    <3>1. NextStep(r) \in Active
      BY DEF NextStep, Active
    <3>2. {"authorize", "getDB", "validate", "query", "exec"} \subseteq Active
      BY DEF Active
    <3>3. QED
      BY <1>5, <3>1, <3>2 DEF FgaOff, FgaAllow, GetDB, Validate, Query
  <2>2. UNCHANGED <<call, answer, rows, seen>>
    BY <1>5 DEF FgaOff, FgaAllow, GetDB, Validate, Query
  <2>3. \A q \in Requests : stmt'[q] = "applied" <=> stmt[q] = "applied"
    BY <1>5 DEF FgaOff, FgaAllow, GetDB, Validate, Query, Goto, TypeOK,
                HandlerInv, Unsent
  <2>4. QED
    BY <2>1, <2>2, <2>3, GotoMaps
<1>6. ASSUME NEW r \in Requests,
             FgaError(r) \/ FgaDeny(r) \/ GetDBFails(r) \/ ValidationFails(r)
             \/ QueryFails(r) \/ ConnectionLost(r) \/ Result(r)
      PROVE  Store!StoreNext
  <2>1. PICK from \in Active, s \in Statuses, w \in 0..1 :
          /\ Return(r, from, s, w)
          /\ s = 200 => stmt[r] = "applied"
          /\ s \in {400, 401} => stmt[r] # "applied"
    <3>1. /\ {"authorize", "getDB", "validate", "query", "exec"}
               \subseteq Active
          /\ {200, 400, 401, 500} \subseteq Statuses
          /\ {0, 1} \subseteq 0..1
      BY DEF Active, Statuses
    <3>2. CASE Result(r)
      <4>1. CASE stmt[r] = "rejected"
        <5>1. Return(r, "exec", 500, 1)
          BY <3>2, <4>1 DEF Result
        <5>2. QED
          BY <3>1, <5>1
      <4>2. CASE stmt[r] # "rejected"
        <5>1. (\E w \in 0..1 : Return(r, "exec", 200, w)) /\ stmt[r] = "applied"
          BY <3>1, <3>2, <4>2 DEF Result
        <5>2. QED
          BY <3>1, <5>1
      <4>3. QED
        BY <4>1, <4>2
    <3>3. CASE FgaError(r) \/ QueryFails(r) \/ ConnectionLost(r)
      BY <3>1, <3>3 DEF FgaError, QueryFails, ConnectionLost
    <3>4. CASE FgaDeny(r)
      <4>1. Return(r, "authorize", 401, 1)
        BY <3>4 DEF FgaDeny
      <4>2. stmt[r] = "none"
        BY <4>1 DEF Return, Goto, HandlerInv, Unsent
      <4>3. QED
        BY <3>1, <4>1, <4>2
    <3>5. CASE GetDBFails(r) \/ ValidationFails(r)
      BY <3>1, <3>5 DEF GetDBFails, ValidationFails, Return, Goto, HandlerInv,
                        Unsent
    <3>6. QED
      BY <1>6, <3>2, <3>3, <3>4, <3>5
  <2>2. UNCHANGED <<call, rows, stmt, seen>>
    BY <1>6 DEF FgaError, FgaDeny, GetDBFails, ValidationFails, QueryFails,
                ConnectionLost, Result
  <2>3. QED
    BY <2>1, <2>2, ReturnMaps
<1>7. ASSUME NEW r \in Requests, FgaPanic(r) PROVE Store!Reply(r, "lost")
  <2>1. PhaseOf(r) = "pending" /\ PhaseOf(r)' = "lost"
    BY <1>7 DEF FgaPanic, Goto, PhaseOf, Active, TypeOK
  <2>2. \A q \in Requests : q # r => PhaseOf(q)' = PhaseOf(q)
    BY <1>7 DEF FgaPanic, Goto, PhaseOf, TypeOK
  <2>3. UNCHANGED <<call, rows, stmt, seen>>
    BY <1>7 DEF FgaPanic
  <2>4. [q \in Requests |-> PhaseOf(q)']
          = [[q \in Requests |-> PhaseOf(q)] EXCEPT ![r] = "lost"]
    BY <2>1, <2>2
  <2>5. QED
    BY <2>1, <2>3, <2>4 DEF Store!Reply
<1>8. ASSUME Exit PROVE Store!LoseAll
  <2>1. \A q \in Requests :
          PhaseOf(q)' = IF PhaseOf(q) = "pending" THEN "lost" ELSE PhaseOf(q)
    BY <1>8 DEF Exit, PhaseOf, Active, TypeOK
  <2>2. UNCHANGED <<call, rows, stmt, seen>>
    BY <1>8 DEF Exit
  <2>3. QED
    BY <2>1, <2>2 DEF Store!LoseAll
<1>9. ASSUME (\E r \in Requests : Reap(r)) \/ Restart \/ ChangeTuple
             \/ UNCHANGED vars
      PROVE  UNCHANGED Store!storeVars
  <2>1. UNCHANGED <<pc, call, answer, rows, stmt, seen>>
    BY <1>9 DEF Reap, Restart, ChangeTuple, vars
  <2>2. \A q \in Requests : PhaseOf(q)' = PhaseOf(q)
    BY <2>1 DEF PhaseOf
  <2>3. QED
    BY <2>1, <2>2, StutterMaps
<1>10. "lost" \in Store!Replies
  BY DEF Store!Replies
<1>11. QED
  BY <1>1, <1>2, <1>3, <1>4, <1>5, <1>6, <1>7, <1>8, <1>9, <1>10
  DEF Next, fgaCheck, FgaFatal, CheckDB, Check, Ask, Serve, Kill,
      Store!StoreNext

\* What the clients of the service observe is what VideoStore promises.
THEOREM Refinement == Spec => StoreRefined
BY Invariant, InitRefines, NextRefines, PTL
   DEF Spec, StoreRefined, Store!StoreSpec
=============================================================================
