----------------------------- MODULE VideoStore -----------------------------
(***************************************************************************)
(* What the video endpoints promise to their clients, with every mechanism *)
(* (authorisation, connection pools, the process and its restarts) left    *)
(* out: a table keyed by video id, calls that insert one row or list the   *)
(* table, each taking effect at most once and atomically between its       *)
(* invocation and its reply.  A reply of success means the call took       *)
(* effect, a refusal (400, 401) means it never will, and an error (500) or *)
(* no reply at all promises nothing: the row may be there, may never be,   *)
(* or may still appear later.                                              *)
(***************************************************************************)
CONSTANTS
  Requests,   \* the calls clients make, each once
  Ids,        \* video ids
  Empty,      \* a query parameter that is absent
  None        \* no request

VARIABLES
  rows,       \* rows[i]: the call whose row has id i, or None
  op,         \* op[r]: what r asks for
  key,        \* key[r]: the id r inserts
  phase,      \* phase[r]: how far r has come
  effect,     \* effect[r]: whether r took effect on the table
  seen        \* seen[r]: the table r listed

storeVars == <<rows, op, key, phase, effect, seen>>

Replies == {"ok", "refused", "failed", "lost"}

StoreInit ==
  /\ rows = [i \in Ids |-> None]
  /\ op = [r \in Requests |-> "none"]
  /\ key = [r \in Requests |-> Empty]
  /\ phase = [r \in Requests |-> "idle"]
  /\ effect = [r \in Requests |-> FALSE]
  /\ seen = [r \in Requests |-> [i \in Ids |-> None]]

Invoke(r) ==
  /\ phase[r] = "idle"
  /\ phase' = [phase EXCEPT ![r] = "pending"]
  /\ \E o \in {"get", "post"}, k \in Ids \cup {Empty} :
       /\ op' = [op EXCEPT ![r] = o]
       /\ key' = [key EXCEPT ![r] = k]
  /\ UNCHANGED <<rows, effect, seen>>

\* An insert takes effect only on a free id, and also after an error or a
\* lost call; never once the call was answered ok or refused.
Insert(r) ==
  /\ phase[r] \in {"pending", "failed", "lost"}
  /\ op[r] = "post" /\ ~effect[r]
  /\ key[r] \in Ids /\ rows[key[r]] = None
  /\ rows' = [rows EXCEPT ![key[r]] = r]
  /\ effect' = [effect EXCEPT ![r] = TRUE]
  /\ UNCHANGED <<op, key, phase, seen>>

List(r) ==
  /\ phase[r] \in {"pending", "failed", "lost"}
  /\ op[r] = "get" /\ ~effect[r]
  /\ seen' = [seen EXCEPT ![r] = rows]
  /\ effect' = [effect EXCEPT ![r] = TRUE]
  /\ UNCHANGED <<rows, op, key, phase>>

Reply(r, reply) ==
  /\ phase[r] = "pending"
  /\ reply = "ok" => effect[r]
  /\ reply = "refused" => ~effect[r]
  /\ phase' = [phase EXCEPT ![r] = reply]
  /\ UNCHANGED <<rows, op, key, effect, seen>>

\* The process died: every pending call is lost at once.
LoseAll ==
  /\ phase' = [r \in Requests |->
                 IF phase[r] = "pending" THEN "lost" ELSE phase[r]]
  /\ UNCHANGED <<rows, op, key, effect, seen>>

StoreNext ==
  \/ \E r \in Requests : Invoke(r) \/ Insert(r) \/ List(r)
  \/ \E r \in Requests, reply \in Replies : Reply(r, reply)
  \/ LoseAll

StoreSpec == StoreInit /\ [][StoreNext]_storeVars
=============================================================================
