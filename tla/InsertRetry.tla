----------------------------- MODULE InsertRetry -----------------------------
(***************************************************************************)
(* insert_with_retry (ingestion/app/pipeline.py) over EventDatabase         *)
(* (ingestion/app/database.py): the processes that write to raw.events, one *)
(* transaction per attempt on a connection that may break at any point,     *)
(* with a fresh connection before each further attempt.                     *)
(*                                                                          *)
(* PostgreSQL is external: sessions, transactions, the primary key, and a   *)
(* session whose client is gone, which ends on its own.                     *)
(***************************************************************************)
EXTENDS Integers, FiniteSets

CONSTANTS
    Clients,    \* ingestion and retry processes
    Ids,        \* event_ids
    Refused,    \* those whose rows PostgreSQL refuses
    NoId,
    Sessions,   \* bound: server sessions alive at once
    NoSession,  \* a connection known to be broken
    Attempts,   \* DB_RETRY_ATTEMPTS
    MaxFaults   \* bound: faults of a behaviour

ASSUME InsertAssumption ==
    /\ Refused \subseteq Ids
    /\ NoId \notin Ids
    /\ NoSession \notin Sessions
    /\ Attempts \in Nat \ {0}
    /\ MaxFaults \in Nat

VARIABLES
    \* a client
    pc,         \* where insert_with_retry is; "stopped": the process ended
    want,       \* the event_id of the call
    attempt,    \* its attempt number
    inserted,   \* rowcount = 1
    answer,     \* what the last call returned
    conn,       \* _conn: the session at the other end
    \* PostgreSQL
    tx,         \* state of each session's transaction
    lock,       \* the event_id a session has inserted and not committed
    asked,      \* a COMMIT is on the wire of a session that lost its client
    rows,       \* event_ids committed to raw.events
    dbUp,
    \* no code keeps these
    faults,     \* faults so far
    credited    \* event_ids some call reported as freshly inserted

clientVars == <<pc, want, attempt, inserted, answer, conn>>
serverVars == <<tx, lock, asked, rows, dbUp>>
ghostVars  == <<faults, credited>>
vars == <<clientVars, serverVars, ghostVars>>

TypeOK ==
    /\ pc \in [Clients -> {"idle", "execute", "commit", "reconnect", "stopped"}]
    /\ want \in [Clients -> Ids \cup {NoId}]
    /\ attempt \in [Clients -> 0 .. Attempts]
    /\ inserted \in [Clients -> BOOLEAN]
    /\ answer \in [Clients -> {"none", "true", "false"}]
    /\ conn \in [Clients -> Sessions \cup {NoSession}]
    /\ tx \in [Sessions -> {"closed", "idle", "open", "aborted"}]
    /\ lock \in [Sessions -> Ids \cup {NoId}]
    /\ asked \in [Sessions -> BOOLEAN]
    /\ rows \subseteq Ids
    /\ dbUp \in BOOLEAN
    /\ faults \in 0 .. MaxFaults
    /\ credited \subseteq Ids

Init ==
    /\ pc = [c \in Clients |-> "stopped"]
    /\ want = [c \in Clients |-> NoId]
    /\ attempt = [c \in Clients |-> 0]
    /\ inserted = [c \in Clients |-> FALSE]
    /\ answer = [c \in Clients |-> "none"]
    /\ conn = [c \in Clients |-> NoSession]
    /\ tx = [s \in Sessions |-> "closed"]
    /\ lock = [s \in Sessions |-> NoId]
    /\ asked = [s \in Sessions |-> FALSE]
    /\ rows = {}
    /\ dbUp = TRUE
    /\ faults = 0
    /\ credited = {}

Fault == faults < MaxFaults /\ faults' = faults + 1

Orphans == { s \in Sessions : tx[s] # "closed" /\ \A c \in Clients : conn[c] # s }

-----------------------------------------------------------------------------
(* psycopg2.connect: a new session, or an exception that leaves _conn closed. *)
Connect(c) ==
    \/ /\ dbUp
       /\ \E s \in Sessions :
             /\ tx[s] = "closed"
             /\ tx' = [tx EXCEPT ![s] = "idle"]
             /\ conn' = [conn EXCEPT ![c] = s]
    \/ /\ ~dbUp
       /\ conn' = [conn EXCEPT ![c] = NoSession]
       /\ UNCHANGED tx

(* A process starts, or starts again. *)
Start(c) ==
    /\ pc[c] = "stopped"
    /\ dbUp
    /\ Connect(c)
    /\ pc' = [pc EXCEPT ![c] = "idle"]
    /\ UNCHANGED <<want, attempt, inserted, answer, lock, asked, rows, dbUp, ghostVars>>

(* insert_with_retry is called with the event id. *)
Call(c, id) ==
    /\ pc[c] = "idle"
    /\ pc' = [pc EXCEPT ![c] = "execute"]
    /\ want' = [want EXCEPT ![c] = id]
    /\ attempt' = [attempt EXCEPT ![c] = 1]
    /\ answer' = [answer EXCEPT ![c] = "none"]
    /\ UNCHANGED <<inserted, conn, serverVars, ghostVars>>

(* The INSERT waits for another session that has inserted the same key. *)
Free(s, id) == \A t \in Sessions \ {s} : lock[t] # id

(* ON CONFLICT (event_id) DO NOTHING *)
Statement(s, id) ==
    /\ Free(s, id)
    /\ tx' = [tx EXCEPT ![s] = "open"]
    /\ lock' = [lock EXCEPT ![s] = IF id \in rows THEN NoId ELSE id]

(* cur.execute(INSERT_SQL) and cur.rowcount == 1 *)
AlwaysFresh(c) == TRUE                        \* mutant: rowcount not looked at
RowIsNew(c) == want[c] \notin rows

Execute(c) ==
    /\ pc[c] = "execute"
    /\ conn[c] # NoSession
    /\ tx[conn[c]] = "idle"
    /\ want[c] \notin Refused
    /\ Statement(conn[c], want[c])
    /\ inserted' = [inserted EXCEPT ![c] = RowIsNew(c)]
    /\ pc' = [pc EXCEPT ![c] = "commit"]
    /\ UNCHANGED <<want, attempt, answer, conn, asked, rows, dbUp, ghostVars>>

(* conn.commit(): the call returns whether the row is new. *)
NotStored(s) == rows                          \* mutant: no conn.commit()
Stored(s) == rows \cup ({lock[s]} \ {NoId})

Returns(c) ==
    /\ pc' = [pc EXCEPT ![c] = "idle"]
    /\ answer' = [answer EXCEPT ![c] = IF inserted[c] THEN "true" ELSE "false"]
    /\ credited' = IF inserted[c] THEN credited \cup {want[c]} ELSE credited
    /\ UNCHANGED <<want, attempt, inserted, conn>>

Commit(c) ==
    /\ pc[c] = "commit"
    /\ conn[c] # NoSession
    /\ rows' = Stored(conn[c])
    /\ tx' = [tx EXCEPT ![conn[c]] = "idle"]
    /\ lock' = [lock EXCEPT ![conn[c]] = NoId]
    /\ Returns(c)
    /\ UNCHANGED <<asked, dbUp, faults>>

(* except Exception: try again, or return None, after which main() and       *)
(* retry_main() close the connection and end.                                *)
MayRetry(c) == attempt[c] < Attempts

Raises(c, connection) ==
    /\ pc' = [pc EXCEPT ![c] = IF MayRetry(c) THEN "reconnect" ELSE "stopped"]
    /\ conn' = [conn EXCEPT ![c] = IF MayRetry(c) THEN connection ELSE NoSession]
    /\ UNCHANGED <<want, attempt, inserted, answer>>

(* The link breaks: the server may have seen the statement, or the COMMIT. *)
LinkBreaks(c) ==
    /\ pc[c] \in {"execute", "commit"}
    /\ conn[c] # NoSession
    /\ Fault
    /\ \/ UNCHANGED <<tx, lock, asked>>
       \/ /\ pc[c] = "execute"
          /\ tx[conn[c]] = "idle"
          /\ want[c] \notin Refused
          /\ Statement(conn[c], want[c])
          /\ UNCHANGED asked
       \/ /\ pc[c] = "commit"
          /\ asked' = [asked EXCEPT ![conn[c]] = TRUE]
          /\ UNCHANGED <<tx, lock>>
    /\ Raises(c, NoSession)
    /\ UNCHANGED <<rows, dbUp, credited>>

(* The server answers with an error, and the transaction is aborted: it      *)
(* refuses everything further.                                               *)
Doomed(c) == want[c] \in Refused \/ tx[conn[c]] = "aborted"

StatementFails(c) ==
    /\ pc[c] = "execute"
    /\ conn[c] # NoSession
    /\ (Doomed(c) /\ UNCHANGED faults) \/ Fault
    /\ tx' = [tx EXCEPT ![conn[c]] = "aborted"]
    /\ Raises(c, conn[c])
    /\ UNCHANGED <<lock, asked, rows, dbUp, credited>>

CommitFails(c) ==
    /\ pc[c] = "commit"
    /\ conn[c] # NoSession
    /\ Fault
    /\ tx' = [tx EXCEPT ![conn[c]] = "idle"]
    /\ lock' = [lock EXCEPT ![conn[c]] = NoId]
    /\ Raises(c, conn[c])
    /\ UNCHANGED <<asked, rows, dbUp, credited>>

(* _conn is closed already. *)
UseBroken(c) ==
    /\ pc[c] \in {"execute", "commit"}
    /\ conn[c] = NoSession
    /\ Raises(c, NoSession)
    /\ UNCHANGED <<serverVars, ghostVars>>

(* db.reconnect(): close whatever there is, connect, next attempt. *)
SameConnection(c) ==                          \* mutant: reconnects only when closed
    IF conn[c] = NoSession THEN Connect(c) ELSE UNCHANGED <<conn, tx>>
FreshConnection(c) == Connect(c)

SameAttempt(c) == attempt[c]                  \* mutant: never runs out of attempts
NextAttempt(c) == attempt[c] + 1

Reconnect(c) ==
    /\ pc[c] = "reconnect"
    /\ FreshConnection(c)
    /\ pc' = [pc EXCEPT ![c] = "execute"]
    /\ attempt' = [attempt EXCEPT ![c] = NextAttempt(c)]
    /\ UNCHANGED <<want, inserted, answer, lock, asked, rows, dbUp, ghostVars>>

(* SIGKILL *)
Dies(c) ==
    /\ pc[c] # "stopped"
    /\ Fault
    /\ pc' = [pc EXCEPT ![c] = "stopped"]
    /\ conn' = [conn EXCEPT ![c] = NoSession]
    /\ \/ UNCHANGED asked
       \/ /\ pc[c] = "commit" /\ conn[c] # NoSession
          /\ asked' = [asked EXCEPT ![conn[c]] = TRUE]
    /\ UNCHANGED <<want, attempt, inserted, answer, tx, lock, rows, dbUp, credited>>

-----------------------------------------------------------------------------
(* PostgreSQL notices that a session has lost its client: roll back, or the  *)
(* COMMIT that was on the wire arrives after all.                            *)
OrphanEnds(s) ==
    /\ s \in Orphans
    /\ \/ UNCHANGED rows
       \/ asked[s] /\ rows' = rows \cup ({lock[s]} \ {NoId})
    /\ tx' = [tx EXCEPT ![s] = "closed"]
    /\ lock' = [lock EXCEPT ![s] = NoId]
    /\ asked' = [asked EXCEPT ![s] = FALSE]
    /\ UNCHANGED <<clientVars, dbUp, ghostVars>>

DbStops ==
    /\ dbUp
    /\ Fault
    /\ dbUp' = FALSE
    /\ conn' = [c \in Clients |-> NoSession]
    /\ tx' = [s \in Sessions |-> "closed"]
    /\ lock' = [s \in Sessions |-> NoId]
    /\ asked' = [s \in Sessions |-> FALSE]
    /\ UNCHANGED <<pc, want, attempt, inserted, answer, rows, credited>>

DbStarts ==
    /\ ~dbUp
    /\ dbUp' = TRUE
    /\ UNCHANGED <<clientVars, tx, lock, asked, rows, ghostVars>>

Attempt(c) ==
    \/ Execute(c) \/ Commit(c)
    \/ StatementFails(c) \/ CommitFails(c) \/ UseBroken(c)

Next ==
    \/ \E c \in Clients :
         \/ Start(c)
         \/ \E id \in Ids : Call(c, id)
         \/ Attempt(c)
         \/ Reconnect(c)
         \/ LinkBreaks(c)
         \/ Dies(c)
    \/ \E s \in Sessions : OrphanEnds(s)
    \/ DbStops
    \/ DbStarts

Spec == Init /\ [][Next]_vars

(* A process keeps running, PostgreSQL comes back, and it drops a session   *)
(* whose client is gone (TCP keepalive). Strong fairness of Reconnect only   *)
(* says that the bound on sessions refuses nobody for ever.                  *)
FairSpec ==
    /\ Spec
    /\ \A c \in Clients : WF_vars(Attempt(c)) /\ SF_vars(Reconnect(c))
    /\ \A s \in Sessions : WF_vars(OrphanEnds(s))
    /\ WF_vars(DbStarts)

-----------------------------------------------------------------------------
InCall(c) == pc[c] \in {"execute", "commit", "reconnect"}

(* An answer other than None means that the event is in raw.events, whatever *)
(* happened to the connection on the way: main() may then cache the id and   *)
(* confirm the offset (pipeline.py 26-29, main.py 364-389).                  *)
AnswerMeansStored == \A c \in Clients : answer[c] # "none" => want[c] \in rows

(* Every attempt begins in a clean transaction or on a connection that is    *)
(* closed, and nothing but an unfinished call or a session without a client  *)
(* holds an uncommitted row: a failed attempt leaks nothing into a later     *)
(* commit (database.py 61-72, 91-95).                                        *)
CleanTransaction ==
    \A c \in Clients :
        conn[c] # NoSession /\ pc[c] \in {"idle", "execute"} =>
            tx[conn[c]] = "idle" /\ lock[conn[c]] = NoId

(* The primary key and the wait for its holder: at most one session holds an *)
(* uncommitted row of an id, and none when the row is committed.             *)
KeyHeldOnce ==
    \A s \in Sessions : lock[s] # NoId => lock[s] \notin rows /\ Free(s, lock[s])

(* What each open transaction holds for its client. *)
HoldsWhatItInserted ==
    \A c \in Clients :
        /\ pc[c] = "commit" /\ conn[c] # NoSession =>
             /\ tx[conn[c]] = "open"
             /\ IF inserted[c] THEN lock[conn[c]] = want[c]
                               ELSE lock[conn[c]] = NoId /\ want[c] \in rows
        /\ InCall(c) => want[c] \in Ids /\ answer[c] = "none"
        /\ \A d \in Clients : conn[c] = conn[d] /\ conn[c] # NoSession => c = d
        /\ conn[c] # NoSession => tx[conn[c]] # "closed"

ClosedHoldsNothing == \A s \in Sessions : tx[s] = "closed" => lock[s] = NoId

AttemptsLeft == \A c \in Clients : pc[c] = "reconnect" => MayRetry(c)

IInv ==
    /\ TypeOK
    /\ AnswerMeansStored
    /\ CleanTransaction
    /\ KeyHeldOnce
    /\ HoldsWhatItInserted
    /\ ClosedHoldsNothing
    /\ AttemptsLeft
    /\ credited \subseteq rows

(* An event is reported as freshly inserted by one call at most, over all    *)
(* processes and for ever (main.py 370-388 counts on it).                    *)
CreditedOnce ==
    [][\A c \in Clients :
          answer[c] = "none" /\ answer'[c] = "true" => want[c] \notin credited]_vars

(* A call comes to an end: it returns or the process stops.                  *)
CallsEnd == \A c \in Clients : InCall(c) ~> ~InCall(c)
=============================================================================
