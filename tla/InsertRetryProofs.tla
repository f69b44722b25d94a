-------------------------- MODULE InsertRetryProofs --------------------------
(***************************************************************************)
(* Proofs about InsertRetry, for any number of processes, sessions, events, *)
(* attempts and faults.                                                     *)
(***************************************************************************)
EXTENDS InsertRetry, TLAPS

USE InsertAssumption DEF clientVars, serverVars, ghostVars

(* A new session was closed: nobody else is on it and it holds nothing. *)
LEMMA StartKeeps ==
    ASSUME IInv, NEW c \in Clients, Start(c)
    PROVE  IInv'
  <1>1. TypeOK'
    BY DEF IInv, TypeOK, Start, Connect
  <1>2. AnswerMeansStored'
    BY DEF IInv, TypeOK, AnswerMeansStored, Start, Connect
  <1>3. CleanTransaction'
    BY DEF IInv, TypeOK, CleanTransaction, HoldsWhatItInserted, ClosedHoldsNothing, Start, Connect
  <1>4. KeyHeldOnce'
    BY DEF IInv, TypeOK, KeyHeldOnce, Start, Connect, Free
  <1>5. HoldsWhatItInserted'
    BY DEF IInv, TypeOK, HoldsWhatItInserted, InCall, ClosedHoldsNothing, Start, Connect
  <1>6. ClosedHoldsNothing'
    BY DEF IInv, TypeOK, ClosedHoldsNothing, Start, Connect
  <1>7. AttemptsLeft'
    BY DEF IInv, TypeOK, AttemptsLeft, Start, Connect, MayRetry
  <1>8. (credited \subseteq rows)'
    BY DEF IInv, TypeOK, Start, Connect
  <1> QED BY <1>1, <1>2, <1>3, <1>4, <1>5, <1>6, <1>7, <1>8 DEF IInv

(* A call starts with no answer and sends nothing yet. *)
LEMMA CallKeeps ==
    ASSUME IInv, NEW c \in Clients, NEW id \in Ids, Call(c, id)
    PROVE  IInv'
  <1>1. TypeOK'
    BY DEF IInv, TypeOK, Call
  <1>2. AnswerMeansStored'
    BY DEF IInv, TypeOK, AnswerMeansStored, Call
  <1>3. CleanTransaction'
    BY DEF IInv, TypeOK, CleanTransaction, Call
  <1>4. KeyHeldOnce'
    BY DEF IInv, TypeOK, KeyHeldOnce, Call, Free
  <1>5. HoldsWhatItInserted'
    BY DEF IInv, TypeOK, HoldsWhatItInserted, InCall, Call
  <1>6. ClosedHoldsNothing'
    BY DEF IInv, TypeOK, ClosedHoldsNothing, Call
  <1>7. AttemptsLeft'
    BY DEF IInv, TypeOK, AttemptsLeft, Call, MayRetry
  <1>8. (credited \subseteq rows)'
    BY DEF IInv, TypeOK, Call
  <1> QED BY <1>1, <1>2, <1>3, <1>4, <1>5, <1>6, <1>7, <1>8 DEF IInv

(* The INSERT takes a key that no other session holds, or finds the row. *)
LEMMA ExecuteKeeps ==
    ASSUME IInv, NEW c \in Clients, Execute(c)
    PROVE  IInv'
  <1>1. TypeOK'
    BY DEF IInv, TypeOK, Execute, Statement, RowIsNew, Free
  <1>2. AnswerMeansStored'
    BY DEF IInv, TypeOK, AnswerMeansStored, Execute, Statement, RowIsNew, Free
  <1>3. CleanTransaction'
    BY DEF IInv, TypeOK, CleanTransaction, HoldsWhatItInserted, Execute, Statement, RowIsNew, Free
  <1>4. KeyHeldOnce'
    BY DEF IInv, TypeOK, KeyHeldOnce, Execute, Statement, RowIsNew, Free
  <1>5. HoldsWhatItInserted'
    <2> SUFFICES ASSUME NEW d \in Clients
                 PROVE  /\ pc'[d] = "commit" /\ conn'[d] # NoSession =>
                             /\ tx'[conn'[d]] = "open"
                             /\ IF inserted'[d] THEN lock'[conn'[d]] = want'[d]
                                               ELSE lock'[conn'[d]] = NoId /\ want'[d] \in rows'
                        /\ pc'[d] \in {"execute", "commit", "reconnect"} => want'[d] \in Ids /\ answer'[d] = "none"
                        /\ \A b \in Clients : conn'[d] = conn'[b] /\ conn'[d] # NoSession => d = b
                        /\ conn'[d] # NoSession => tx'[conn'[d]] # "closed"
      BY DEF HoldsWhatItInserted, InCall
    <2>1. CASE d = c
      <3>1. /\ conn[c] \in Sessions /\ conn' = conn /\ want' = want /\ rows' = rows
            /\ tx'[conn[c]] = "open"
            /\ lock'[conn[c]] = IF want[c] \in rows THEN NoId ELSE want[c]
        BY DEF IInv, TypeOK, Execute, Statement
      <3>2. inserted'[c] <=> want[c] \notin rows
        BY DEF IInv, TypeOK, Execute, RowIsNew
      <3>3. want[c] \in Ids /\ answer'[c] = "none"
        BY DEF IInv, HoldsWhatItInserted, InCall, Execute
      <3>4. \A b \in Clients : conn[c] = conn[b] /\ conn[c] # NoSession => c = b
        BY DEF IInv, HoldsWhatItInserted
      <3> QED BY <2>1, <3>1, <3>2, <3>3, <3>4
    <2>2. CASE d # c
      <3>1. conn[d] # NoSession => conn[d] # conn[c]
        BY <2>2 DEF IInv, HoldsWhatItInserted
      <3> QED BY <2>2, <3>1 DEF IInv, TypeOK, HoldsWhatItInserted, InCall, Execute, Statement
    <2> QED BY <2>1, <2>2
  <1>6. ClosedHoldsNothing'
    BY DEF IInv, TypeOK, ClosedHoldsNothing, Execute, Statement, RowIsNew, Free
  <1>7. AttemptsLeft'
    BY DEF IInv, TypeOK, AttemptsLeft, Execute, Statement, RowIsNew, Free, MayRetry
  <1>8. (credited \subseteq rows)'
    BY DEF IInv, TypeOK, Execute, Statement, RowIsNew, Free
  <1> QED BY <1>1, <1>2, <1>3, <1>4, <1>5, <1>6, <1>7, <1>8 DEF IInv

(* What the transaction inserted is the row that was asked for. *)
LEMMA CommitKeeps ==
    ASSUME IInv, NEW c \in Clients, Commit(c)
    PROVE  IInv'
  <1>1. TypeOK'
    BY DEF IInv, TypeOK, HoldsWhatItInserted, InCall, Commit, Stored, Returns
  <1>2. AnswerMeansStored'
    BY DEF IInv, TypeOK, AnswerMeansStored, HoldsWhatItInserted, InCall, Commit, Stored, Returns
  <1>3. CleanTransaction'
    BY DEF IInv, TypeOK, CleanTransaction, Commit, Stored, Returns
  <1>4. KeyHeldOnce'
    BY DEF IInv, TypeOK, KeyHeldOnce, Commit, Stored, Returns, Free
  <1>5. HoldsWhatItInserted'
    BY DEF IInv, TypeOK, HoldsWhatItInserted, InCall, Commit, Stored, Returns
  <1>6. ClosedHoldsNothing'
    BY DEF IInv, TypeOK, ClosedHoldsNothing, Commit, Stored, Returns
  <1>7. AttemptsLeft'
    BY DEF IInv, TypeOK, AttemptsLeft, Commit, Stored, Returns, MayRetry
  <1>8. (credited \subseteq rows)'
    BY DEF IInv, TypeOK, HoldsWhatItInserted, InCall, Commit, Stored, Returns
  <1> QED BY <1>1, <1>2, <1>3, <1>4, <1>5, <1>6, <1>7, <1>8 DEF IInv

(* An aborted transaction holds nothing and is not used again. *)
LEMMA StatementFailsKeeps ==
    ASSUME IInv, NEW c \in Clients, StatementFails(c)
    PROVE  IInv'
  <1>1. TypeOK'
    BY DEF IInv, TypeOK, StatementFails, Raises, Fault, MayRetry
  <1>2. AnswerMeansStored'
    BY DEF IInv, TypeOK, AnswerMeansStored, StatementFails, Raises, Fault, MayRetry
  <1>3. CleanTransaction'
    BY DEF IInv, TypeOK, CleanTransaction, HoldsWhatItInserted, StatementFails, Raises, Fault, MayRetry
  <1>4. KeyHeldOnce'
    BY DEF IInv, TypeOK, KeyHeldOnce, StatementFails, Raises, Fault, Free
  <1>5. HoldsWhatItInserted'
    BY DEF IInv, TypeOK, HoldsWhatItInserted, InCall, CleanTransaction, StatementFails, Raises, Fault, MayRetry
  <1>6. ClosedHoldsNothing'
    BY DEF IInv, TypeOK, ClosedHoldsNothing, StatementFails, Raises, Fault, MayRetry
  <1>7. AttemptsLeft'
    BY DEF IInv, TypeOK, AttemptsLeft, StatementFails, Raises, Fault, MayRetry
  <1>8. (credited \subseteq rows)'
    BY DEF IInv, TypeOK, StatementFails, Raises, Fault, MayRetry
  <1> QED BY <1>1, <1>2, <1>3, <1>4, <1>5, <1>6, <1>7, <1>8 DEF IInv

(* A COMMIT that is refused rolls back. *)
LEMMA CommitFailsKeeps ==
    ASSUME IInv, NEW c \in Clients, CommitFails(c)
    PROVE  IInv'
  <1>1. TypeOK'
    BY DEF IInv, TypeOK, CommitFails, Raises, Fault, MayRetry
  <1>2. AnswerMeansStored'
    BY DEF IInv, TypeOK, AnswerMeansStored, CommitFails, Raises, Fault, MayRetry
  <1>3. CleanTransaction'
    BY DEF IInv, TypeOK, CleanTransaction, CommitFails, Raises, Fault, MayRetry
  <1>4. KeyHeldOnce'
    BY DEF IInv, TypeOK, KeyHeldOnce, CommitFails, Raises, Fault, Free
  <1>5. HoldsWhatItInserted'
    BY DEF IInv, TypeOK, HoldsWhatItInserted, InCall, CommitFails, Raises, Fault, MayRetry
  <1>6. ClosedHoldsNothing'
    BY DEF IInv, TypeOK, ClosedHoldsNothing, CommitFails, Raises, Fault, MayRetry
  <1>7. AttemptsLeft'
    BY DEF IInv, TypeOK, AttemptsLeft, CommitFails, Raises, Fault, MayRetry
  <1>8. (credited \subseteq rows)'
    BY DEF IInv, TypeOK, CommitFails, Raises, Fault, MayRetry
  <1> QED BY <1>1, <1>2, <1>3, <1>4, <1>5, <1>6, <1>7, <1>8 DEF IInv

(* A closed connection raises before anything is sent. *)
LEMMA UseBrokenKeeps ==
    ASSUME IInv, NEW c \in Clients, UseBroken(c)
    PROVE  IInv'
  <1>1. TypeOK'
    BY DEF IInv, TypeOK, UseBroken, Raises, MayRetry
  <1>2. AnswerMeansStored'
    BY DEF IInv, TypeOK, AnswerMeansStored, UseBroken, Raises, MayRetry
  <1>3. CleanTransaction'
    BY DEF IInv, TypeOK, CleanTransaction, UseBroken, Raises, MayRetry
  <1>4. KeyHeldOnce'
    BY DEF IInv, TypeOK, KeyHeldOnce, UseBroken, Raises, Free
  <1>5. HoldsWhatItInserted'
    BY DEF IInv, TypeOK, HoldsWhatItInserted, InCall, UseBroken, Raises, MayRetry
  <1>6. ClosedHoldsNothing'
    BY DEF IInv, TypeOK, ClosedHoldsNothing, UseBroken, Raises, MayRetry
  <1>7. AttemptsLeft'
    BY DEF IInv, TypeOK, AttemptsLeft, UseBroken, Raises, MayRetry
  <1>8. (credited \subseteq rows)'
    BY DEF IInv, TypeOK, UseBroken, Raises, MayRetry
  <1> QED BY <1>1, <1>2, <1>3, <1>4, <1>5, <1>6, <1>7, <1>8 DEF IInv

(* A further attempt begins on a session of its own. *)
LEMMA ReconnectKeeps ==
    ASSUME IInv, NEW c \in Clients, Reconnect(c)
    PROVE  IInv'
  <1>1. TypeOK'
    BY DEF IInv, TypeOK, AttemptsLeft, Reconnect, FreshConnection, Connect, NextAttempt, MayRetry
  <1>2. AnswerMeansStored'
    BY DEF IInv, TypeOK, AnswerMeansStored, Reconnect, FreshConnection, Connect, NextAttempt
  <1>3. CleanTransaction'
    BY DEF IInv, TypeOK, CleanTransaction, HoldsWhatItInserted, ClosedHoldsNothing, Reconnect, FreshConnection, Connect, NextAttempt
  <1>4. KeyHeldOnce'
    BY DEF IInv, TypeOK, KeyHeldOnce, Reconnect, FreshConnection, Connect, NextAttempt, Free
  <1>5. HoldsWhatItInserted'
    BY DEF IInv, TypeOK, HoldsWhatItInserted, InCall, ClosedHoldsNothing, Reconnect, FreshConnection, Connect, NextAttempt
  <1>6. ClosedHoldsNothing'
    BY DEF IInv, TypeOK, ClosedHoldsNothing, Reconnect, FreshConnection, Connect, NextAttempt
  <1>7. AttemptsLeft'
    BY DEF IInv, TypeOK, AttemptsLeft, Reconnect, FreshConnection, Connect, NextAttempt, MayRetry
  <1>8. (credited \subseteq rows)'
    BY DEF IInv, TypeOK, Reconnect, FreshConnection, Connect, NextAttempt
  <1> QED BY <1>1, <1>2, <1>3, <1>4, <1>5, <1>6, <1>7, <1>8 DEF IInv

(* The session left behind may hold the key, for nobody. *)
LEMMA LinkBreaksKeeps ==
    ASSUME IInv, NEW c \in Clients, LinkBreaks(c)
    PROVE  IInv'
  <1>1. TypeOK'
    <2>1. faults' \in 0 .. MaxFaults
      BY DEF IInv, TypeOK, LinkBreaks, Fault
    <2>2. pc' \in [Clients -> {"idle", "execute", "commit", "reconnect", "stopped"}]
      BY DEF IInv, TypeOK, LinkBreaks, Raises
    <2>3. conn' \in [Clients -> Sessions \cup {NoSession}]
      BY DEF IInv, TypeOK, LinkBreaks, Raises
    <2>4. tx' \in [Sessions -> {"closed", "idle", "open", "aborted"}]
      BY DEF IInv, TypeOK, LinkBreaks, Statement
    <2>5. lock' \in [Sessions -> Ids \cup {NoId}]
      BY DEF IInv, TypeOK, LinkBreaks, Statement
    <2>6. asked' \in [Sessions -> BOOLEAN]
      BY DEF IInv, TypeOK, LinkBreaks
    <2> QED BY <2>1, <2>2, <2>3, <2>4, <2>5, <2>6 DEF IInv, TypeOK, LinkBreaks, Raises
  <1>2. AnswerMeansStored'
    BY DEF IInv, TypeOK, AnswerMeansStored, LinkBreaks, Raises, Fault, Statement, Free, MayRetry
  <1>3. CleanTransaction'
    BY DEF IInv, TypeOK, CleanTransaction, HoldsWhatItInserted, LinkBreaks, Raises, Fault, Statement, Free, MayRetry
  <1>4. KeyHeldOnce'
    BY DEF IInv, TypeOK, KeyHeldOnce, LinkBreaks, Raises, Fault, Statement, Free
  <1>5. HoldsWhatItInserted'
    BY DEF IInv, TypeOK, HoldsWhatItInserted, InCall, LinkBreaks, Raises, Fault, Statement, Free, MayRetry
  <1>6. ClosedHoldsNothing'
    BY DEF IInv, TypeOK, ClosedHoldsNothing, LinkBreaks, Raises, Fault, Statement, Free, MayRetry
  <1>7. AttemptsLeft'
    BY DEF IInv, TypeOK, AttemptsLeft, LinkBreaks, Raises, Fault, Statement, Free, MayRetry
  <1>8. (credited \subseteq rows)'
    BY DEF IInv, TypeOK, LinkBreaks, Raises, Fault, Statement, Free, MayRetry
  <1> QED BY <1>1, <1>2, <1>3, <1>4, <1>5, <1>6, <1>7, <1>8 DEF IInv

(* So may the session of a process that died. *)
LEMMA DiesKeeps ==
    ASSUME IInv, NEW c \in Clients, Dies(c)
    PROVE  IInv'
  <1>1. TypeOK'
    <2>1. asked' \in [Sessions -> BOOLEAN]
      BY DEF IInv, TypeOK, Dies
    <2>2. faults' \in 0 .. MaxFaults
      BY DEF IInv, TypeOK, Dies, Fault
    <2>3. pc' \in [Clients -> {"idle", "execute", "commit", "reconnect", "stopped"}]
      BY DEF IInv, TypeOK, Dies
    <2>4. conn' \in [Clients -> Sessions \cup {NoSession}]
      BY DEF IInv, TypeOK, Dies
    <2> QED BY <2>1, <2>2, <2>3, <2>4 DEF IInv, TypeOK, Dies
  <1>2. AnswerMeansStored'
    BY DEF IInv, TypeOK, AnswerMeansStored, Dies, Fault
  <1>3. CleanTransaction'
    BY DEF IInv, TypeOK, CleanTransaction, Dies, Fault
  <1>4. KeyHeldOnce'
    BY DEF IInv, TypeOK, KeyHeldOnce, Dies, Fault, Free
  <1>5. HoldsWhatItInserted'
    BY DEF IInv, TypeOK, HoldsWhatItInserted, InCall, Dies, Fault
  <1>6. ClosedHoldsNothing'
    BY DEF IInv, TypeOK, ClosedHoldsNothing, Dies, Fault
  <1>7. AttemptsLeft'
    BY DEF IInv, TypeOK, AttemptsLeft, Dies, Fault, MayRetry
  <1>8. (credited \subseteq rows)'
    BY DEF IInv, TypeOK, Dies, Fault
  <1> QED BY <1>1, <1>2, <1>3, <1>4, <1>5, <1>6, <1>7, <1>8 DEF IInv

(* Such a session ends by committing its key or by giving it back. *)
LEMMA OrphanEndsKeeps ==
    ASSUME IInv, NEW s \in Sessions, OrphanEnds(s)
    PROVE  IInv'
  <1>1. TypeOK'
    BY DEF IInv, TypeOK, OrphanEnds, Orphans
  <1>2. AnswerMeansStored'
    BY DEF IInv, TypeOK, AnswerMeansStored, OrphanEnds, Orphans
  <1>3. CleanTransaction'
    BY DEF IInv, TypeOK, CleanTransaction, OrphanEnds, Orphans
  <1>4. KeyHeldOnce'
    BY DEF IInv, TypeOK, KeyHeldOnce, OrphanEnds, Orphans, Free
  <1>5. HoldsWhatItInserted'
    BY DEF IInv, TypeOK, HoldsWhatItInserted, InCall, OrphanEnds, Orphans
  <1>6. ClosedHoldsNothing'
    BY DEF IInv, TypeOK, ClosedHoldsNothing, OrphanEnds, Orphans
  <1>7. AttemptsLeft'
    BY DEF IInv, TypeOK, AttemptsLeft, OrphanEnds, Orphans, MayRetry
  <1>8. (credited \subseteq rows)'
    BY DEF IInv, TypeOK, OrphanEnds, Orphans
  <1> QED BY <1>1, <1>2, <1>3, <1>4, <1>5, <1>6, <1>7, <1>8 DEF IInv

(* A server that stops drops every session. *)
LEMMA DbStopsKeeps ==
    ASSUME IInv, DbStops
    PROVE  IInv'
  <1>1. TypeOK'
    <2>1. faults' \in 0 .. MaxFaults
      BY DEF IInv, TypeOK, DbStops, Fault
    <2>2. conn' \in [Clients -> Sessions \cup {NoSession}] /\ asked' \in [Sessions -> BOOLEAN]
      BY DEF DbStops
    <2>3. /\ tx' \in [Sessions -> {"closed", "idle", "open", "aborted"}]
          /\ lock' \in [Sessions -> Ids \cup {NoId}]
      BY DEF DbStops
    <2> QED BY <2>1, <2>2, <2>3 DEF IInv, TypeOK, DbStops
  <1>2. AnswerMeansStored'
    BY DEF IInv, TypeOK, AnswerMeansStored, DbStops, Fault
  <1>3. CleanTransaction'
    BY DEF IInv, TypeOK, CleanTransaction, DbStops, Fault
  <1>4. KeyHeldOnce'
    BY DEF IInv, TypeOK, KeyHeldOnce, DbStops, Fault, Free
  <1>5. HoldsWhatItInserted'
    BY DEF IInv, TypeOK, HoldsWhatItInserted, InCall, DbStops, Fault
  <1>6. ClosedHoldsNothing'
    BY DEF IInv, TypeOK, ClosedHoldsNothing, DbStops, Fault
  <1>7. AttemptsLeft'
    BY DEF IInv, TypeOK, AttemptsLeft, DbStops, Fault, MayRetry
  <1>8. (credited \subseteq rows)'
    BY DEF IInv, TypeOK, DbStops, Fault
  <1> QED BY <1>1, <1>2, <1>3, <1>4, <1>5, <1>6, <1>7, <1>8 DEF IInv

(* A server that starts knows the committed rows only. *)
LEMMA DbStartsKeeps ==
    ASSUME IInv, DbStarts
    PROVE  IInv'
  <1>1. TypeOK'
    BY DEF IInv, TypeOK, DbStarts
  <1>2. AnswerMeansStored'
    BY DEF IInv, TypeOK, AnswerMeansStored, DbStarts
  <1>3. CleanTransaction'
    BY DEF IInv, TypeOK, CleanTransaction, DbStarts
  <1>4. KeyHeldOnce'
    BY DEF IInv, TypeOK, KeyHeldOnce, DbStarts, Free
  <1>5. HoldsWhatItInserted'
    BY DEF IInv, TypeOK, HoldsWhatItInserted, InCall, DbStarts
  <1>6. ClosedHoldsNothing'
    BY DEF IInv, TypeOK, ClosedHoldsNothing, DbStarts
  <1>7. AttemptsLeft'
    BY DEF IInv, TypeOK, AttemptsLeft, DbStarts, MayRetry
  <1>8. (credited \subseteq rows)'
    BY DEF IInv, TypeOK, DbStarts
  <1> QED BY <1>1, <1>2, <1>3, <1>4, <1>5, <1>6, <1>7, <1>8 DEF IInv

-----------------------------------------------------------------------------
(* No reachable state breaks the inductive invariant: what each open          *)
(* transaction holds, and that every attempt starts clean.                   *)
THEOREM Invariance == Spec => []IInv
  <1>1. Init => IInv
    BY DEF Init, IInv, TypeOK, AnswerMeansStored, CleanTransaction, KeyHeldOnce,
           HoldsWhatItInserted, ClosedHoldsNothing, AttemptsLeft, InCall
  <1>2. IInv /\ [Next]_vars => IInv'
    <2> SUFFICES ASSUME IInv, [Next]_vars PROVE IInv'
      OBVIOUS
    <2>1. ASSUME NEW c \in Clients, Start(c) PROVE IInv'
      BY <2>1, StartKeeps
    <2>2. ASSUME NEW c \in Clients, NEW id \in Ids, Call(c, id) PROVE IInv'
      BY <2>2, CallKeeps
    <2>3. ASSUME NEW c \in Clients, Attempt(c) PROVE IInv'
      BY <2>3, ExecuteKeeps, CommitKeeps, StatementFailsKeeps, CommitFailsKeeps, UseBrokenKeeps DEF Attempt
    <2>4. ASSUME NEW c \in Clients, Reconnect(c) PROVE IInv'
      BY <2>4, ReconnectKeeps
    <2>5. ASSUME NEW c \in Clients, LinkBreaks(c) PROVE IInv'
      BY <2>5, LinkBreaksKeeps
    <2>6. ASSUME NEW c \in Clients, Dies(c) PROVE IInv'
      BY <2>6, DiesKeeps
    <2>7. ASSUME NEW s \in Sessions, OrphanEnds(s) PROVE IInv'
      BY <2>7, OrphanEndsKeeps
    <2>8. CASE DbStops
      BY <2>8, DbStopsKeeps
    <2>9. CASE DbStarts
      BY <2>9, DbStartsKeeps
    <2>10. CASE UNCHANGED vars
      BY <2>10 DEF vars, IInv, TypeOK, AnswerMeansStored, CleanTransaction, KeyHeldOnce, Free,
                   HoldsWhatItInserted, ClosedHoldsNothing, AttemptsLeft, MayRetry, InCall
    <2> QED BY <2>1, <2>2, <2>3, <2>4, <2>5, <2>6, <2>7, <2>8, <2>9, <2>10 DEF Next
  <1> QED BY <1>1, <1>2, PTL DEF Spec

(* A call that returns True or False leaves its event in raw.events, however *)
(* many links, processes or servers failed on the way (pipeline.py 26-29).   *)
THEOREM AnswersAreStored == Spec => []AnswerMeansStored
  <1>1. IInv => AnswerMeansStored
    BY DEF IInv
  <1> QED BY <1>1, Invariance, PTL

(* No attempt inherits an open transaction (database.py 61-72).              *)
THEOREM AttemptsStartClean == Spec => []CleanTransaction
  <1>1. IInv => CleanTransaction
    BY DEF IInv
  <1> QED BY <1>1, Invariance, PTL

(* At most one call ever reports an event as freshly inserted, over all      *)
(* processes (database.py 91-95).                                            *)
THEOREM FreshOnce == Spec => CreditedOnce
  <1> DEFINE Once == \A c \in Clients :
                answer[c] = "none" /\ answer'[c] = "true" => want[c] \notin credited
  <1>1. IInv /\ [Next]_vars => Once
    <2> SUFFICES ASSUME IInv, [Next]_vars, NEW c \in Clients,
                        answer[c] = "none", answer'[c] = "true"
                 PROVE  want[c] \notin credited
      OBVIOUS
    <2>1. Commit(c) /\ inserted[c]
      <3>1. PICK d \in Clients : Commit(d)
        BY DEF IInv, TypeOK, Next, vars, clientVars, Attempt, Start, Call, Execute, StatementFails,
               CommitFails, UseBroken, Raises, Reconnect, LinkBreaks, Dies, OrphanEnds, DbStops, DbStarts
      <3> QED BY <3>1 DEF IInv, TypeOK, Commit, Returns
    <2>2. lock[conn[c]] = want[c] /\ want[c] \in Ids /\ conn[c] \in Sessions
      BY <2>1 DEF IInv, TypeOK, HoldsWhatItInserted, InCall, Commit
    <2>3. want[c] \notin rows
      BY <2>2 DEF IInv, KeyHeldOnce
    <2> QED BY <2>3 DEF IInv
  <1> HIDE DEF Once
  <1>2. Spec => [][Once]_vars
    BY <1>1, Invariance, PTL DEF Spec
  <1> QED BY <1>2 DEF Once, CreditedOnce
=============================================================================
