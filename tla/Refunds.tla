------------------------------ MODULE Refunds ------------------------------
(***************************************************************************)
(* simulate_refund (services/operations.py): the refund policy, decided    *)
(* and recorded inside one BEGIN IMMEDIATE transaction.                    *)
(*                                                                         *)
(* Each session is a database session of a request thread or of another    *)
(* caller. It is Idle, or runs one call of simulate_refund:                *)
(*   "called"   the arguments are there, the order was read by the caller  *)
(*   "locked"   BEGIN IMMEDIATE returned: the session holds the write lock *)
(*   "decided"  the rows were read and the row to insert was built         *)
(* A caller may have work of its own in the session, not yet flushed or    *)
(* flushed into an open write transaction.                                 *)
(***************************************************************************)
EXTENDS AtomicRefunds

CONSTANTS
  Sessions,      \* database sessions, in this process or another
  Callers        \* those of them whose caller has work of its own in them

ASSUME SessionsAssumption ==
  /\ Callers \subseteq Sessions
  /\ Nobody \notin Sessions

VARIABLES
  writer,     \* the session that holds SQLite's write lock
  session,    \* the call each session runs
  work        \* the caller's own uncommitted work in each session

vars == <<paid, refunds, writer, session, work>>

Idle == [phase |-> "idle"]

SessionStates ==
  {Idle} \cup [phase : {"called", "locked"}, req : Requests, paid : BOOLEAN]
         \cup [phase : {"decided"}, req : Requests, paid : BOOLEAN,
               row : Rows \cup {Nobody}]

TypeOK ==
  /\ paid \subseteq Orders
  /\ refunds \subseteq Rows
  /\ writer \in Sessions \cup {Nobody}
  /\ session \in [Sessions -> SessionStates]
  /\ work \in [Sessions -> {"none", "unflushed", "flushed"}]

Init ==
  /\ paid = {}
  /\ refunds = {}
  /\ writer = Nobody
  /\ session = [s \in Sessions |-> Idle]
  /\ work = [s \in Sessions |-> "none"]

-----------------------------------------------------------------------------
(* One call *)

\* The route reads the order and calls simulate_refund.
Call(s, req) ==
  /\ session[s] = Idle
  /\ session' = [session EXCEPT ![s] =
                   [phase |-> "called", req |-> req, paid |-> req.order \in paid]]
  /\ UNCHANGED <<paid, refunds, writer, work>>

\* RuntimeError: the session has work in flight, flushed or not.
RefuseTakeover(s) ==
  /\ session[s].phase = "called"
  /\ work[s] # "none"
  /\ session' = [session EXCEPT ![s] = Idle]
  /\ UNCHANGED <<paid, refunds, writer, work>>

\* BEGIN IMMEDIATE gives up: "database is locked".
LockTimeout(s) ==
  /\ session[s].phase = "called"
  /\ work[s] = "none"
  /\ writer # Nobody
  /\ session' = [session EXCEPT ![s] = Idle]
  /\ UNCHANGED <<paid, refunds, writer, work>>

\* Mutant: unflushed work of the caller is not looked for.
TakeOverUnflushed(s) ==
  /\ session[s].phase = "called"
  /\ work[s] # "flushed"
  /\ writer = Nobody
  /\ writer' = s
  /\ session' = [session EXCEPT ![s].phase = "locked"]
  /\ UNCHANGED <<paid, refunds, work>>

\* Mutant: the transaction begins deferred, and the lock comes with the INSERT.
TakeOverDeferred(s) ==
  /\ session[s].phase = "called"
  /\ work[s] = "none"
  /\ session' = [session EXCEPT ![s].phase = "locked"]
  /\ UNCHANGED <<paid, refunds, writer, work>>

TakeOver(s) ==
  /\ session[s].phase = "called"
  /\ work[s] = "none"
  /\ writer = Nobody
  /\ writer' = s
  /\ session' = [session EXCEPT ![s].phase = "locked"]
  /\ UNCHANGED <<paid, refunds, work>>

Decide(s) ==
  /\ session[s].phase = "locked"
  /\ session' = [session EXCEPT ![s] =
                   [phase |-> "decided", req |-> session[s].req,
                    paid |-> session[s].paid,
                    row |-> Decision(session[s].req, session[s].paid)]]
  /\ UNCHANGED <<paid, refunds, writer, work>>

\* The session's transaction ends: the lock is free, and whatever else the
\* session held went with it.
EndTransaction(s) ==
  /\ writer' = Nobody
  /\ session' = [session EXCEPT ![s] = Idle]
  /\ work' = [work EXCEPT ![s] = "none"]

\* Mutant: a replay returns the row and leaves the transaction open.
ReplayWithoutCommit(s) ==
  /\ session[s].phase = "decided"
  /\ session[s].row = Nobody
  /\ session' = [session EXCEPT ![s] = Idle]
  /\ UNCHANGED <<paid, refunds, writer, work>>

\* Mutant: a replay goes on to the INSERT.
InsertReplay(s) ==
  /\ session[s].phase = "decided"
  /\ session[s].row = Nobody
  /\ refunds' = refunds \cup {session[s].row}
  /\ EndTransaction(s)
  /\ UNCHANGED paid

\* A replay writes nothing and commits to release the lock.
CommitReplay(s) ==
  /\ session[s].phase = "decided"
  /\ session[s].row = Nobody
  /\ EndTransaction(s)
  /\ UNCHANGED <<paid, refunds>>

CommitRow(s) ==
  /\ session[s].phase = "decided"
  /\ session[s].row # Nobody
  /\ session[s].row.amount > 0
  /\ refunds' = refunds \cup {session[s].row}
  /\ EndTransaction(s)
  /\ UNCHANGED paid

\* ck_refund_amount_positive refuses the row of a refusal for amount <= 0.
RollbackUnstorable(s) ==
  /\ session[s].phase = "decided"
  /\ session[s].row # Nobody
  /\ session[s].row.amount <= 0
  /\ EndTransaction(s)
  /\ UNCHANGED <<paid, refunds>>

\* Mutant: an exception inside the section is not rolled back.
AbortWithoutRollback(s) ==
  /\ session[s].phase \in {"locked", "decided"}
  /\ session' = [session EXCEPT ![s] = Idle]
  /\ UNCHANGED <<paid, refunds, writer, work>>

\* A lookup or the commit fails, or the process dies: rolled back.
AbortRefund(s) ==
  /\ session[s].phase \in {"locked", "decided"}
  /\ EndTransaction(s)
  /\ UNCHANGED <<paid, refunds>>

-----------------------------------------------------------------------------
(* The others *)

\* The caller's own use of the session between calls.
CallerAdds(s) ==
  /\ session[s] = Idle /\ work[s] = "none"
  /\ work' = [work EXCEPT ![s] = "unflushed"]
  /\ UNCHANGED <<paid, refunds, writer, session>>

CallerFlushes(s) ==
  /\ session[s] = Idle /\ work[s] = "unflushed"
  /\ writer = Nobody
  /\ writer' = s
  /\ work' = [work EXCEPT ![s] = "flushed"]
  /\ UNCHANGED <<paid, refunds, session>>

CallerEnds(s) ==
  /\ session[s] = Idle /\ work[s] # "none"
  /\ writer' = IF work[s] = "flushed" THEN Nobody ELSE writer
  /\ work' = [work EXCEPT ![s] = "none"]
  /\ UNCHANGED <<paid, refunds, session>>

\* A callback or a query commits a payment in a transaction of its own.
OrderIsPaid(o) ==
  /\ writer = Nobody
  /\ paid' = paid \cup {o}
  /\ UNCHANGED <<refunds, writer, session, work>>

Step(s) ==
  \/ RefuseTakeover(s)
  \/ LockTimeout(s)
  \/ TakeOver(s)
  \/ Decide(s)
  \/ CommitReplay(s)
  \/ CommitRow(s)
  \/ RollbackUnstorable(s)
  \/ AbortRefund(s)

Caller(s) == CallerAdds(s) \/ CallerFlushes(s) \/ CallerEnds(s)

Next ==
  \/ \E s \in Sessions : \/ \E req \in Requests : Call(s, req)
                         \/ Step(s)
  \/ \E s \in Callers : Caller(s)
  \/ \E o \in Orders : OrderIsPaid(o)

Spec == Init /\ [][Next]_vars

\* A call that was made goes on.
FairSpec == Spec /\ \A s \in Sessions : WF_vars(Step(s))

-----------------------------------------------------------------------------
(* Properties *)

\* A key books at most one row whatever the parameters, the sessions and the
\* order of their calls; every further use is a replay or a conflict.
OneRowPerKey ==
  \A r, q \in refunds :
    (r.key = q.key /\ ~r.conflict /\ ~q.conflict) => r = q

\* Only an order that is PAID, by card, through ECPay is refunded, although
\* the status was read before the lock was taken.
RefundsAreOfPaidOrders ==
  \A r \in refunds :
    r.status = "SIMULATED_SUCCEEDED" => r.order \in paid \cap CardOrders

\* The write lock has an owner that will end its transaction: a call between
\* its BEGIN IMMEDIATE and its end, or a caller with flushed work. No path
\* out of simulate_refund leaves it behind, and no two sessions have it.
LockHasOwner ==
  \A s \in Sessions :
    writer = s <=> \/ session[s].phase \in {"locked", "decided"}
                   \/ work[s] = "flushed"

\* Concurrent calls behave as if each ran alone, at the moment of its commit.
ImplementsAtomicRefunds == AtomicRefundsSpec

\* What a call decided is still what the policy says of the stored rows when
\* it commits: nothing was booked between its reads and its write.
DecisionIsCurrent ==
  \A s \in Sessions :
    session[s].phase = "decided"
      => session[s].row = Decision(session[s].req, session[s].paid)

\* A call never commits, rolls back or flushes work of its caller, whichever
\* way it ends.
CallerWorkIsUntouched ==
  [][\A s \in Sessions : session[s] # Idle => work'[s] = work[s]]_vars

\* Every call returns and gives the lock back, whoever else waits or fails.
EveryCallReturns ==
  \A s \in Sessions :
    session[s] # Idle ~> (session[s] = Idle /\ (writer = s => work[s] = "flushed"))
=============================================================================
