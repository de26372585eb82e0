---------------------------- MODULE PooledLedger ----------------------------
(***************************************************************************)
(* The ledger's requests on the server's pool of database connections.     *)
(*                                                                         *)
(* A transaction keeps a connection from its first statement to its end; a *)
(* statement outside a transaction borrows one.  Whoever finds the pool    *)
(* empty waits, without a timeout.  declareResult and updateResult end     *)
(* with `return this.toResponse(result)` inside their transaction, and     *)
(* toResponse reads the sub type through the repository, not through the   *)
(* transaction's manager: a settlement needs a second connection before it *)
(* can commit, while it holds the locks on the wallets of its winners.     *)
(***************************************************************************)
EXTENDS PoolLedgerProps

CONSTANT PoolSize  \* connections of the pg pool (10, its default)

ASSUME PoolSizeAssumption == PoolSize \in Nat \ {0}

\* Requests that hold a connection.  placeBet has only borrowed some before
\* assertBettingOpen; from there on its transaction's connection is counted.
Connected == {r \in Req : InFlight(r) /\ pc[r] # "hours"}

FreeConnection == Cardinality(Connected) < PoolSize

\* All that is left of the settlement is toResponse and the COMMIT.
SecondConnection(r) == pc[r] = "commit" /\ Op(r) \in {"declare", "correct"}

\* Mutant of NeedsConnection: no statement is given the manager.
NeedsConnection_NoManager(r) == TRUE

NeedsConnection(r) == r \notin Connected \/ SecondConnection(r)

PooledArrive(r)  == FreeConnection /\ Arrive(r)
PooledProceed(r) == (NeedsConnection(r) => FreeConnection) /\ Proceed(r)

PooledNext ==
  \/ Tick
  \/ \E r \in Req : PooledArrive(r) \/ PooledProceed(r) \/ Fail(r) \/ DeadlockVictim(r)

PooledSpec == Init /\ [][PooledNext]_vars

\* A started request is run to its end, the pool serves whoever waits for a
\* connection and the detector breaks deadlocks; nothing is assumed of
\* clients, crashes or the clock.
PooledFairSpec ==
  /\ PooledSpec
  /\ \A r \in Req : WF_vars(PooledProceed(r))
  /\ WF_vars(\E r \in Req : DeadlockVictim(r))

-----------------------------------------------------------------------------
\* Every connection is held by a settlement that needs one more, or by a
\* request that waits for a row lock.
Wedged ==
  /\ ~FreeConnection
  /\ \E r \in Connected : SecondConnection(r)
  /\ \A r \in Connected : SecondConnection(r) \/ r \in Waiting

(* Every request the server has started ends, although settlements of      *)
(* different games lock the wallets of their winners in different orders   *)
(* and all share one pool; the one way to hang is the wedge above, which   *)
(* no lock wait of PostgreSQL shows.                                       *)
EndsUnlessWedged == \A r \in Req : []<>(~InFlight(r)) \/ <>[]Wedged

(* "raising this request IS the withdrawal, so it debits the wallet        *)
(* immediately" (WithdrawRequestService.create): a withdrawal that has     *)
(* started ends.                                                           *)
WithdrawalsEnd ==
  \A r \in Req : (InFlight(r) /\ Op(r) = "withdraw") ~> ~InFlight(r)
=============================================================================
