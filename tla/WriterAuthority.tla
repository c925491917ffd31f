--------------------------- MODULE WriterAuthority ---------------------------
(***************************************************************************)
(* Writer authority of a PostgreSQL runtime store that may fail over.  A   *)
(* controller outside the program keeps one lease-backed record in etcd    *)
(* that names the server that may be written.  Every transaction of the    *)
(* store asks for the record when it starts (admit) and again before it    *)
(* commits (revalidate), and has the server end it while the lease still   *)
(* lasts.                                                                  *)
(*                                                                         *)
(* A request to etcd, a statement of the transaction and a step of the     *)
(* controller are one action each; time passes between any two of them.    *)
(* One clock stands for the clocks of the parties: only durations cross    *)
(* between them, and Uncertainty is how far a reported TTL may be off.     *)
(*                                                                         *)
(* Definitions named ...Mutant are faulty variants of the definition that  *)
(* follows them.  No other definition refers to them; they show that the   *)
(* properties notice the fault.                                            *)
(***************************************************************************)
EXTENDS Integers

CONSTANTS
  Servers,
  Threads,         \* users of the store of one process, who share a guard
  None,
  Ttl,             \* of the lease the controller attaches
  Uncertainty,     \* ttl_uncertainty_seconds
  Margin,          \* safety_margin_seconds
  CheckTimeout,    \* check_timeout_seconds
  MaxTransaction,  \* max_transaction_seconds
  MaxFence,        \* bound: records the controller writes
  Horizon          \* bound: the last value of the clock

ASSUME NoneIsNoServer == None \notin Servers
ASSUME PolicyIsPositive ==
  /\ Margin \in Nat \ {0} /\ CheckTimeout \in Nat \ {0} /\ MaxTransaction \in Nat \ {0}
  /\ Uncertainty \in Nat /\ Ttl \in Nat \ {0}
  /\ MaxFence \in Nat /\ Horizon \in Nat

VARIABLES
  now,
  key,      \* the record and its lease; without a server it is absent
  primary,  \* servers that are not in recovery
  latest,   \* _latest_generation of the guard
  txn       \* the transaction of each thread

authorityVars == <<now, key, primary, latest, txn>>

NoGrant == [server |-> None, fence |-> 0, remaining |-> 0, at |-> 0]

\* at: where the thread is; phase: admit or revalidate; server: its
\* connection; start, lease, ttl: of the grant it is asking for; grant: the
\* last one; admission: the one it was admitted with; deadline: when the
\* server ends the transaction; prompt, moved: history, was the timer set
\* within the margin, and did another server get the authority since.
IdleTransaction == [at |-> "idle", phase |-> "admit", server |-> None, start |-> 0,
         seen |-> [server |-> None, fence |-> 0, lease |-> 0], ttl |-> 0,
         grant |-> NoGrant, admission |-> NoGrant, prompt |-> FALSE, moved |-> FALSE,
         deadline |-> 0]

AuthorityInit ==
  /\ now = 0
  /\ key = [server |-> None, fence |-> 0, lease |-> 0, expiry |-> 0]
  /\ primary = {}
  /\ latest = [server |-> None, fence |-> 0]
  /\ txn = [t \in Threads |-> IdleTransaction]

\* Between the reading that admits a transaction and the one that revalidates it.
Open(t) ==
  \/ txn[t].phase = "admit" /\ txn[t].at \in {"note", "verify", "config", "body"}
  \/ txn[t].phase = "revalidate" /\ txn[t].at \in {"range", "ttl", "again"}

-----------------------------------------------------------------------------
(***************************************************************************)
(* The environment: time, the controller and the servers.                  *)
(***************************************************************************)
\* The server ends a transaction that is as old as its timer.
Tick ==
  /\ now < Horizon
  /\ now' = now + 1
  /\ txn' = [t \in Threads |-> IF txn[t].deadline = now + 1 THEN IdleTransaction ELSE txn[t]]
  /\ UNCHANGED <<key, primary, latest>>

\* A new record is a new generation.
Write(s, lease, expiry) ==
  /\ key.fence < MaxFence
  /\ key' = [server |-> s, fence |-> key.fence + 1, lease |-> lease, expiry |-> expiry]
  /\ primary' = primary \cup {s}
  /\ txn' = [t \in Threads |-> [txn[t] EXCEPT !.moved = @ \/ (Open(t) /\ txn[t].server # s)]]
  /\ UNCHANGED <<now, latest>>

\* A server takes the authority that nobody holds and is promoted; the server
\* that held it before may not have noticed.
Acquire(s) == key.server = None /\ Write(s, key.fence + 1, now + Ttl)

\* The record is rewritten under its lease, for another server once the
\* present one is no longer a primary.
HandOver(s) ==
  /\ key.server # None /\ now < key.expiry
  /\ s = key.server \/ key.server \notin primary
  /\ Write(s, key.lease, key.expiry)

Renew ==
  /\ key.server # None /\ now < key.expiry
  /\ key' = [key EXCEPT !.expiry = now + Ttl]
  /\ UNCHANGED <<now, primary, latest, txn>>

\* etcd removes the record with its lease; the controller revokes the lease
\* of a server that is no longer a primary.
LeaseEnds ==
  /\ key.server # None
  /\ now >= key.expiry \/ key.server \notin primary
  /\ key' = [key EXCEPT !.server = None]
  /\ UNCHANGED <<now, primary, latest, txn>>

\* A primary goes into recovery and its sessions end.
Demote(s) ==
  /\ s \in primary
  /\ primary' = primary \ {s}
  /\ txn' = [t \in Threads |-> IF txn[t].server = s THEN IdleTransaction ELSE txn[t]]
  /\ UNCHANGED <<now, key, latest>>

-----------------------------------------------------------------------------
(***************************************************************************)
(* EtcdPostgresWriterAuthority.current_grant.                              *)
(***************************************************************************)
Becomes(t, x) == txn' = [txn EXCEPT ![t] = x]

Record == [server |-> key.server, fence |-> key.fence, lease |-> key.lease]

\* The pool hands out a connection to a server it can reach, of any role.
Connect(t, s) ==
  /\ txn[t].at = "idle"
  /\ Becomes(t, [IdleTransaction EXCEPT !.at = "range", !.server = s, !.start = now])
  /\ UNCHANGED <<now, key, primary, latest>>

Range(t) ==
  /\ txn[t].at = "range"
  /\ key.server # None
  /\ Becomes(t, [txn[t] EXCEPT !.at = "ttl", !.seen = Record])
  /\ UNCHANGED <<now, key, primary, latest>>

\* The lease must hold exactly the key.
LeaseTtl(t) ==
  /\ txn[t].at = "ttl"
  /\ key.server # None /\ key.lease = txn[t].seen.lease
  /\ \E ttl \in (key.expiry - now)..(key.expiry - now + Uncertainty) :
       ttl > 0 /\ Becomes(t, [txn[t] EXCEPT !.at = "again", !.ttl = ttl])
  /\ UNCHANGED <<now, key, primary, latest>>

Elapsed(t) == now - txn[t].start
Remaining(t) == txn[t].ttl - Elapsed(t) - Uncertainty

SameRecord(t) == key.server # None /\ Record = txn[t].seen

RangeAgain(t) ==
  /\ txn[t].at = "again"
  /\ SameRecord(t) /\ Elapsed(t) <= CheckTimeout /\ Remaining(t) > 0
  /\ Becomes(t, [txn[t] EXCEPT !.at = "note", !.seen = IdleTransaction.seen, !.ttl = 0,
                    !.grant = [server |-> txn[t].seen.server, fence |-> txn[t].seen.fence,
                               remaining |-> Remaining(t), at |-> now]])
  /\ UNCHANGED <<now, key, primary, latest>>

-----------------------------------------------------------------------------
(***************************************************************************)
(* PostgresWriterAuthorityGuard.                                           *)
(***************************************************************************)
\* _grant: in time, and not older than what any thread has seen
Note(t) ==
  /\ txn[t].at = "note"
  /\ Elapsed(t) <= CheckTimeout
  /\ \/ txn[t].grant.fence > latest.fence
     \/ txn[t].grant.fence = latest.fence /\ txn[t].grant.server = latest.server
  /\ latest' = [server |-> txn[t].grant.server, fence |-> txn[t].grant.fence]
  /\ Becomes(t, [txn[t] EXCEPT !.at = "verify", !.start = 0])
  /\ UNCHANGED <<now, key, primary>>

\* _transaction_timeout_ms, which must be positive
TimeoutMutant(t) ==
  IF txn[t].grant.remaining < MaxTransaction THEN txn[t].grant.remaining ELSE MaxTransaction
Timeout(t) ==
  IF txn[t].grant.remaining - Margin < MaxTransaction
    THEN txn[t].grant.remaining - Margin ELSE MaxTransaction

\* The grant is the one the transaction was admitted with.
SameGenerationMutant(t) == txn[t].grant.server = txn[t].admission.server
SameGeneration(t) ==
  /\ txn[t].grant.server = txn[t].admission.server
  /\ txn[t].grant.fence = txn[t].admission.fence

\* _verify_server, with the timeout that both admit and revalidate compute
VerifyServer(t) ==
  /\ txn[t].at = "verify"
  /\ txn[t].phase = "revalidate" => SameGeneration(t)
  /\ txn[t].server = txn[t].grant.server /\ txn[t].server \in primary
  /\ Timeout(t) > 0
  /\ Becomes(t, [txn[t] EXCEPT !.at = IF txn[t].phase = "admit" THEN "config" ELSE "commit"])
  /\ UNCHANGED <<now, key, primary, latest>>

\* set_config('transaction_timeout'): the timer of the server starts here
SetTimeout(t) ==
  /\ txn[t].at = "config"
  /\ Becomes(t, [txn[t] EXCEPT !.at = "body", !.admission = txn[t].grant, !.grant = NoGrant,
                               !.prompt = now - txn[t].grant.at <= Margin,
                               !.deadline = now + Timeout(t)])
  /\ UNCHANGED <<now, key, primary, latest>>

\* The unit of work is done and the guard asks again.
Revalidate(t) ==
  /\ txn[t].at = "body"
  /\ Becomes(t, [txn[t] EXCEPT !.at = "range", !.phase = "revalidate", !.start = now])
  /\ UNCHANGED <<now, key, primary, latest>>

Commit(t) ==
  /\ txn[t].at = "commit"
  /\ Becomes(t, IdleTransaction)
  /\ UNCHANGED <<now, key, primary, latest>>

\* A check fails, the unit of work raises, etcd or the connection is lost: the
\* transaction is rolled back.
Refuse(t) ==
  /\ txn[t].at # "idle"
  /\ Becomes(t, IdleTransaction)
  /\ UNCHANGED <<now, key, primary, latest>>

-----------------------------------------------------------------------------
Controller ==
  \/ \E s \in Servers : Acquire(s) \/ HandOver(s) \/ Demote(s)
  \/ Renew \/ LeaseEnds

Step(t) ==
  \/ \E s \in Servers : Connect(t, s)
  \/ Range(t) \/ LeaseTtl(t) \/ RangeAgain(t) \/ Note(t) \/ VerifyServer(t)
  \/ SetTimeout(t) \/ Revalidate(t) \/ Commit(t) \/ Refuse(t)

AuthorityNext == Tick \/ Controller \/ \E t \in Threads : Step(t)

AuthoritySpec == AuthorityInit /\ [][AuthorityNext]_authorityVars

-----------------------------------------------------------------------------
(***************************************************************************)
(* Properties.                                                             *)
(***************************************************************************)
Places == {"idle", "range", "ttl", "again", "note", "verify", "config", "body", "commit"}
Grants == [server : Servers \cup {None}, fence : Nat, remaining : Int, at : Nat]
Transactions ==
  [at : Places, phase : {"admit", "revalidate"}, server : Servers \cup {None}, start : Nat,
   seen : [server : Servers \cup {None}, fence : Nat, lease : Nat], ttl : Nat,
   grant : Grants, admission : Grants, prompt : BOOLEAN, moved : BOOLEAN, deadline : Nat]

\* Every variable has its type.
AuthorityTypeOK ==
  /\ now \in Nat
  /\ key \in [server : Servers \cup {None}, fence : Nat, lease : Nat, expiry : Nat]
  /\ primary \subseteq Servers
  /\ latest \in [server : Servers \cup {None}, fence : Nat]
  /\ txn \in [Threads -> Transactions]

\* A transaction may commit only on the server that holds the authority, also
\* where the lease ran out and the old server did not notice: the timer ends
\* it in time if it was set within the margin of the grant, and the fresh
\* grant covers the commit if that comes within the margin.  Only a client
\* that is too slow both times escapes, the paused process that
\* docs/postgresql-runtime-store.md excludes.
OnTime(t) == txn[t].prompt \/ now - txn[t].grant.at <= Margin
CommitsByHolder ==
  \A t \in Threads : txn[t].at = "commit" /\ OnTime(t) => key.server = txn[t].server

\* What a transaction that may commit has read and written belongs to one
\* tenure: no other server was given the authority, not even for a while,
\* between the grant that admitted it and the one that revalidated it, however
\* slow it is (the fence of the grants, bracketed readings of etcd).
OneTenure == \A t \in Threads : txn[t].at = "commit" => ~txn[t].moved
=============================================================================
