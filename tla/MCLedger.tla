------------------------------- MODULE MCLedger -------------------------------
(* Small instances of the three ways to a ledger: a forwarder that queues  *)
(* in memory, forwarders that share their queues in Redis, and a client    *)
(* with a fallback of its own.  They share no state, so a behaviour runs   *)
(* the one `focus` names.  Where nothing tells them apart, they are given  *)
(* the same values.                                                        *)
EXTENDS BackgroundForwarder, RedisForwarder, LedgerClient, TLC

CONSTANTS t1, t2, r1, r2, e1, e2, w1, w2, stopper, operator, direct,
          Focuses       \* the components a run is about

AllCallers == Runs \cup {Stopper, Operator, Direct}
OneTenant == [r \in Requests |-> t1]
TwoTenants == [r \in Requests |-> IF r = r1 THEN t1 ELSE t2]

VARIABLE focus

ledgerRunVars == <<focus, allVars, redisForwarderVars, ledgerClientVars>>

LedgerRunInit ==
    /\ focus \in Focuses
    /\ ForwarderInit /\ RedisForwarderInit /\ LedgerClientInit
    /\ focus # "client" => withFallback

LedgerRunNext ==
    /\ UNCHANGED focus
    /\ \/ focus = "memory" /\ ForwarderNext /\ UNCHANGED <<redisForwarderVars, ledgerClientVars>>
       \/ focus = "redis" /\ RedisForwarderNext /\ UNCHANGED <<allVars, ledgerClientVars>>
       \/ focus = "client" /\ LedgerClientNext /\ UNCHANGED <<allVars, redisForwarderVars>>

LedgerRunSpec == LedgerRunInit /\ [][LedgerRunNext]_ledgerRunVars

(* Requests forwarded through Redis are lost to faults only, and retried   *)
(* within their budget (RedisForwarder); a leaf tells which of the         *)
(* client's ledgers it is in, no etch leaves more leaves than its lost     *)
(* answers explain, and a replay etches everything again (LedgerClient).   *)
RemoteWaysInv ==
    /\ focus = "redis" => RedisForwarderInv
    /\ focus = "client" => LedgerClientInv

LedgerSymmetry == Permutations({w1, w2}) \cup Permutations({e1, e2})
=============================================================================
