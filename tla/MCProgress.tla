------------------------------ MODULE MCProgress ------------------------------
(* Small instances of what must not only stay right but also get on: the   *)
(* cluster with imported entries that share a trace id, the Redis stream   *)
(* under it, and the completion clients.  A behaviour runs the one `focus` *)
(* names; fairness is that of the component.                               *)
EXTENDS ClusterStigmergy, RedisStreamsTransport, CompletionClient, TLC

CONSTANTS n1, n2, n3

VARIABLE focus

Scored(w, i, s) == [writer |-> w, id |-> i, hash |-> i, parent |-> NoHash,
                    score |-> s, clusterHash |-> i]

(* Two writers report the same trace id, one of them equivocates. *)
SiblingEntries ==
    {[Scored(n1, 9, 2) EXCEPT !.clusterHash = 11, !.hash = 11],
     [Scored(n1, 9, 3) EXCEPT !.clusterHash = 12, !.hash = 12],
     [Scored(n2, 9, 3) EXCEPT !.clusterHash = 13, !.hash = 13]}

AnyJitter == {-50, 0, 15, 100, 250}

progressVars == <<focus, vars, redisVars, clientVars>>

ProgressInit ==
    /\ focus \in {"cluster", "redis", "client"}
    /\ Init /\ RedisInit /\ ClientInit

ProgressNext ==
    /\ UNCHANGED focus
    /\ IF focus = "cluster" THEN Next ELSE UNCHANGED vars
    /\ IF focus = "redis" THEN RedisNext ELSE UNCHANGED redisVars
    /\ IF focus = "client" THEN ClientNext ELSE UNCHANGED clientVars

ProgressSpec ==
    /\ ProgressInit /\ [][ProgressNext]_progressVars
    /\ \A n \in Nodes : WF_vars(Deliver(n))
    /\ \A n \in Nodes : /\ WF_redisVars(focus = "redis" /\ StartPoll(n))
                        /\ WF_redisVars(ServeRead(n))
                        /\ WF_redisVars(TakeAnswer(n))
    /\ ClientFairness
=============================================================================
