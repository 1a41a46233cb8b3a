------------------------------ MODULE MCServer ------------------------------
(***************************************************************************)
(* Three parts of the server for TLC, one at a time: the dispatch of one   *)
(* session, SSE sessions across workers, the rate limiter.  A behaviour is *)
(* of one part; the others rest in an initial state, in which what is      *)
(* checked of them holds.  Widgets are interchangeable and so are workers, *)
(* so the first event is for a given widget and the first GET is at a      *)
(* given worker; the fairness is of other actions, which are left alone.   *)
(***************************************************************************)
EXTENDS KeyedDispatch, RateLimiter, SseWorkers

VARIABLE part

FirstKey == CHOOSE k \in Keys : TRUE
FirstWorker == CHOOSE w \in Workers : TRUE

serverVars == <<part, vars, workersVars, limiterVars>>

ServerInit ==
    /\ part \in {"dispatch", "workers", "limiter"}
    /\ Init /\ WorkersInit /\ LimiterInit
    /\ part = "dispatch" \/ concurrent
    /\ part = "workers" \/ habit = {}

ServerNext ==
    /\ UNCHANGED part
    /\ \/ part = "dispatch" /\ Next /\ UNCHANGED <<workersVars, limiterVars>>
       \/ part = "workers" /\ WorkersNext /\ UNCHANGED <<vars, limiterVars>>
       \/ part = "limiter" /\ LimiterNext /\ UNCHANGED <<vars, workersVars>>
    /\ \A n \in DOMAIN keyOf' : n = 1 => keyOf'[n] = FirstKey
    /\ \A g \in Streams : g = 1 => stream'[g].at \in {Nobody, FirstWorker}

ServerSpec == ServerInit /\ [][ServerNext]_serverVars /\ Fairness /\ WorkersFairness
=============================================================================
