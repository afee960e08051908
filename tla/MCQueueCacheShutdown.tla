-------------------------- MODULE MCQueueCacheShutdown --------------------------
(***************************************************************************)
(* The queue of commands, the cache of the history, and the shutdown of    *)
(* the process, side by side: a behaviour is one of the three, and the     *)
(* others rest.                                                            *)
(***************************************************************************)
EXTENDS MCAccountCommandQueue, HistoryCache, RuntimeShutdown

VARIABLE part

partVars == <<part, vars, historyCacheVars, shutdownVars>>

\* The provider has fewer bars of "a" than the largest request asks for.
MCAvailable == [k \in HistoryKey |-> IF k = "a" THEN 2 ELSE 3]

\* One initial state of the cache is enough for it to rest in.
PartInit ==
  /\ part \in {"queue", "cache", "shutdown"} /\ Init /\ CacheInit /\ ShutdownInit
  /\ part # "cache" => \A r \in HistoryRequest : asks[r].key = "a" /\ asks[r].limit = 1

PartNext ==
  \/ part = "queue" /\ Next /\ UNCHANGED <<part, historyCacheVars, shutdownVars>>
  \/ part = "cache" /\ CacheNext /\ UNCHANGED <<part, vars, shutdownVars>>
  \/ part = "shutdown" /\ ShutdownNext /\ UNCHANGED <<part, vars, historyCacheVars>>

\* None of the fair actions of a component is enabled in its initial states, so
\* the fairness of those that rest asks for nothing.
PartSpec ==
  PartInit /\ [][PartNext]_partVars /\ QueueFairness /\ CacheFairness /\ ShutdownFairness
=============================================================================
