----------------------------- MODULE HistoryCache -----------------------------
(***************************************************************************)
(* The cache of provider history (history-cache.js), as the history service *)
(* uses it (history.service.js): requests that share a load, entries that  *)
(* expire and are evicted, and the clearing of the cache when the stream    *)
(* recovers from an outage (market.runtime.js).                            *)
(*                                                                         *)
(* The bars of a load are their number and the generation they were        *)
(* fetched in: the provider may answer before or after an outage.          *)
(***************************************************************************)
EXTENDS Integers, Sequences

CONSTANTS
  HistoryKey,      \* provider symbol, timeframe and cursor
  HistoryRequest,  \* the calls of getOrLoad()
  Limit,           \* the limits that are asked for
  Available,       \* how many bars the provider has of a key
  MaxEntries,      \* maxEntries
  MaxBars,         \* maxBars
  MaxRecoveries    \* bound: calls of clear()

NoRequest == "none"

ASSUME HistoryAssumption ==
  /\ Limit \subseteq Nat \ {0} /\ Available \in [HistoryKey -> Nat]
  /\ MaxEntries \in Nat \ {0} /\ MaxBars \in Nat \ {0} /\ MaxRecoveries \in Nat
  /\ NoRequest \notin HistoryRequest

VARIABLES
  entries,     \* entries, the oldest first, as the map of insertion order
  totalBars,
  inFlight,    \* inFlight: the request that loads the key, or NoRequest
  generation,
  asks,        \* the calls of getOrLoad()
  fetched      \* history: the bars that the load of a request returned

historyCacheVars == <<entries, totalBars, inFlight, generation, asks, fetched>>

Generation == 0 .. MaxRecoveries
Load == [bars : Nat, generation : Generation]
NoLoad == [bars |-> 0, generation |-> 0]
EntryOf == [key : HistoryKey, limit : Limit, exhausted : BOOLEAN, bars : Nat \ {0}, generation : Generation]
Ask == [step : {"new", "looks", "waits", "loads", "answered", "failed"}, key : HistoryKey, limit : Limit,
        from : HistoryRequest \cup {NoRequest}, asked : Generation, started : Generation,
        answer : Load]

CacheTypeOK ==
  /\ entries \in Seq(EntryOf) /\ Len(entries) <= MaxEntries
  /\ inFlight \in [HistoryKey -> HistoryRequest \cup {NoRequest}]
  /\ generation \in Generation
  /\ asks \in [HistoryRequest -> Ask]
  /\ fetched \in [HistoryRequest -> [done : {"no", "yes", "failed"}, load : Load]]
  /\ totalBars \in Nat

NewAsk(k, n) == [step |-> "new", key |-> k, limit |-> n, from |-> NoRequest, asked |-> 0, started |-> 0,
                 answer |-> NoLoad]

CacheInit ==
  /\ entries = <<>> /\ totalBars = 0
  /\ inFlight = [k \in HistoryKey |-> NoRequest]
  /\ generation = 0
  /\ \E k \in [HistoryRequest -> HistoryKey], n \in [HistoryRequest -> Limit] :
       asks = [r \in HistoryRequest |-> NewAsk(k[r], n[r])]
  /\ fetched = [r \in HistoryRequest |-> [done |-> "no", load |-> NoLoad]]

-----------------------------------------------------------------------------
(***************************************************************************)
(* The entries: #get(), #set() and #evict().                               *)
(***************************************************************************)
Smaller(m, n) == IF m < n THEN m ELSE n
AboveZero(n) == IF n > 0 THEN n ELSE 0

\* The bars of the entries of es, added up.
BarsOf(es) ==
  LET upTo[n \in 0 .. Len(es)] == IF n = 0 THEN 0 ELSE upTo[n - 1] + es[n].bars
  IN  upTo[Len(es)]

Removed(es, i) == SubSeq(es, 1, i - 1) \o SubSeq(es, i + 1, Len(es))

\* What the cache holds and counts: a state of it, and what #delete(), the steps
\* of #set() and those of #evict() make of one.
Cache == [entries |-> entries, total |-> totalBars]
SetCache(c) == entries' = c.entries /\ totalBars' = c.total

Places(es, k) == {i \in 1 .. Len(es) : es[i].key = k}

DeleteAt(c, i) == [entries |-> Removed(c.entries, i), total |-> AboveZero(c.total - c.entries[i].bars)]
Delete(c, k) == IF Places(c.entries, k) = {} THEN c ELSE DeleteAt(c, CHOOSE i \in Places(c.entries, k) : TRUE)
Put(c, e) == [entries |-> Append(c.entries, e), total |-> c.total + e.bars]
WithoutOldest(c, n) ==
  [entries |-> SubSeq(c.entries, n + 1, Len(c.entries)),
   total |-> AboveZero(c.total - BarsOf(SubSeq(c.entries, 1, n)))]

Fits(c) == Len(c.entries) <= MaxEntries /\ c.total <= MaxBars

\* #evict(): the oldest entries go until the rest fits.
Evict(c) ==
  \E n \in 0 .. Len(c.entries) :
    /\ Fits(WithoutOldest(c, n)) \/ n = Len(c.entries)
    /\ \A m \in 0 .. n - 1 : ~Fits(WithoutOldest(c, m))
    /\ SetCache(WithoutOldest(c, n))

\* The entry that #get() finds for a request, if any, moves to the end of the map.
Hits(r) == {i \in Places(entries, asks[r].key) : entries[i].exhausted \/ entries[i].limit >= asks[r].limit}
Touch(i) == entries' = Append(Removed(entries, i), entries[i]) /\ UNCHANGED totalBars
AnswerOf(e, n) == [bars |-> Smaller(e.bars, n), generation |-> e.generation]

Stored(k, n, load) ==
  [key |-> k, limit |-> n, exhausted |-> load.bars < n, bars |-> load.bars, generation |-> load.generation]

Expire ==
  /\ \E i \in 1 .. Len(entries) : SetCache(DeleteAt(Cache, i))
  /\ UNCHANGED <<inFlight, generation, asks, fetched>>

-----------------------------------------------------------------------------
(***************************************************************************)
(* getOrLoad().                                                            *)
(***************************************************************************)
Answered(r, load) == asks' = [asks EXCEPT ![r].step = "answered", ![r].answer = load]

\* What a request does that found no entry: it waits for the load of its key,
\* or starts one.
JoinOrLoad(r, ask) ==
  LET loader == inFlight[ask.key] IN
  IF loader # NoRequest
  THEN /\ asks' = [asks EXCEPT ![r] = [ask EXCEPT !.step = "waits", !.from = loader]]
       /\ UNCHANGED inFlight
  ELSE /\ asks' = [asks EXCEPT ![r] = [ask EXCEPT !.step = "loads", !.started = generation]]
       /\ inFlight' = [inFlight EXCEPT ![ask.key] = r]

LookUp(r, ask) ==
  /\ \/ \E i \in Hits(r) :
          /\ Touch(i) /\ UNCHANGED inFlight
          /\ asks' = [asks EXCEPT ![r] = [ask EXCEPT !.step = "answered",
                                                     !.answer = AnswerOf(entries[i], ask.limit)]]
     \/ Hits(r) = {} /\ JoinOrLoad(r, ask) /\ UNCHANGED <<entries, totalBars>>
  /\ UNCHANGED <<generation, fetched>>

Request(r) == asks[r].step = "new" /\ LookUp(r, [asks[r] EXCEPT !.asked = generation])

\* The load that the request waited for came to an end.
WaitEnds(r) ==
  /\ asks[r].step = "waits" /\ fetched[asks[r].from].done = "yes"
  /\ LookUp(r, asks[r])

WaitFails(r) ==
  /\ asks[r].step = "waits" /\ fetched[asks[r].from].done = "failed"
  /\ asks' = [asks EXCEPT ![r].step = "failed"]
  /\ UNCHANGED <<entries, totalBars, inFlight, generation, fetched>>

\* Mutant of Unregister: the load stays registered.
UnregisterNever(r) == inFlight' = inFlight

\* The finally() of a load, which runs in the turn of its result.
Unregister(r) ==
  inFlight' = IF inFlight[asks[r].key] = r THEN [inFlight EXCEPT ![asks[r].key] = NoRequest] ELSE inFlight

\* Mutant of MayStore: the generation is not compared.
MayStoreAnyBars(r, load) == load.bars > 0

MayStore(r, load) == load.bars > 0 /\ asks[r].started = generation

\* The provider answered, at some time since the load was started.
LoadEnds(r) ==
  /\ asks[r].step = "loads"
  /\ \E g \in asks[r].started .. generation :
       LET load == [bars |-> Smaller(asks[r].limit, Available[asks[r].key]), generation |-> g] IN
       /\ fetched' = [fetched EXCEPT ![r] = [done |-> "yes", load |-> load]]
       /\ IF MayStore(r, load)
          THEN Evict(Put(Delete(Cache, asks[r].key), Stored(asks[r].key, asks[r].limit, load)))
          ELSE UNCHANGED <<entries, totalBars>>
       /\ Answered(r, load)
  /\ Unregister(r)
  /\ UNCHANGED generation

LoadFails(r) ==
  /\ asks[r].step = "loads"
  /\ fetched' = [fetched EXCEPT ![r].done = "failed"]
  /\ asks' = [asks EXCEPT ![r].step = "failed"]
  /\ Unregister(r)
  /\ UNCHANGED <<entries, totalBars, generation>>

\* clear(), when the stream is live again after an outage.
Clear ==
  /\ generation < MaxRecoveries /\ generation' = generation + 1
  /\ entries' = <<>> /\ totalBars' = 0
  /\ inFlight' = [k \in HistoryKey |-> NoRequest]
  /\ UNCHANGED <<asks, fetched>>

-----------------------------------------------------------------------------
CacheNext ==
  \/ \E r \in HistoryRequest : Request(r) \/ WaitEnds(r) \/ WaitFails(r) \/ LoadEnds(r) \/ LoadFails(r)
  \/ Expire \/ Clear

\* A load ends, and who waits for it goes on.
CacheFairness ==
  \A r \in HistoryRequest : WF_historyCacheVars(WaitFails(r) \/ LoadFails(r) \/ WaitEnds(r) \/ LoadEnds(r))

CacheSpec == CacheInit /\ [][CacheNext]_historyCacheVars /\ CacheFairness

-----------------------------------------------------------------------------
\* "Never let a pre-outage response repopulate the post-recovery cache"
\* (history-cache.js:70): what is cached was fetched since the last recovery,
\* and so is what a request gets that was made since, whether it hit, waited or
\* loaded.
AnswersFollowRecovery ==
  /\ \A i \in 1 .. Len(entries) : entries[i].generation = generation
  /\ \A r \in HistoryRequest : asks[r].step = "answered" => asks[r].answer.generation >= asks[r].asked

\* A request gets as many bars as it asked for, if the provider has them,
\* although a smaller request may have filled the cache before or be loading.
AnswersAreWhole ==
  \A r \in HistoryRequest :
    asks[r].step = "answered" => asks[r].answer.bars = Smaller(asks[r].limit, Available[asks[r].key])

\* The bars that are counted are the bars that are held, within the limit.
BarsAreCounted == totalBars = BarsOf(entries) /\ totalBars <= MaxBars

\* A key is loaded once at a time, but for loads from before a recovery.
OneLoadPerKey ==
  \A r, o \in HistoryRequest :
    /\ asks[r].step = "loads" /\ asks[o].step = "loads" /\ asks[r].key = asks[o].key
    /\ asks[r].started = asks[o].started
    => r = o

\* Every request is answered or fails: whoever waits for the load of another
\* request goes on when it ends, even if the load left nothing in the cache.
RequestsAreAnswered ==
  \A r \in HistoryRequest : asks[r].step # "new" ~> asks[r].step \in {"answered", "failed"}

\* A key has one entry, with the bars that a load of its limit gives.
EntriesAreLoads ==
  /\ \A i, j \in 1 .. Len(entries) : entries[i].key = entries[j].key => i = j
  /\ \A i \in 1 .. Len(entries) :
       /\ entries[i].bars = Smaller(entries[i].limit, Available[entries[i].key])
       /\ entries[i].exhausted = (entries[i].bars < entries[i].limit)

\* A load is registered for its key from its start to its end, unless a recovery
\* came between.
LoadsAreRegistered ==
  /\ \A k \in HistoryKey :
       inFlight[k] # NoRequest =>
         asks[inFlight[k]].step = "loads" /\ asks[inFlight[k]].key = k /\ asks[inFlight[k]].started = generation
  /\ \A r \in HistoryRequest :
       asks[r].step = "loads" /\ asks[r].started = generation => inFlight[asks[r].key] = r

\* A request waits for another one, and loads since it was made.
AsksAreInTime ==
  \A r \in HistoryRequest :
    /\ asks[r].asked <= generation
    /\ asks[r].step = "waits" => asks[r].from \in HistoryRequest
    /\ asks[r].step = "loads" => asks[r].asked <= asks[r].started /\ asks[r].started <= generation

\* The cache gives whole answers of its own time, and counts and loads what it
\* should (history-cache.js).
CacheIsSound ==
  CacheTypeOK /\ AnswersFollowRecovery /\ AnswersAreWhole /\ BarsAreCounted /\ OneLoadPerKey

CacheInv == CacheIsSound /\ EntriesAreLoads /\ LoadsAreRegistered /\ AsksAreInTime
=============================================================================
