-------------------------- MODULE CalendarService ---------------------------
(***************************************************************************)
(* EconomicCalendarService: the snapshot of economic events that the news  *)
(* rule reads, refreshed once by start() and then by a background loop     *)
(* from the feed, the Redis cache or a fallback file.                      *)
(*                                                                         *)
(* A call of start() and the loop it spawns are one process; stop() knows  *)
(* only the loop that has been spawned.                                    *)
(***************************************************************************)
EXTENDS ComplianceRules

CONSTANTS
    Feeds,          \* what a fetch may bring: NotFetched, or a sequence of elements
    Fallback,       \* events of the static file, or NoEvents
    Starts,         \* the calls of start(), in the order they are made: 1..n
    MaxRefreshes,   \* bound: refreshes
    MaxDays         \* bound: midnights

ASSUME CalendarBounds == MaxRefreshes \in Nat /\ MaxDays \in Nat /\ Starts \subseteq Nat \ {0}

VARIABLES
    snapshot,   \* the EventIndex in use
    cache,      \* calendar:events:{date} for today and yesterday, or NoEvents
    running,    \* _running
    loopTask,   \* _refresh_task: the start() whose loop it is, or 0
    proc,       \* Starts -> place of the start() call, later of its loop
    got,        \* Starts -> events the refresh in progress has come by
    stopping,   \* the loop a stop() has cancelled and waits for, or 0
    blank,      \* history: a feed, the cache or the file has yielded no event
    overtaken,  \* history: a start() and a stop() have overlapped
    refreshes, days

calVars == <<snapshot, cache, running, loopTask, proc, got, stopping, blank,
             overtaken, refreshes, days>>

NoEvents == <<[start |-> -1]>>
NotFetched == <<[start |-> -2]>>

(* _parse_event: an element without title, country or date, or with a time    *)
(* that names no hour, is skipped; any impact is taken as it is.              *)
ParsedEvent(e) == e.complete /\ e.timed

(* parse_forex_factory_xml; text that is no XML is an empty sequence here. *)
ParseFeed(raw) == SelectSeq(raw, ParsedEvent)

Refreshing == {"fetch", "readCache", "writeCache"}
At(p) == proc[p].at
Go(p, at) == proc' = [proc EXCEPT ![p].at = at]

-----------------------------------------------------------------------------
(* start(): the flag is set, the first refresh awaited, the loop spawned.    *)

CalStart(p) ==
    /\ At(p) = "new" /\ \A q \in Starts : q < p => At(q) # "new"
    /\ IF running THEN Go(p, "done") /\ UNCHANGED running
       ELSE Go(p, "fetch") /\ running' = TRUE
    /\ overtaken' = (overtaken \/ (~running /\ stopping # 0))
    /\ UNCHANGED <<snapshot, cache, loopTask, got, stopping, blank, refreshes, days>>

(* After a refresh start() spawns the loop and forgets an older one; the loop *)
(* goes back to sleep.                                                        *)
Refreshed(p) ==
    /\ loopTask' = IF proc[p].loop THEN loopTask ELSE p
    /\ proc' = [proc EXCEPT ![p] = [at |-> "sleep", loop |-> TRUE]]

Swap(p, events) ==
    /\ snapshot' = EventIndex(events)
    /\ blank' = (blank \/ DOMAIN events = {})
    /\ Refreshed(p)

WakeUp(p) ==
    /\ At(p) = "sleep" /\ stopping # p
    /\ Go(p, "fetch")
    /\ UNCHANGED <<snapshot, cache, running, loopTask, got, stopping, blank, overtaken,
                   refreshes, days>>

FetchAndParse(p) ==
    /\ At(p) = "fetch" /\ stopping # p /\ refreshes < MaxRefreshes
    /\ refreshes' = refreshes + 1
    /\ \E raw \in Feeds :
         /\ got' = [got EXCEPT ![p] = IF raw = NotFetched THEN NoEvents ELSE ParseFeed(raw)]
         /\ Go(p, IF raw = NotFetched THEN "readCache" ELSE "writeCache")
    /\ UNCHANGED <<snapshot, cache, running, loopTask, stopping, blank, overtaken, days>>

(* setex may fail: the snapshot is built all the same. *)
CacheToRedis(p) ==
    /\ At(p) = "writeCache" /\ stopping # p
    /\ cache' \in {cache, [cache EXCEPT !.today = got[p]]}
    /\ Swap(p, got[p])
    /\ got' = [got EXCEPT ![p] = NoEvents]
    /\ UNCHANGED <<running, stopping, overtaken, refreshes, days>>

Cached == IF cache.today # NoEvents THEN cache.today ELSE cache.yesterday

(* The cache, unless Redis fails, then the file, then what there is. *)
ReadCacheOrFile(p) ==
    /\ At(p) = "readCache" /\ stopping # p
    /\ \E read \in {Cached, NoEvents} :
         LET events == IF read # NoEvents THEN read ELSE Fallback
         IN  IF events # NoEvents THEN Swap(p, events)
             ELSE Refreshed(p) /\ UNCHANGED <<snapshot, blank>>
    /\ UNCHANGED <<cache, running, got, stopping, overtaken, refreshes, days>>

-----------------------------------------------------------------------------
(* stop(): the loop is cancelled and awaited.                              *)

(* Mutant of CalStop: the loop is left running. *)
CalStopForgets ==
    /\ running /\ stopping = 0
    /\ running' = FALSE /\ loopTask' = 0
    /\ UNCHANGED <<snapshot, cache, proc, got, stopping, blank, overtaken, refreshes, days>>

CalStop ==
    /\ running /\ stopping = 0
    /\ running' = FALSE
    /\ stopping' = loopTask
    /\ overtaken' = (overtaken \/ \E p \in Starts : ~proc[p].loop /\ At(p) \in Refreshing)
    /\ UNCHANGED <<snapshot, cache, loopTask, proc, got, blank, refreshes, days>>

(* The cancellation is raised at whatever the loop awaits. *)
LoopCancelled ==
    /\ stopping # 0
    /\ Go(stopping, "done")
    /\ stopping' = 0
    /\ loopTask' = 0
    /\ UNCHANGED <<snapshot, cache, running, got, blank, overtaken, refreshes, days>>

Midnight ==
    /\ days < MaxDays
    /\ days' = days + 1
    /\ cache' = [today |-> NoEvents, yesterday |-> cache.today]
    /\ UNCHANGED <<snapshot, running, loopTask, proc, got, stopping, blank, overtaken, refreshes>>

(* The key of yesterday has reached its time to live. *)
CacheExpires ==
    /\ cache.yesterday # NoEvents
    /\ cache' = [cache EXCEPT !.yesterday = NoEvents]
    /\ UNCHANGED <<snapshot, running, loopTask, proc, got, stopping, blank, overtaken,
                   refreshes, days>>

CalInit ==
    /\ snapshot = <<>>
    /\ cache = [today |-> NoEvents, yesterday |-> NoEvents]
    /\ running = FALSE
    /\ loopTask = 0
    /\ proc = [p \in Starts |-> [at |-> "new", loop |-> FALSE]]
    /\ got = [p \in Starts |-> NoEvents]
    /\ stopping = 0
    /\ blank = FALSE
    /\ overtaken = FALSE
    /\ refreshes = 0 /\ days = 0

CalNext ==
    \/ \E p \in Starts :
        CalStart(p) \/ WakeUp(p) \/ FetchAndParse(p) \/ CacheToRedis(p) \/ ReadCacheOrFile(p)
    \/ CalStop \/ LoopCancelled \/ Midnight \/ CacheExpires

-----------------------------------------------------------------------------
(* Properties.                                                             *)

(* The news rule does not start to fail open by itself: once the snapshot     *)
(* holds events it is never without, whichever sources fail, expire or are    *)
(* cancelled in between, until a source has answered with no event at all.    *)
KnownEventsKept == snapshot # <<>> => snapshot' # <<>> \/ blank'

(* A service that was stopped refreshes no more: no loop survives its stop(), *)
(* unless a start() and a stop() overlapped.                                  *)
QuietAfterStop ==
    ~running /\ stopping = 0 /\ ~overtaken =>
        \A p \in Starts : At(p) \in {"new", "done"}

(* No step empties the snapshot of a service by a failure, and none leaves a  *)
(* stopped service refreshing.                                                *)
CalendarSound == [][KnownEventsKept /\ QuietAfterStop']_calVars

CalSpec == CalInit /\ [][CalNext]_calVars
=============================================================================
