------------------------------- MODULE Service -------------------------------
(* The parts of OpenGET that run beside each other. A behaviour is of one     *)
(* part: the feed, the request limiter, the snapshot of the status pages, the *)
(* migrations, the backfill, the nightly timer, the indices or the minting of *)
(* tokens; the others stay as they begin. Restore codes, fees and profits are *)
(* pure.                                                                      *)
EXTENDS Feed

CONSTANTS
    Caller, Gap, LastTime, MaxSlots,                    \* of Limiter
    Scan, Parts, MaxFails,                              \* of StatusCache
    Opener, Knows, MaxCrashes,                          \* of Migrations
    Items, Steps, BatchSize, MaxMishaps,                \* of Backfill
    Day, Hour, Period, MaxWork, LastHour,               \* of Nightly
    Sampler, Index, Raw, MaxSlips,                      \* of Indices
    Browser, Token, PerHour, MaxRequests, Halves,       \* of Minting
    TokenLen                                            \* of Codes

VARIABLES
    live,               \* the part the behaviour is of
    now, next, call, slots, sent,
    running, measured, snapshot, fails,
    version, made, opening, crashes,
    listed, mark, stored, loop, low, unlisted, mishaps,
    clock, phase, deadline, tick, task, paused, done, free,
    file, known, table, base, points, job, doubted, slips,
    cookie, requests, data, minted, time, used, asked, writer, loose

LM == INSTANCE Limiter WITH MaxTime <- LastTime
SC == INSTANCE StatusCache
MG == INSTANCE Migrations WITH Process <- Opener
BF == INSTANCE Backfill WITH MaxTroubles <- MaxMishaps, troubles <- mishaps
NT == INSTANCE Nightly WITH MaxTime <- LastHour
IX == INSTANCE Indices WITH Process <- Sampler, MaxTroubles <- MaxSlips, mishaps <- slips
TX == INSTANCE Tax
CD == INSTANCE Codes
MT == INSTANCE Minting

ASSUME PartsAssumption ==
    /\ LM!LimiterAssumption /\ SC!StatusAssumption /\ MG!MigrationsAssumption /\ BF!BackfillAssumption
    /\ NT!NightlyAssumption /\ IX!IndicesAssumption /\ MT!MintingAssumption /\ CD!CodesAssumption

limitervars == <<now, next, call, slots, sent>>
cachevars   == <<running, measured, snapshot, fails>>
schemavars  == <<version, made, opening, crashes>>
backvars    == <<listed, mark, stored, loop, low, unlisted, mishaps>>
nightvars   == <<clock, phase, deadline, tick, task, paused, done, free>>
indexvars   == <<file, known, table, base, points, job, doubted, slips>>
mintvars    == <<cookie, requests, data, minted, time, used, asked, writer, loose>>
servicevars == <<live, vars, limitervars, cachevars, schemavars, backvars, nightvars, indexvars, mintvars>>

ServiceInit ==
    /\ live \in {"feed", "limiter", "cache", "schema", "backfill", "night", "indices", "mint", "laws"}
    /\ Init /\ (live = "feed" \/ catalogue = {})
    /\ LM!Init /\ SC!Init /\ MG!Init
    /\ BF!Init /\ (live = "backfill" \/ listed = BF!Ids)
    /\ NT!Init /\ (live = "night" \/ (clock = 0 /\ phase = 0 /\ ~paused))
    /\ IX!Init /\ (live = "indices" \/ (file = {} /\ known))
    /\ MT!Init

Still(part, v) == IF live = part THEN TRUE ELSE UNCHANGED v

ServiceNext ==
    /\ UNCHANGED live
    /\ Still("feed", vars) /\ Still("limiter", limitervars) /\ Still("cache", cachevars)
    /\ Still("schema", schemavars) /\ Still("backfill", backvars) /\ Still("night", nightvars)
    /\ Still("indices", indexvars) /\ Still("mint", mintvars)
    /\ \/ live = "feed" /\ Next
       \/ live = "limiter" /\ LM!Next
       \/ live = "cache" /\ SC!Next
       \/ live = "schema" /\ MG!Next
       \/ live = "backfill" /\ BF!Next
       \/ live = "night" /\ NT!Next
       \/ live = "indices" /\ IX!Next
       \/ live = "mint" /\ MT!Next

\* Every job of every process has a loop of its own, so each goes on; the game
\* is traded in, so /latest changes for ever, while a game update may never
\* come. Goroutines and loops that have begun go on, systemd starts what has
\* failed, and somebody looks at a status page again and again.
ServiceFairness ==
    /\ WF_vars(live = "feed" /\ PublishLatest)
    /\ \A p \in Process :
        /\ \A e \in Endpoint : WF_vars(live = "feed" /\ Fetch(p, e))
        /\ WF_vars(live = "feed" /\ StoreMapping(p))
        /\ WF_vars(live = "feed" /\ StoreLatest(p))
        /\ WF_vars(live = "feed" /\ Recompute(p))
    /\ \A s \in Scan : WF_cachevars(live = "cache" /\ (SC!Measure(s) \/ SC!Publish(s)))
    /\ WF_cachevars(live = "cache" /\ \E s \in Scan : SC!Ask(s))
    /\ \A p \in Opener : WF_schemavars(live = "schema" /\ MG!Goes(p))
    /\ WF_backvars(live = "backfill" /\ BF!Pass)

ServiceSpec == ServiceInit /\ [][ServiceNext]_servicevars /\ ServiceFairness
------------------------------------------------------------------------------

\* What the parts promise at every moment: requests are sent a gap apart, one
\* scan runs, the version of the schema and the marks of the backfill are true,
\* no night is lost, the points of an index can be compared, and what is stored
\* under a token is within reach of the browser that did it.
ServiceSound ==
    /\ TypeOK
    /\ LM!TypeOK /\ LM!SlotsApart /\ LM!RateKept
    /\ SC!OneScan
    /\ MG!TypeOK /\ MG!VersionTruthful
    /\ BF!TypeOK /\ BF!MarksTruthful
    /\ NT!TypeOK /\ NT!NightsKept
    /\ IX!TypeOK /\ IX!OneBase /\ IX!PointsHaveIndex
    /\ MT!TypeOK /\ MT!StoredIsReachable /\ MT!MintsLimited

\* Restore codes are read as they were shown, and fees and profits agree
\* wherever they are computed.
LawsHold == live = "laws" => CD!CodesRoundTrip /\ TX!TaxLaws

\* What is begun gets done: what the polls store is shown, a stale snapshot is
\* replaced, whoever was beaten to a migration gets in, and items that wait for
\* their history have it sought.
JobsGoOn ==
    /\ live = "feed" => StatsFollow
    /\ live = "cache" => SC!Refreshed
    /\ live = "schema" => MG!OpensInTheEnd
    /\ live = "backfill" => BF!ItemsGetDone
=============================================================================
