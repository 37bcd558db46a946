# Verification of OpenGET, the site scripts and the browser programs

TLA+ models of the parts of this repository whose correctness depends on the
order in which things happen: the price service OpenGET (`openget/`, Go over
SQLite), the shell scripts that commit and promote the site, and the programs
that run in visitors' browsers (an interpreter, a game for one and for several,
a page renderer, letters, a theme switcher). TLC checks the models on small
instances, and TLAPS proves what matters most for every value of the constants.

Paths below are relative to the repository root. `PROJECT.json` names the lines
each definition stands for, the hazards at their lines, and a mutant of the
code that each property catches.

- [Inventory](#inventory)
- [Modules](#modules)
- [Runs](#runs)
- [Bounds](#bounds)
- [Fairness](#fairness)
- [Proofs](#proofs)
- [What the code does and its comments do not say](#what-the-code-does-and-its-comments-do-not-say)
- [Not modelled](#not-modelled)
- [Plan](#plan)

## Inventory

OpenGET is one process. `ingest.Run` starts a goroutine per job (mapping,
latest, the bucket polls, indices, shops, backfill, retro pages) and one for
nightly maintenance; the web server runs a goroutine per request. They share
nothing but the database, a client of the upstream API with its rate limiter
and ETags, and a flag that pauses the jobs when the disk is nearly full. The
database is one SQLite file with a pool of readers and one write connection, so
that a statement is atomic and two of them are not. `openget -once <job>` runs
a job in a second process on the same file.

The site around it is committed through a hook that rewrites and stages files,
and promoted to the machine by a script that the operator runs by hand. Its pages
carry JavaScript: one thread per tab, whose handlers, timers and answers of the
network come in an order nobody chose; tabs share `localStorage`, and the
browsers of a race exchange messages over WebRTC channels.

| Component | State | Operations | Hard because | Correct when |
|---|---|---|---|---|
| personal data (`store/ident.go`, `web/personal.go`) | `tokens`, `favourites`, `ledger`, `alerts`, `prefs` | touch, count, insert as three statements; import line by line; delete; forget; prune of dormant tokens | any other request, the prune or a forget may come between the statements; clients hang up; statements fail; the write connection may be replaced | no row outlives its token; caps hold as far as concurrency lets them |
| price alerts (`store/ident.go`, `ingest.go`) | `alerts.last_fired`, `alert_events`, `item_stats` | snapshot of all alerts, then per alert: re-read, append, update | a second evaluator; deletions and forgets in the middle; failures and restarts between append and update | an alert fires once per crossing, on prices that are shown |
| price archive (`store/write.go`, `ingest.go`) | `prices_5m`, `prices_1h`, `prices_24h`, `backfill_state` | bulk poll, backfill, two rollups, prunes | polls are missed; maintenance fails or does not run for days; rollups meet buckets that are still open | what is pruned has a coarser row over it; gaps are filled; no row counts less than it did |
| price feed (`wiki/wiki.go`, `ingest.go`, `store/write.go`) | ETags in memory, `items`, `latest`, `item_stats` | conditional fetch, store, recompute | the ETag is remembered before the answer is stored; answers break off; ids precede their mapping | the tables catch up with upstream |
| shop offers (`ingest.go`, `store/shops.go`, `wiki/bucket.go`) | `shop_offers`, the `shops_fetched_at` stamp, the loop's timer | freshness guard, paged read, replacement, stamp | two processes; table and stamp are separate statements; timer and stamp are compared exactly | the stamp dates the table; offers do not get old |
| request limiter and retries (`wiki/wiki.go`) | time of the next slot | take a slot, wait, try three times | concurrent callers, cancellation | requests keep their distance |
| market indices (`store/recipes.go`, `store/indices.go`) | bases, points, retirement | resolve, value, chain | bases and points are separate statements; indices are resolved at start-up only | an index is continuous while it lives |
| backfill loop (`ingest.go`) | items without a mark | list, fetch, seed, mark | a refused store neither marks nor sleeps | every item is seeded, upstream is not flooded |
| nightly timer (`ingest.go`) | time of the next maintenance | select over timer and disk check | both may be due together | maintenance runs every night |
| archive statistics (`store/status.go`) | cached snapshot, in-flight flag | read, refresh in the background | many readers at once, timeouts | one refresh at a time, never none for ever |
| schema migrations (`store/store.go`) | `schema_version` | run what is missing | two processes starting together | each runs once |
| minting and session (`web/personal.go`) | cookie, per-address limiter | mint, restore | two first writes of one browser | what was stored is reachable |
| restore codes (`ident/token.go`) | none | format, parse | typed by hand | parsing undoes formatting |
| tax and recipes (`calc/`, `store/query.go`) | none | tax in Go and in SQL | rounding, the cap, exempt items | both agree |
| retro pages (`retro/retro.go`) | static pages, time of the last build | debounce, build, rename | stamped before it is built | readers see whole pages, no older than the period |
| poll bookkeeping (`store/write.go`) | `poll_runs` | start, finish, trim | a run that is cut off never finishes | the last runs are kept |
| commit hook (`preCommit.sh` and what it calls) | working tree, index, commit | seven generators in a row, each behind a guard of its own | steps stage files for later steps' guards to see; a step may abort | what is committed is what was staged and what its sources say |
| site promotion (`promoteSite.sh`) | repository, `/etc`, what services have read | install, test, reload, restart, probe, roll back | it may end anywhere and is run again; the machine reboots | nothing refused is read; a rollback restores; re-running converges |
| staging (`stageSite.sh`, start of `promoteSite.sh`) | staged tree, docroot | gates, rsync | gates look at one tree, rsync at another | only what passed is published |
| status sampler (`statusSample/`, `cgi/status.cgi`) | sample log | append, trim, read | the reader meets a trim | no sample is counted twice |
| !~ATH interpreter (`rootdomain/personal/ath/tildeath.js`) | entities, scopes, branches, timers | lex, parse, evaluate; import, bifurcate, die, wait, call | one field holds the scope of all branches; names are reused while a loop waits; composites die through listeners | nothing runs before what it waits for has died; branches are joined; scopes are restored; what is written is what is read |
| wiktionary races (`rootdomain/personal/wiktionaryRacingV2/multiplayer.js`, `game.js`) | a copy of the lobby per browser, the host's countdown, channels | join, ready, start, move, finish, leave, disconnect | every lobby-state replaces a guest's copy; channels break; timers go on | copies agree when nothing is on its way; nobody starts early; finishes are counted |
| wiktionary game (`wiktionaryRacingV2/game.js`) | screen, path, clock, history | daily, practice, click, back, home | pages and lookups are answered in any order, or never | clicks, path, clock and history agree |
| Hypnospace renderer (`rootdomain/hsptohtml/README/lib/hsp.js`) | elements, animation timers, zoom, music, `localStorage` | build, tick, press a control | builds wait for images and overlap; music needs a gesture | a page ends complete; what is shown as chosen was chosen |
| letters and theme (`rootdomain/oldsite/*/script.js`, `theme.js`) | tab, panels, sections, saved theme | choose, scroll, type, switch | reduced motion, other tabs | what has come into view stays readable; switcher and page agree |

The web pages and the JSON API only read; configuration, templates, content,
`triptych.pl` and the asset builders translate files.

## Modules

### TokenStore

A request that stores something is a handler with a `pc`: `touch` (`TouchToken`),
`count` (the `SELECT COUNT(*)` against the cap), `insert`; preferences go from
`touch` to `upsert`. An import is the same handler going round once per line.
`held[k][t]` holds the keys of the rows of table `k` that token `t` owns, `seq` is
SQLite's AUTOINCREMENT, `fk` the `foreign_keys` pragma of the write connection.
`ForeignKeyFails` is the insert whose token went meanwhile. `StatementFails`,
`ClientGone` and `ClientGoneMidWrite` are what may happen to any statement; the
last one makes `database/sql` replace the connection, and the new one has not
seen the pragmas that `Open` ran on the first. `Forget` and `PruneTokens` delete
tokens and, where `fk` is on, cascade. Fields of a row that no guard reads are
left out; forms with unusable fields never reach the store.

`NoOrphans`: no row of any table outlives its token, while the write connection
is the one `Open` set up. `CapOvershoot`: a cap is exceeded by at most one row
per further request in flight. `PerTokenCap`, the cap as the comments put it,
is what `CapIsExactInSequence` proves of requests served one at a time.

### EdgeTrigger and Alerts

`EdgeTrigger` is the promise of `web/personal.go:703` without a database: an
alert that is armed and whose condition holds gets its one entry and is spent;
it is armed again when the condition stops holding; one whose condition goes on
holding does fire.

`Alerts` is `Recompute` and `EvaluateAlerts`: `ComputeStats` replaces
`item_stats`, `Snapshot` is the join with a verdict per alert, and for each
result `StartFiring`, `StartRearming` or `LeaveAlone` is the re-read of
`last_fired` together with the branch taken. `InsertEvent`, `SetLastFired` and
`ClearLastFired` are the separate writes. `TokenGone` is the insert that violates
its foreign key and abandons the rest of the round. `entries[a]` is a history
variable: the events of `a` since it was last armed with nothing in flight.

The refinement maps `armed` to the alerts that are neither marked as fired nor
in the feed about to be marked. `DuplicatesBounded` is what is left of the
promise when a second process evaluates, or a statement fails: one entry per
evaluator and one per failure. `forgotten` and `left[a]` are of the rows of `alert_events`
that a forgotten code leaves or gets: none, but for what an evaluator was about to
append when the code went, if the code is there again (`ForgetHolds`).

### Archive

One item; no statement relates the rows of two. A row is known by the
five-minute buckets whose trades it counts, so `rows[t]` is a set of them, and a
row of a tier exists when it counts any. `BucketPoll` replaces the row of the
bucket upstream serves; `Backfill` adds rows where there are none; `Rollup` adds
a coarser row where there is none, from the finer rows in the window; `Prune`
deletes by age. `pc` walks maintenance through its five statements, all with the
time read at the start; `MaintenanceFails`, `Pause` (the disk guard) and `Stop`
are the outages, as long and as many nights as they may be. Two history variables: `rolledAt`, when the
last maintenance whose rollups both succeeded began, and `skipped[t]`, the rows of `t`
that a rollup came too late for: stored after the last rollups, and before its
window (`TooLate`). From one night to the next there are none; after a missed
night the window of exactly two days (`ingest.go:441`) leaves out what was
stored in the minutes before the last rollup, or just after it.

`AbsorbedBeforePrune` (`ingest.go:452`) and `GapsFilled` (`write.go:233`, a part of
`TiersSound`) relate two tiers, the windows and the outages, of every row but the
skipped ones; `RowsOnlyGrow` says that a rollup never
replaces a fuller row, and that history seeded late never undoes a poll.

### Feed

`fresh[p][e]` says whether upstream's answer at endpoint `e` is one whose ETag
process `p` does not remember: a poll of anything else is a 304 and changes
nothing. `Fetch` remembers the ETag and holds the answer, `FetchBreaksOff` keeps
the old one, `StoreMapping`, `StoreLatest` and `Recompute` are the writes.
`due` holds the ids whose `latest` row is newer than their `item_stats` row.

### The smaller parts of OpenGET, and Service

Each is a module with variables and a next-state relation of its own. They share
no state but the tables other modules own, so `Service` puts them side by side,
a behaviour of one part each (`live`), next to `Feed`; `ServiceSound` and `JobsGoOn`
are the conjunctions of what they promise. `MCService` is its instance.

- `Limiter` (`wiki/wiki.go`): `Take` is the critical section that hands out a slot,
  `Send` the timer, which may fire late, then answers, backoff and up to three
  attempts; `Cancel` gives a slot up. `SlotsApart`, and `RateKept`: no more requests
  were ever sent than one per gap.
- `StatusCache` (`store/status.go`): `Ask` gives the snapshot there is and starts a
  scan unless one runs; a scan measures part by part, fails or times out.
  `OneScan`; `Refreshed`: a stale snapshot is replaced in the end.
- `Migrations` (`store/store.go`): the version is read outside the transactions; a
  migration creates its tables and bumps the version in one. `VersionTruthful`: what
  the version says was made was made, in order; `OpensInTheEnd`.
- `Backfill` (`ingest.go`): the loop over steps, batches and items, with question,
  history and mark as separate steps. `MarksTruthful`: no item counts as seeded
  without its history; `ItemsGetDone`: one that waits is asked about in the end.
- `Nightly` (`ingest.go`): the `select` over the maintenance timer and the disk
  ticker, either of which may be taken when both are due. `NightsKept`: a night that
  finds the loop free and the disk roomy has its maintenance.
- `Indices` (`store/recipes.go`, `store/indices.go`): loading and retiring at a start,
  and sampling as base, point and list in statements of their own. `OneBase`: the
  points of an index are over one base, however processes and restarts fall;
  `PointsHaveIndex`.
- `Minting` (`web/personal.go`): writes, restores and forgets of browsers whose
  answers arrive in any order or never. `StoredIsReachable`: a browser that sends one
  request at a time does not lose sight of what it stored; `MintsLimited`.
- `Codes` (`ident/token.go`) and `Tax` (`calc/`, `store/query.go`): operators without
  state. `CodesRoundTrip`: a restore code is read as it was shown, typed in any case
  and grouping, and nothing else is; `TaxLaws`: Go and SQL give the same fee and
  margin, at the cap, below the free price and for exempt items.

### Shops

Time is a counter; a day has `Day` units and the loop wakes at the boundaries.
A job is `Begin`, `FetchPage` until a short page, `Store` (one transaction,
which with no usable row empties the table and ends the job), `Stamp`. `Fresh`
is the guard of `ingest.go:264`; `-once shops` runs without it. A row is a
number; what makes one usable is the set `excluded`, which `shops.toml` and the
wiki change, and `Untradeable`. `asOf` is a history variable: when the job that
filled the table began to read.

### PreCommit

A file is known by what it shows: which edit of each source went into it. One
file stands for each kind the steps treat differently: a `.tri` source, a post
that is not tracked yet, a hand-written page, the home page, the badge list,
and the generated page, feeds and fonts. `work`, `index` and `head` are git's
three trees. The author edits and stages in any order and renders by hand; the
chain is `Render`/`SkipRender`, `Datestamp`, `NtpStat`, `Feeds`, `Fonts`, `Badges`
and `Commit`, each with its own guard and its own idea of what to stage;
`StepFails` aborts and leaves the index as it is, `DatestampFails` also what was
half written. `asked` and `unasked` are history variables: the index when the commit
under way began, and the files that differed from it then. `Dated` says whether the
generated page is dated through its source: it needs a WebSite node in the page and an
`updated:` field in the source. At this commit only `index.html` has the first, and its
source has no such field (the hook warns and goes on); the run checks what the hook does
where there is one, the theorems hold either way.

### Promote

`Script` is the sequence of steps, `pc` the place in it. `repo`, `installed` and
`running` are the edit of each file in the repository, in `/etc`, and as the
service last read it; `broken` are the edits a service refuses although the
offline gates let them pass. `Compare` is one `cmp -s`, backup and install;
`Reread` a restart or reload, `Verify` a test or a probe, `Restore` and
`Recover` the rollback. `Interrupt` ends the run anywhere (`set -e`, a dropped
session), `Reboot` makes every service read what is installed. `before` is a
history variable: what was installed when the run began.

### Death, Ath and its parts

The interpreter of !~ATH is three modules. `AthParser` turns text into tokens and
tokens into a program; the parser's mutually recursive functions are one table, filled by
level and position. `AthValues` has the values, operators and built-in rites.
`Ath` executes: every `async` call that is in flight is a task with a stack of
frames; a task runs until it waits, and whichever is ready goes next. `names`,
`objs`, `scopes` and `branches` are the maps of `Interpreter`, `scope` its one
`currentScope`; `rites` lists the rites that were defined, and a rite is a value by its
number. The code awaits every operand and every argument, and a rite may be called, or
another branch run, before the next: the value of a statement is the list of the steps
that `evaluate` has left to do (`AthParser!Steps`, innermost and leftmost first) and of
the values it has found, `Evaluate` takes one step, and `CallRite` pushes a frame under
which the expression waits. `Program` and `Statement` are constants: the programs, and
the statements in them, with everything nested (`ProgramAssumption` says what the parser
makes of blocks and of entity expressions; TLC evaluates it on the sixteen programs that
`AthParser` has read). Timers fire in any order, since their durations are abstracted.

`Death` is what a program relies on: an entity dies once, a composite only when its
parts allow, and who waits goes on only after a death. `KeepsDeath` is the
refinement. `NoEarlyExecute` is about the code after a loop and follows composites
to the timers, branches and `THIS` in them. `RunSound`: tables; at the end of a run
that ends well, the branches that the main program started are over, while those of
branches need not be; and `ScopeRestored`, of a program that has started no branch:
errors, returns and waits, also in the middle of an expression, put back the scope that
the innermost call or `SALVAGE` block around them has entered. That an `EXECUTE` block
enters none is the code's own way (see the divergences). `TimersRelease`: who waits for timers only is released. `LanguageLaws` are
about lexer, parser and operators over all small inputs: every character of a text
is in one token or is a blank or a comment, a minus after an operand subtracts,
parsing inverts printing with the fewest brackets, an expression comes step by step
to what it means as a whole, `AND` and `OR` passing over an operand, quotient and remainder, bits,
`SPLIT`, `JOIN` and `SLICE`.

### Room

Every browser has its own `lobby` and `game`. A guest's connection goes through
`offered`, `accepting` and `open`; the codes are carried by hand and may come late.
`toHost` and `toGuest` are the channels, ordered and reliable until they break;
`noticed` says which end knows. `ticks` are the host's countdowns, since a start
that is pressed twice starts two. The page's reaction to a changed lobby (`game.js`,
`onLobbyUpdate`) is part of each action that changes it. `Unwritten` is an accept
that enters the peer and then cannot write its code (`btoa` knows Latin-1 only): the
page goes back to `offered`, `strays` counts the connection, and `StrayFails` is its
end, which takes the peer with it. Code that looks a player up gets the first entry
(`Found`). Random words are asked for (`asking`) and come when they come.

`RosterIsPeers`: the host lists whom it has a connection to, and each once but for a
guest that was entered in vain and tried again, until that connection fails.
`Mirrors`: when
nothing is on its way a guest's lobby is the host's, but for what is the guest's own.
`NoHeadStart`, `FinishKnown`, and `EventsArrive`: a start reaches everyone who stays,
and the host learns who has gone.

### Game

The state of the page: `screen`, `game`, `path`, the page shown, the clock, the
`loads` in flight, the `pending` lookup of practice words, and the history in
`localStorage`. Links are what a page has; words that differ in capitals are the
same to the game. `GameSound`: clicks count the path unless the player went back,
every entry of the history is a game that was won by its path, one clock at most is
held. `PlayTruthful`, for a player who waits for what was asked for: the path
follows links, the page shown is of the word the path has come to, no clock runs
outside a game.

### HspText, HspPage, HspAnim, HspControls

`HspText` has escapes, wrapping, glyphs and anchors as operators (`TextLaws`).
`HspPage` is `build`, awaiting image by image while the reader switches motion, which
starts another build beside it: `PageComplete`, `BuildsEnd`. `HspAnim` is the tick of
text and gif with timers that may start below zero: `WholeTextAgain`, `ColoursAgain`,
`StillIsStill`. `HspControls` is music, motion, zoom, text view and the bar over
gestures, reloads and resizes: `PauseIsKept`, `ChoicesKept`.

### Letters and Theme

`Letters` is the ten letter pages by what they have: tabs, cards, sections that
appear when scrolled to, a console typed line by line. `SeenIsReadable`,
`NothingDangles`, `ConsoleComplete`. `Theme` is the switcher in two tabs:
`SwitcherTruthful`. `Pages` puts these and `Game` in one specification, a behaviour of
one page each; its properties are conjunctions over the pages. `MCPages` gives it
words, links, elements and texts for the run.

## Runs

| Run | States | Asks |
|---|---|---|
| `token_store` | 2.1 M | two requests for two tokens with imports, prune, forget, restarts, failed statements, a discarded connection: `NoOrphans`, `CapOvershoot` |
| `alerts` | 5 k | one service, three alerts, no failures: `FiringMatchesStats`, and that the code implements `EdgeTrigger` |
| `alerts_races` | 142 k | two evaluators, a failure or restart, deletions and forgets: `DuplicatesBounded`, `ForgetHolds` |
| `archive` | 2.9 M | polls, backfill, maintenance, an outage: `TiersSound`, `AbsorbedBeforePrune`, `RowsOnlyGrow` |
| `service` | 377 k | the feed (catalogue, prices and statistics catch up through broken answers, restarts and refused price writes) and the smaller parts: `ServiceSound`, `LawsHold`, `CatalogueCatchesUp`, `PricesCatchUp`, `JobsGoOn` |
| `pre_commit` | 4.1 M | any order of edits, staging, rendering and commits, with a step that fails: `TreesSound`, `FeedsTruthful`, `PagesDescribed` |
| `promote` | 1.7 M | runs cut off anywhere, broken edits, a reboot: `TestedStaysUp`, `RollbackRestores`, `InstalledIsReread`, `Converges` |
| `shops` | 2.9 M | the service and `-once`, failures, restarts, changes: `StampHonest`, `AgeBounded` |
| `ath` | 42 k | sixteen programs under every order of events, and all small texts, expressions and numbers: `NoEarlyExecute`, `RunSound`, `LanguageLaws`, `KeepsDeath`, `TimersRelease` |
| `ath_scope` | violated | while a rite of one branch waits, another declares its variables in that rite's scope |
| `race` | 424 k | a host with one guest who may do everything, or with two of whom one may be cut off or fail to be sent a code: `RoomSound`, `Mirrors`, `NoHeadStart`, `FinishKnown`, `EventsArrive` |
| `pages` | 310 k | one page of the site at a time: `GameSound`, `PlayTruthful`, `TextLaws`, `ContentShown`, `ChoicesShown`, `GetsFinished`, `AnimationsGoRound` |

Each module's type invariant is a conjunct of a property of its run (`TiersSound`,
`ServiceSound`, `TreesSound`, `RunSound`, `RoomSound`, `GameSound`, `ContentShown`,
`ChoicesShown`), or is proved to hold always (`TokenStore`, `Alerts`, `Shops`,
`Promote`, `Death`, and `Archive` and `Ath`, where it is both). The run that is violated reproduces a disagreement of the code with its
own documentation; see below.

## Bounds

Every counter that only a bound stops is named `Max...` and guards the one
action that raises it.

- `token_store`: two handlers are enough for any pair of statements to
  interleave, and a third request shows what it leaves behind; favourites and
  ledger have caps of one row, so that the limit bites at once, and alerts have
  none. Three items, one of them unlisted. Tokens and handlers are symmetric.
- `alerts`, `alerts_races`: thresholds in both directions on one item, and a
  quote that is NULL. Ids are used once, so the number of alerts bounds the
  history; `alerts_races` has one token with two alerts, which is where a
  foreign key failure skips a second alert.
- `archive`: a tick is five minutes, an hour is two ticks, a day four. The
  windows are the code's, two days and fourteen; a tier is kept one tick longer
  than a window or two, far shorter than the defaults of 30 days and two years,
  so that a row which no rollup saw in time is pruned in the run. 18 ticks give
  five nights, of which an outage may take any. The item trades in some buckets
  and not in others; one of them is the bucket before a rollup, which is the one
  that a missed night after it loses.
- `service`: in the feed, two items tell an id that is listed from one that is not;
  one process, since two only share the tables and every write is idempotent. Two
  callers of the limiter and four slots, so that both retry; two goroutines and
  two tables to measure; three processes that open the database, one of an older
  binary, and two deaths; three items in batches of two over three steps, one of
  which has no table, with two troubles; three nights of five units with checks
  every two and a maintenance that may outlast a day; two indices, two processes
  that sample, three mishaps (a start, an edit of the file, a failure); two
  browsers with two requests each at one address that may mint one token an hour.
  Up to six bytes drive the accumulator of a restore code beyond its 32 bits, and
  fees are computed on both sides of every boundary.
- `pre_commit`: a chain of three edits reaches every pair of dirty sources with
  a commit between; one failure and one change of date.
- `promote`: with two edits a file can be broken and repaired; one interrupt
  and one reboot. Several files of nginx are two, so that one may be replaced
  and the other not.
- `shops`: a full page and a short one, of which a row may come or go; a day
  of three units and fourteen of them, so that a copy can outlive the four days and
  four jobs that one failure allows.
- `ath`: sixteen programs, each with one of the difficulties: two branches that
  wait, rites called from both, errors in rites that wait, reused names, composites
  of composites, branches of branches, rites called for operands and arguments. They are written as tokens and read by the
  parser. Texts have up to four characters of the ten that the lexer tells apart,
  expressions are two operators deep, numbers are -9 to 9 in words of six bits.
- `race`: a guest alone with at most two of the things that need not happen
  (`Budget`), of which a code that cannot be written counts for two, or two guests,
  one of whom may be cut off or meet that failure; two starts, so that
  countdowns overlap; one click before the target; a user acts with one message
  on a channel at most.
- `pages`: four words, two of them one to the game, and two challenges of one day;
  two games, two clicks, two loads in flight, a history of two. Four elements over
  four images, two switches of motion, any image failing. Texts of up to
  five characters, in boxes narrower and wider than they are. Two tabs.

Deadlock is checked except in `shops` and `service`, where clocks have an end, in
`ath`, where programs end, and in `race` and `pages`, where bounds on what users do
are reached.

## Fairness

- `Alerts!FairSpec`: each evaluator goes on. The service polls every minute for
  as long as it runs (`ingest.go`, `loop`), and `EvaluateAlerts` has no wait in
  it. Users, failures and prices are not fair.
- `Service!ServiceFairness`: of the feed, every job has a loop of its own that ends
  with the process only, so a fetch that stays due is made and a write that is
  pending happens; and `/latest` changes for ever, because the game is traded in.
  `PublishMapping` is not fair: a game update may never come, which is exactly why a
  mapping that was lost stays lost. Nor are `WriteFails` and `Restart`, which are
  bounded. A scan that runs goes on, and somebody looks at a status page again and
  again; a process that opens the database goes on, and systemd starts one that
  failed (`Restart=` in `openget/contrib/openget.service:11`); the backfill loop goes on,
  while nothing ends a low disk (`ItemsGetDone` assumes that one does).
- `Promote!FairSpec`: the script goes on unless it is cut off, and the operator
  runs it again, as its messages ask (`promoteSite.sh:274`). `Converges` speaks
  of runs that are not cut off: one that is may leave a refused nginx file which
  stops every later run by design.
- `Ath!Fairness`: what is ready in the event loop is run, and a timer fires.
- `Room!Fairness`: the host's timers fire, what a channel has is delivered, and an
  end notices that its channel is closed. No user is fair.
- `Pages!PagesFairness`: a build that may go on does, an image loads or fails in the
  end, animation frames come, and the console's timer fires.

## Proofs

TLAPS checks every step; nothing is assumed beyond the named `ASSUME` of each
module. TLC found each stated property to hold on the run's instance before it was
proved.

**TokenStoreProofs** (`ConstantsAssumption`: caps and bounds are naturals, the
set of handlers is finite, listed items are items.)
- `TypeCorrect`.
- `RowsHaveTokens`: `Spec => []NoOrphans`. Inductive: `Integrity`, that is
  `NoOrphans` together with `ForeignKeysOn`, because a cascade happens only with
  the pragma on and only a discarded connection turns it off. The lemma about
  `DeleteTokens` carries forget and prune.
- `CapHoldsUpToConcurrency`: `Spec => []CapOvershoot`. Inductive with
  `FiniteRows`; the handlers past the check count against the cap as if they had
  inserted, which is what makes it inductive. The difficulty is that a handler
  passes the check with a table that has room, while others are already past it.
- `CapIsExactInSequence`: with one handler the cap is exact.

**MarketProofs** (`ConstantsAssumption`: watches and quotes are well formed, the set of
evaluators is finite; `ShopsAssumption`: naturals, a day and a page are not empty.)
Of the alerts:
- `TypeCorrect`, and `ForgottenForGood`: `Spec => []ForgetHolds`. Inductive: `ForgetInv`,
  that nobody begins to fire an alert that went with its code, so that what is left
  of it and who is about to append add up to no more than the evaluators.
- `FiringsAreBounded`: `Spec => []DuplicatesBounded`, for any number of
  evaluators. `DuplicatesBounded` alone is not inductive: it does not say who
  may still append. `FiringInv` counts them. While an alert is armed, every entry
  belongs to an evaluator about to mark it or to a failure; when the first mark
  lands nobody begins to fire it any more, and each evaluator that has begun
  adds one entry at most. `GivenOut` says that no snapshot names an id before it
  is given out, which rests on AUTOINCREMENT. `CountMoves` relates the counts
  before and after a step of one evaluator.
- `FiringsAreShown`: with one evaluator (`OneEvaluator`), `Spec => []FiringMatchesStats`,
  whatever fails. Inductive with: what the evaluator found of an alert still is so,
  since nobody else replaces the statistics (`Verdicts`). With two it is false, and
  the code says so.
- `RoundsKeepThePromise`: with one evaluator and as long as nothing fails, the code
  implements `EdgeTrigger`, step by step: a round's statements are a firing, a
  re-arming, or nothing to the reader. `RoundInv` says that an alert that is armed and
  not in somebody's hands has fired as often as it was told. The liveness of
  `EdgeTrigger` stays with TLC.

Of the shop offers:
- `StampDatesTable`: `ShopsSpec => []StampHonest`, for any processes and rows and any
  `Day` and `MaxFetch`. Inductive: `Clocked`, which relates clock, running jobs
  and stamp: a job that is about to stamp finds a table no older than the job
  itself allows, also if another process replaced it meanwhile, because that
  one was still running then.
- `AgeIsBounded`: `ShopsSpec => []AgeBounded`. Inductive with `Scheduled`: the service
  wakes, or has begun its job, before the table is too old (`Latest`), and a job
  about to stamp began before the table could be stamped by another. The proof attempt showed that the bound of two days, which an earlier version
  claimed, was wrong when a job fails; the one stated now is a day and a job more
  for every failure.
- `ShopsTypeCorrect`: only rows that are traded are ever offered.

**ArchiveProofs** (`ConstantsAssumption`: widths divide each other, windows and
keeps are naturals. `Deployed`, an assumption of two of the theorems, relates the
keeps and the tiers that are seeded as the code's figures do, and as the
run's do; of windows and outages nothing is assumed.)
- `TypeCorrect`: tiers count trades that happened, of buckets that are over.
- `TiersAreSound`: `Spec => []TiersSound`, and `PrunedIsAbsorbed`:
  `Spec => AbsorbedBeforePrune`, for any widths, windows, trades, polls, backfills
  and outages. Inductive: `GapInv`, that is the gaps filled and
  `Progress`: that what was skipped stays before every window (`SkippedOld`), what each of the five statements of a maintenance has made true for
  the time it has read, a finer tier covered by the coarser one (`Covered`), a
  pruned one without old rows (`Kept`). The lemmas about buckets (`Multiples`,
  `Divides`, ...) carry the arithmetic.
- `RowsGrow`: `Spec => RowsOnlyGrow`, with no assumption about windows.

**ServiceProofs** (`PartsAssumption`: the assumption of each part.)
- `ServiceHolds`: `ServiceSpec => []ServiceSound`, for any callers, processes, items,
  steps, indices, browsers, and bounds. `ServiceInv` has one invariant for each part, and
  `StepOfParts` says that a step of one leaves the others alone.
  `LimiterInv` (`SlotsInv`, `PaceInv`, `RateInv`): every slot handed out lies a gap
  before the next one, whoever waits has a slot of its own, and each request was
  sent at another. `CacheInv`: the flag is up while exactly one goroutine measures.
  `SchemaInv`: what is made is what the version says, and nobody goes on from a
  version the schema has not had. `BackInv`: an item is marked only with its history
  in the archive. `NightInv`: while the loop waits, its timer is set for the first
  night after it began to, which has not gone by. `IndexInv`: a sampling that has yet
  to make its point has the base everybody has, and nobody else is about to set
  another. `MintInv`: what a browser stored is under its cookie or under the one that
  is about to replace it (`Sight`), and no hour mints more than its share.
- `FeesAreRight`, `FlipsAreRight`: the laws of `Tax` about fees and flips (`FeesAgree`,
  `NetRises`, `FlipsAgree`, `NoGain`), of which the run tries prices at the steps and at the
  cap, hold for every price and limit. They rest on what a fiftieth, cut off, lies between
  (`FiftiethFacts`).

**SiteProofs** (`ConstantsAssumption`: bounds are naturals, `Fallible` are services;
`HookAssumption`: bounds are naturals.)
- `TestedServicesStayUp`: `Spec => []TestedStaysUp`, and `RollbackIsExact`:
  `Spec => []RollbackRestores`, for any number of edits, runs and interruptions.
  One invariant carries both. `Typed`: every file anybody holds is of an edit
  already made, so the next edit breaks nothing installed. `Placed`: where in
  the script files are compared and undone, and that no file is compared twice
  in a run, or its backup would be of the wrong thing. `Tested`: a reload comes
  after a test of what it reads, and nothing of that service is installed in
  between. `Undoable`: a run can always go back to where it began.
- `InstalledFilesAreRead`: `Spec => []InstalledIsReread`. Inductive with
  `PastIsReread`: services that the script is past run what it has replaced, unless
  it is recovering one.
- `TypeCorrect`, from the same invariants and the ways in which a run ends.
- `SourcesAreTheAuthors`: `HookSpec => []TreesSound`, `FeedsAnnounceThePage`:
  `HookSpec => []FeedsTruthful`, and `PagesShowTheirSources`:
  `HookSpec => []PagesDescribed`, for any number of edits, dates and failures of the
  commit hook. One invariant, `ChainInv`, carries the three: at each place of the
  chain sources are staged as the author asked or swept where `SourcesUnswept` says so
  (`BeginsAsAsked`: the datestamp finds either the author's own trees or a source that
  was clean), the feed is the author's or follows
  the pages that are staged, and a page that the chain stages follows its sources;
  no later step disturbs what an earlier one staged.

**RoomProofs** (`RoomAssumption`: the host, the guests and the fake players are
different people, bounds are naturals. No number of guests is fixed.)
- `RoomIsSound`: `Spec => []RoomSound`; `NobodyStartsEarly`: `Spec => []NoHeadStart`;
  `FinishesAreKnown`: `Spec => []FinishKnown`; and `GuestsMirrorTheHost`:
  `Spec => []Mirrors`, that lobbies agree whenever nothing is on its way. None is
  inductive: each speaks of the moment after, and the invariant, of six parts, of
  what is under way. `Carried`: the types of what channels and codes carry.
  `Roster`: whom the host counts, whom it does not count yet, and whom it may list
  twice. `Hush`: until the
  first countdown is over no message, code or lobby begins a race. `Peopled`: a
  guest that is connected has a lobby with players, so that it takes its messages.
  `Reported`: a finish is known or is on its way. `Chained`: unless the host is about
  to send its whole lobby, what is on its way to a guest, applied message by message,
  makes of the guest's lobby the host's, as far as it is shown (`Shown` leaves out
  fake players and the guest's own progress; `Linked` is the chain of lobbies from
  one message to the next, from the last whole lobby on). The lemmas say what each
  message does to two lobbies that are alike, and that a list filtered by
  `Those` keeps its order (`ThoseAlike`), which needs a least counterexample, since
  induction is not to be had.

**PagesProofs** (`GameAssumption`: links and challenges are of words, bounds are
naturals. `PagesAssumption`: elements of a page are what the renderer reads, the font of
a text has its sheet among those of the page, no frame counts for more than a dither
goes round in, there is a scale, and the default theme is one of the themes. Of `Death`, no assumption: any kinds of entities, any waiters.)
- `GameHolds`: `Spec => []GameSound`, for any words, links, challenges and bounds,
  however the player goes on and whenever answers come. Inductive with `Begun`: a
  game on the screen has a path, a daily game is one of the challenges, and a game
  that waits for its words may be begun. `HistoryKept`: an entry that is saved is
  never changed, only pushed out at the end.
- `PlayIsTruthful`: `PagesSpec => []PlayTruthful`, for a player who waits. Inductive with
  `Waits`, what can be under way while one does (one load, of the word one has come to, or
  one lookup, in the practice form), and `Follows`, what is then on the screen.
- `ContentIsShown`: `PagesSpec => []ContentShown`, for any elements, images that fail and
  switches of motion. `BuildInv`: unless the reader was hasty one build runs at most, it
  has made what can be made of the elements before the one it is at (`Going`), nothing of
  which changes any more since all it waited for is settled (`FramesSettled`). The order of the
  elements is stated as the contract of `sort` (`ReadingOrder`); that there is such an
  order is not proved, which would take an induction, but is part of `BuildsEnd`, which
  TLC checks. `AnimInv`: the types of what moves, and that a marquee scrolls to its own
  width and begins no further right than the page. For the letters: `LettersInv`, from
  `LettersWellMade`, that each of the ten is made so that its first choices exist.
- `ChoicesAreShown`: `PagesSpec => []ChoicesShown`. `ControlsInv` adds the types of what is
  stored. `ThemeInv` adds that a page whose switcher is not built yet has the saved theme,
  unless another tab has overtaken it.
- `StillPagesAreStill`: `PagesSpec => HA!StillIsStill`, the action property among the
  animations: a gif that is not pointed at shows the frame it began with.
- `EntitiesCorrect`; `CompositesTruthful`: a composite that has died has died
  truthfully. Inductive together, since a new entity may not be confused with a part
  of one that is dead. `NoneEarly` is an action property from the same invariant.
  Since `Ath` refines `Death` (`RefinesDeath`), they speak of every run of every program.

**AthProofs** (`ProgramAssumption`: programs are sequences of statements, and so are the
blocks in them; the composites of an entity expression are listed. Nothing is assumed
of the values of statements.)
- `NothingRunsEarly`: `Spec => []NoEarlyExecute`, `RunHoldsTogether`:
  `Spec => []RunSound`, both from `RunInvariant`: `Spec => []Inv`, for any programs and
  every order of events. Neither property is inductive. `NoEarlyExecute` speaks of tasks
  that run; `TasksOK` also says what is on the stack of one that waits: on top the code of
  the loop, marked with the entity it waits for, so that it is marked with a dead entity
  when the task wakes; all other frames are marked with dead ones already, and the dead stay
  dead. Under a call stands the block whose statement waits for the value. `Joined`:
  when `run` settles, what it waits for covers every branch the main program started, and
  who is over has killed its branch. `Lexical`: the scope that errors, returns and ends
  restore is what a frame saved, so every frame has to have saved the scope of the frames under it
  (`Tracks`); the lemmas say that pushing a call, taking a statement and unwinding to an
  `ATTEMPT` or a call keep this.
- `DeathIsKept`: `Spec => KeepsDeath`, and `RefinesDeath`: `Spec => Abstract!DeathSpec`,
  step by step: `Grown` says what any step but the death of a composite does to the
  entities (who dies is no composite, what exists stays what it is), and each statement
  then maps to `Change`, `Wait`, `Pass` or a stutter.

Only model-checked:

- liveness, here and in the refinement of `EdgeTrigger`, since the prover has neither
  fairness nor `ENABLED`;
- that who waits in !~ATH for timers only is released (`TimersRelease`), and the other
  liveness properties of runs;
- what lexer, parser, operators, text layout, restore codes and recipes compute
  (`LanguageLaws`, `TextLaws`, `LawsHold` but for fees and flips): induction over data is
  out of reach;
- that builds end and animations go round (`GetsFinished`, and the rest of
  `AnimationsGoRound`), which is liveness.

## What the code does and its comments do not say

Found violated, with a run:

- While a rite of one branch waits, the scope of the interpreter is that rite's, and
  what another branch declares meanwhile is declared there and lost when the rite
  returns, where the documentation promises lexical scoping (`ath_scope`,
  `tildeath.js`, `currentScope`).

Observed while modelling, of what the documentation of !~ATH says:

- "Variables declared inside EXECUTE blocks are scoped to that block" (`!~ATH spec.md:946`,
  with an example): `execAthLoop` (`tildeath.js:1398`) enters no scope, so that they are
  declared in the scope around the block and stay there. `ScopeOf` follows the code.
- The program terminates when "all pending operations complete" (`!~ATH spec.md:147`): `run`
  (`tildeath.js:1326`) waits for the branches there are when the main program comes to its
  end, not for those that branches start later. `TopBranchesJoined` is of the branches that
  the main program started.

Observed while modelling, of what comments say:

- An event and the `last_fired` that stops it are two statements outside a
  transaction; a failure between them fires the crossing again
  (`store/ident.go:397`). `DuplicatesBounded` is what remains.
- The mapping's ETag is remembered before the mapping is stored; a refused write
  is followed by 304s until the next game update or restart
  (`store/write.go:83`). `Fallible` leaves the mapping out.
- A service whose files a failed promote left installed is not restarted or
  probed by any later run, since the files no longer differ
  (`promoteSite.sh:346`). `InstalledIsReread` speaks of files the run installed.
- The shop job stamps the time at which it ended; at the next tick the copy is
  a fetch short of a day old, counts as fresh, and is read every other day only
  (`ingest.go:264`). `AgeBounded` says two days and three jobs, and a day and a job
  more for every failure.
- `TaxFreeBelow` says "at or under" 50 (`calc/tax.go:27`), is not used, and the tax at
  50 is 1, as the test has it.
- The points of an index begin at 100 (`recipes.go:348`), but a point is overwritten
  within its hour, so that the first one that stays need not be 100.

Written into the models, with properties stated around them:

- The caps can be exceeded by requests in flight together (`CapOvershoot`).
- `foreign_keys` is set on the first connection of the pool only; after the
  write connection is replaced a forget leaves rows behind (`NoOrphans` is
  claimed for `dropped = 0`).
- A hand-written page with unstaged edits is staged by the first step of the
  commit hook, which stages whatever differs under the three trees. The datestamp
  "never sweeps uncommitted work into the commit" (`githooks.txt:211`): it asks the page
  for unstaged edits and stages the source (`datestampHook.pl:94`), whose edits it does
  not ask for. `SourcesUnswept` says just where the two happen, and that nothing else is
  swept.
- The datestamp rewrites a source, renders its page and means to "stage all of it
  together" (`datestampHook.pl:69`), and stages the source alone (line 94): the page is
  dirty for the steps that follow, which leave the feeds and the page as they were.
- A post that was never added is invisible to the unstaged guard and is listed
  by the blog page that is committed (`PagesDescribed` speaks of tracked
  sources).
- The row of a bucket that was open when a rollup wrote it is never recomputed
  by a rollup; the bulk poll alone completes it (`GapsFilled` asks for a row, not
  for a full one).
- A comment says that nothing is deleted before the coarser tier has had its
  chance to absorb it (`ingest.go:452`). One missed night is enough to break it: the
  rollup two nights later looks back 48 hours to the second, to 03:17, and so not at the bucket
  stored just before or after the last rollup. If the `/1h` poll of its hour was
  missed too, and the item traded in no other bucket of that hour, the hour has no row, and
  the bucket is pruned with nothing over it. `GapsFilled` and `AbsorbedBeforePrune` are
  of all rows but these (`skipped`), and are violated in the run without that exception.
- Rows that the wiki inserts or deletes between two pages of the storeline read
  may be read twice or not at all; and an answer of which no row is usable
  empties the table. Neither affects the stamp.
- A promote that gives up at gophernicus leaves molly-brown's new file
  installed and unread, to be read at the next reboot.

OpenGET:

- An index is given another base if reading its base failed, since an error counts
  as no base, or if two processes sample it for the first time at once (`doubted`).
  The base survives retirement; the points do not.
- A first start with an empty items table resolves no index, and loads none until
  the next start.
- A list of pending items that cannot be had ends its backfill step until a
  restart, and items that are listed after the loop has gone on wait for one too
  (`unlisted`, `Ahead`). An item whose history the store always refused would be
  listed again for ever; the mark that keeps "one permanently broken id"
  from wedging the loop (`ingest.go:377`) is made after a failed fetch only, and the
  pause between two calls is left out after a refused store. `ItemsGetDone` assumes
  that failures end.
- A disk check that is due together with 03:17 may be taken first and sets the
  timer for the next night (`NightsKept` leaves such a night out).
- Slots of callers who give up are lost, and timers may fire late: what is a gap
  apart are slots, not requests (`RateKept` is what holds of requests).
- Two first writes of a browser at once mint two tokens, and an answer that comes
  late brings a forgotten cookie back (`loose`).
- Of two processes that migrate at once the slower fails and is restarted.

The races:

- A lobby-state replaces a guest's list, its own finish included, until the host
  has heard of it, so that not everybody sees the victory (`game.js:1362`).
  `FinishKnown` speaks of the host.
- A guest who joins a race that runs stays in the lobby. After a victory any change
  of the lobby starts the old race again, since `gameStarted` is never reset; a
  second start resets the progress; going back is not reported.
- An accept code is written by `btoa` (multiplayer.js:37, 224) after the peer has been
  entered and announced. For words outside Latin-1 it throws; the page says "invalid
  join code. please check and try again." (game.js:1113), and whoever does lists the
  guest twice. The second entry is never ready, since a player is looked up by the
  first, so that the race cannot be started until the guest has gone. When the first
  connection fails at last, its handler closes the good one, which has the same id.
  `RosterIsPeers` says when a guest may be listed twice, and `Entry` and `Update` are
  of the first entry.
- Random words may come after the start, and the race then has others (game.js:1137).
- Leaving does not stop the host's countdown, and strands the guests. A join code
  that was accepted and is pasted again would list its player twice as well; the
  page empties the field it was pasted into (game.js:1110), so the model accepts it
  again only after the failure above.
- Moves of simulated players are not told to the guests (`Mirrors` leaves them out).

The game of one player:

- With two loads in flight the page shown may not be that of the current word, and
  can be clicked. A lookup of practice words that is still pending begins its game
  over another one, or under the victory. A page that fails is not asked for again.
  The properties of `PlayTruthful` speak of a player who waits.
- The game goes on after the victory, and reaching the target once more saves it
  again. There are two challenges for one date, of which the first counts.

The renderer, the letters and the theme:

- "Play music" as the first gesture starts the music, then pauses it and remembers
  that (`hsp.js:477`). Switching motion during a build lists elements twice until
  the next build. Without storage a resize undoes the zoom. The last letter of a
  text that is erased is passed over. The key `t` is not remembered.
- On the React pages sections stay hidden if reduced motion was asked for when the
  page was loaded and is lifted then. A theme that is retired leaves the switcher
  empty, and a tab that another one has overtaken shows the other's theme.

## Not modelled

Wording, layout and formatting throughout: the renderers, `triptych.pl`, the
asset builders, the CGI formatters. Reads: the pages, the API, search. The
schema's statements themselves: an SQL statement is modelled by its effect, and
SQLite is trusted to make it atomic and durable. The Go memory model: no part
modelled here shares memory between goroutines except under a lock. Declarative
configuration (nginx, fail2ban, logrotate) is what `Promote` installs, not
interpreted. Content and data files.

Components without a module, and why:

- the generator of the retro pages: one goroutine, a debounce and a rename;
- `poll_runs`: a log that nothing acts upon;
- the status sampler: a cron job that appends to a log and trims it by a rename;
- `deployHook.sh`, `config/`: they run or are read once and keep no state;
- the drawing tool `tlltdIslandDrafter` and the other pages: one visitor, nothing kept.

In the modelled parts: daily volumes (`Archive`), pacing (`Backfill`), the sweep of
idle addresses and which header names the client (`Minting`), the hash of a token
and its redaction in logs (`Codes`), percentages, alchemy and buy limits (`Tax`), the
offline gates, `stageSite.sh` and the rsync of the docroot (`Promote`), `SCRY`, `HEED`,
`RANDOM`, `TIME`, `KEYS`, `VALUES`, assignment to elements, fractions, the identity of
collections and how long a timer runs (`Ath`), the drawing of the lobby (`Room`),
drawing itself and the text of the reader mode (`Hsp*`).

`oldsite/` holds copies of `ath/tildeath.js` and of both files of the races that are
identical to those under `personal/`; the modules are of both.

## Plan

What would add most next:

1. `Nightly` composed with `Archive`: it would say which outages the timer and the
   disk guard can cause.
2. `Minting` composed with `TokenStore` through the tokens.
3. `Staging`, the gates and the rsync in front of `Promote`'s script, through `repo`.
