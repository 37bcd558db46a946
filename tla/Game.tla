-------------------------------- MODULE Game --------------------------------
(* The browser game of one player (personal/wiktionaryRacingV2/game.js): the  *)
(* daily challenge and practice, the way through the pages of a dictionary,   *)
(* the trail back, the clock and the history kept in the browser. Pages load, *)
(* and words are looked up, while the player goes on; answers come in any     *)
(* order or not at all. A page is the word it is about. Words that differ in  *)
(* capitals only are the same word to the game and may be different pages.    *)
EXTENDS Integers, Sequences

CONSTANTS Word, Lower,      \* words, and each in small letters
          Links,            \* word -> the links of its page
          Daily, LastDay,   \* the daily challenges; bound: days that pass
          HistoryCap,       \* entries that are kept, 100 in the code
          MaxLoads,         \* bound: pages asked for and not answered
          MaxClicks         \* bound: clicks of a path

Link == [to : Word, site : {"internal", "wiktionary", "elsewhere", "anchor", "relative"},
         wikipedia : BOOLEAN, external : BOOLEAN]
Day  == 1 .. LastDay

ASSUME GameAssumption ==
    /\ Lower \in [Word -> Word] /\ Links \in [Word -> SUBSET Link]
    /\ Daily \in Seq([date : Day, start : Word, target : Word])
    /\ LastDay \in Nat \ {0} /\ HistoryCap \in Nat \ {0} /\ MaxLoads \in Nat /\ MaxClicks \in Nat

VARIABLES
    screen,     \* home, practiceSetup, history or game
    game,       \* mode, startWord, targetWord and date
    path, clickCount, currentWord,
    clock,      \* intervals that run, and whether timerInterval holds one
    modal,      \* the victory modal is shown
    debug, debugBar,    \* debug mode; the game was started in it
    history,    \* completions, the newest first
    page,       \* what the content shows, whether it is visible, and the error
    loads,      \* words whose pages have been asked for
    pending,    \* the practice game whose words are looked up
    today
vars == <<screen, game, path, clickCount, currentWord, clock, modal, debug, debugBar,
          history, page, loads, pending, today>>
way == <<path, clickCount, currentWord>>

None == "none"
Same(v, w) == Lower[v] = Lower[w]
Last(s)    == s[Len(s)]
Take(s, n) == SubSeq(s, 1, IF Len(s) < n THEN Len(s) ELSE n)

Nothing == [word |-> None, visible |-> FALSE, failed |-> FALSE]
NoGame  == [mode |-> None, start |-> None, target |-> None, date |-> 0]

Init ==
    /\ screen = "home" /\ game = NoGame
    /\ path = <<>> /\ clickCount = 0 /\ currentWord = None
    /\ clock = [running |-> 0, held |-> FALSE]
    /\ modal = FALSE /\ debug \in BOOLEAN /\ debugBar = FALSE
    /\ history = <<>> /\ page = Nothing /\ loads = <<>> /\ pending = NoGame
    /\ today = 1

------------------------------------------------------------------------------
(* Words and links *)

\* The links that are played. An absolute one to the dictionary is played
\* whatever its class says; the other sites are blocked, and so is what is not
\* a page of it; an anchor is left to the browser.
Playable(l) ==
    \/ l.site = "wiktionary"
    \/ l.site = "internal" /\ ~l.wikipedia /\ ~l.external

\* What comes of one attempt at a random word: a failure, a page of another
\* namespace, one that is not found, one without an English section, or a word.
Fetch == {"failed", "namespace", "absent", "foreign", "unchecked", "english"}

\* A check of the section that fails does not count against the word.
IsWord(a, englishOnly) ==
    a \in (IF englishOnly THEN {"unchecked", "english"} ELSE {"foreign", "unchecked", "english"})

\* fetchRandomWord with the attempts it may make: the one that succeeds, or 0.
RandomWord(attempts, englishOnly) ==
    LET f[i \in 1 .. Len(attempts) + 1] ==
            IF i > Len(attempts) THEN 0
            ELSE IF IsWord(attempts[i], englishOnly) THEN i ELSE f[i + 1]
    IN  f[1]

Differ(v, w) == v # None /\ w # None /\ ~Same(v, w)

\* getRandomChallenge: a pair of fetched words per attempt; a word may be kept
\* for the next attempts. Two words or none.
RandomChallenge(pairs) ==
    LET f[i \in 1 .. Len(pairs) + 1, s \in Word \cup {None}, t \in Word \cup {None}] ==
            IF i > Len(pairs) \/ Differ(s, t) THEN <<s, t>>
            ELSE IF Differ(pairs[i][1], pairs[i][2]) THEN pairs[i]
            ELSE IF pairs[i][1] # None /\ s = None THEN f[i + 1, pairs[i][1], t]
            ELSE IF pairs[i][2] # None /\ t = None THEN f[i + 1, s, pairs[i][2]]
            ELSE f[i + 1, s, t]
        r == f[1, None, None]
    IN  IF Differ(r[1], r[2]) THEN r ELSE <<>>

------------------------------------------------------------------------------
(* Clock and pages *)

StopTimer(c)  == IF c.held THEN [running |-> c.running - 1, held |-> FALSE] ELSE c
StartTimer(c) == [running |-> c.running + 1, held |-> TRUE]

\* A bug: the page that is left stays where it can be clicked.
LoadOverPage(w, p) == /\ loads' = Append(loads, w)
                      /\ page' = [p EXCEPT !.failed = FALSE]

\* loadWiktionaryPage up to the answer: the content is hidden.
LoadWiktionaryPage(w, p) ==
    /\ loads' = Append(loads, w)
    /\ page' = [p EXCEPT !.visible = FALSE, !.failed = FALSE]

CanLoad == Len(loads) < MaxLoads

Without(s, i) == SubSeq(s, 1, i - 1) \o SubSeq(s, i + 1, Len(s))

\* The answer to a request: whichever comes last is what is shown.
PageLoaded ==
    \E i \in DOMAIN loads, found \in BOOLEAN :
        /\ loads' = Without(loads, i)
        /\ page' = IF found THEN [word |-> loads[i], visible |-> TRUE, failed |-> page.failed]
                   ELSE [page EXCEPT !.failed = TRUE]
        /\ UNCHANGED <<screen, game, way, clock, modal, debug, debugBar, history, pending, today>>

------------------------------------------------------------------------------
(* Starting *)

\* resetGame and startGame.
StartGame(g) ==
    /\ screen' = "game" /\ game' = g
    /\ path' = <<g.start>> /\ clickCount' = 0 /\ currentWord' = g.start
    /\ clock' = StartTimer(StopTimer(clock))
    /\ debugBar' = debug
    /\ LoadWiktionaryPage(g.start, Nothing)

\* The first challenge of the day; who has completed it may play again.
StartDailyChallenge ==
    /\ screen = "home" /\ CanLoad
    /\ \E i \in DOMAIN Daily :
        /\ Daily[i].date = today /\ \A j \in 1 .. i - 1 : Daily[j].date # today
        /\ StartGame([mode |-> "daily", start |-> Daily[i].start, target |-> Daily[i].target, date |-> today])
    /\ UNCHANGED <<modal, debug, history, pending, today>>

\* The button is off while the words are looked up.
StartPracticeMode ==
    /\ screen = "practiceSetup" /\ pending = NoGame
    /\ \E s, t \in Word :
        /\ ~Same(s, t)
        /\ pending' = [mode |-> "practice", start |-> s, target |-> t, date |-> 0]
    /\ UNCHANGED <<screen, game, way, clock, modal, debug, debugBar, history, page, loads, today>>

\* The words have been looked up, wherever the player has gone meanwhile.
Validated ==
    /\ pending # NoGame /\ CanLoad
    /\ pending' = NoGame
    /\ \/ StartGame(pending)
       \/ UNCHANGED <<screen, game, way, clock, debugBar, page, loads>>
    /\ UNCHANGED <<modal, debug, history, today>>

------------------------------------------------------------------------------
(* Playing *)

Completion(p, n) ==
    [mode |-> game.mode, date |-> IF game.date = 0 THEN today ELSE game.date,
     start |-> game.start, target |-> game.target, path |-> p, clicks |-> n]

\* Nothing is saved in debug mode.
SaveCompletion(p, n) ==
    history' = IF debug THEN history ELSE Take(<<Completion(p, n)>> \o history, HistoryCap)

Win(p, n) ==
    /\ clock' = StopTimer(clock)
    /\ SaveCompletion(p, n)
    /\ modal' = TRUE

\* A link of the page that is visible. The game goes on after a victory.
HandleLinkClick(w) ==
    /\ screen = "game" /\ ~modal /\ page.visible /\ page.word \in Word /\ clickCount < MaxClicks
    /\ \E l \in Links[page.word] : Playable(l) /\ l.to = w
    /\ path' = Append(path, w) /\ clickCount' = clickCount + 1
    /\ \/ /\ Same(w, game.target)
          /\ Win(path', clickCount')
          /\ UNCHANGED <<currentWord, page, loads>>
       \/ /\ ~Same(w, game.target) /\ CanLoad
          /\ currentWord' = w
          /\ LoadWiktionaryPage(w, page)
          /\ UNCHANGED <<clock, history, modal>>
    /\ UNCHANGED <<screen, game, debug, debugBar, pending, today>>

\* The debug bar goes to any word.
DebugNavigate(w) ==
    /\ screen = "game" /\ ~modal /\ debugBar /\ clickCount < MaxClicks
    /\ currentWord' = w /\ path' = Append(path, w) /\ clickCount' = clickCount + 1
    /\ \/ Same(w, game.target) /\ Win(path', clickCount') /\ UNCHANGED <<page, loads>>
       \/ ~Same(w, game.target) /\ CanLoad /\ LoadWiktionaryPage(w, page) /\ UNCHANGED <<clock, history, modal>>
    /\ UNCHANGED <<screen, game, debug, debugBar, pending, today>>

\* A bug: the word that is gone back to is cut off as well.
BackBefore(i) == SubSeq(path, 1, i - 1)
BackTo(i) == SubSeq(path, 1, i)

\* A word of the trail that is not the last one.
ClickBreadcrumb(i) ==
    /\ screen = "game" /\ ~modal /\ i < Len(path) /\ CanLoad
    /\ path' = BackTo(i) /\ currentWord' = path[i]
    /\ clickCount' = i - 1
    /\ LoadWiktionaryPage(path[i], page)
    /\ UNCHANGED <<screen, game, clock, modal, debug, debugBar, history, pending, today>>

------------------------------------------------------------------------------
(* Screens *)

ShowScreen ==
    /\ \/ screen = "home" /\ screen' \in {"practiceSetup", "history"}
       \/ screen \in {"practiceSetup", "history"} /\ screen' = "home"
    /\ UNCHANGED <<game, way, clock, modal, debug, debugBar, history, page, loads, pending, today>>

\* homeBtn: resetGame; the answers that are on their way still come.
GoHome ==
    /\ screen = "game" /\ ~modal
    /\ screen' = "home"
    /\ path' = <<>> /\ clickCount' = 0 /\ currentWord' = None
    /\ clock' = StopTimer(clock)
    /\ page' = [page EXCEPT !.word = None, !.failed = FALSE]
    /\ UNCHANGED <<game, modal, debug, debugBar, history, loads, pending, today>>

\* The victory modal: review path and close, or practice.
CloseVictory ==
    /\ modal /\ modal' = FALSE
    /\ screen' \in {screen, "practiceSetup"}
    /\ UNCHANGED <<game, way, clock, debug, debugBar, history, page, loads, pending, today>>

ToggleDebug ==
    /\ screen = "home" /\ debug' = ~debug
    /\ UNCHANGED <<screen, game, way, clock, modal, debugBar, history, page, loads, pending, today>>

Midnight ==
    /\ today < LastDay /\ today' = today + 1
    /\ UNCHANGED <<screen, game, way, clock, modal, debug, debugBar, history, page, loads, pending>>

------------------------------------------------------------------------------

\* What the player does, and what the network does.
Act ==
    \/ StartDailyChallenge \/ StartPracticeMode
    \/ \E w \in Word : HandleLinkClick(w) \/ DebugNavigate(w)
    \/ \E i \in DOMAIN path : ClickBreadcrumb(i)
    \/ ShowScreen \/ GoHome \/ CloseVictory \/ ToggleDebug \/ Midnight
Next == Act \/ PageLoaded \/ Validated

Spec == Init /\ [][Next]_vars
------------------------------------------------------------------------------
(* What it should do *)

Mode == {"daily", "practice", None}
Words == Word \cup {None}
GameType == [mode : Mode, start : Words, target : Words, date : 0 .. LastDay]
Entry == [mode : Mode, start : Words, target : Words, date : 0 .. LastDay, path : Seq(Word), clicks : Nat]

\* The state is of its types, and the history as long as is kept.
TypeOK ==
    /\ screen \in {"home", "practiceSetup", "history", "game"} /\ today \in Day
    /\ game \in GameType /\ pending \in GameType
    /\ path \in Seq(Word) /\ clickCount \in Nat /\ currentWord \in Words
    /\ clock \in [running : Nat, held : BOOLEAN]
    /\ {modal, debug, debugBar} \subseteq BOOLEAN
    /\ history \in Seq(Entry) /\ Len(history) <= HistoryCap
    /\ page \in [word : Words, visible : BOOLEAN, failed : BOOLEAN]
    /\ loads \in Seq(Word)

\* However one goes on, back and over into another game, the clicks that are
\* counted are the way from the start word to where one is.
ClicksCountPath ==
    path # <<>> => /\ clickCount = Len(path) - 1
                   /\ path[1] = game.start
                   /\ currentWord = Last(path) \/ Same(Last(path), game.target)

\* An entry of the history is a game from its start word to its target, with
\* the clicks that took; a daily one is the challenge of its day.
HistoryTruthful ==
    \A k \in DOMAIN history : LET e == history[k] IN
        /\ e.path # <<>> /\ e.path[1] = e.start /\ Same(Last(e.path), e.target)
        /\ e.clicks = Len(e.path) - 1
        /\ e.mode = "daily" => \E i \in DOMAIN Daily :
                Daily[i] = [date |-> e.date, start |-> e.start, target |-> e.target]

\* One interval runs while one is held and none otherwise, through restarts,
\* victories and lookups that end later.
OneClock == clock.running = IF clock.held THEN 1 ELSE 0

\* The game holds together: clicks, path, clock and history.
GameSound == TypeOK /\ ClicksCountPath /\ HistoryTruthful /\ OneClock

\* No step touches the entries there are but to drop the oldest for a new one.
HistoryKeepsNewest ==
    [][history' # history =>
        /\ Len(history') >= Len(history) /\ Len(history') >= 1
        /\ \A k \in 2 .. Len(history') : history'[k] = history[k - 1]]_vars
=============================================================================
