---------------------------- MODULE PagesProofs ----------------------------
(* Scripts of the old pages that one browser runs, for any words, links,      *)
(* challenges, page elements, letters' readers, tabs, themes and bounds.      *)
(*   Inv: however the player of the wiktionary game goes on, clicks, path,    *)
(* clock and history of a game agree. GameSound does not say that a game on   *)
(* the screen has a path, nor that a daily game is one of the challenges, nor *)
(* which games may be waiting for their words to be looked up.                *)
(*   PlayInv: who waits for the pages follows the links; it needs to be known *)
(* what can be under way while one waits, and what is then on the screen.     *)
(*   BuildInv: a Hypnospace page has all its elements when its builds are     *)
(* over; it needs how far each build has come, that all it has waited for is  *)
(* settled, and that no two builds go on unless the reader was hasty.         *)
(*   AnimInv: what moves stays within the page, and a still page is still.    *)
(*   ControlsInv, LettersInv, ThemeInv: what is shown as chosen was chosen.   *)
(*   DeathInv: whatever programs of !~ATH do, a composite is dead only if     *)
(* what it is made of bears it out, and who waits goes on only then. Truthful *)
(* needs EntitiesOK, since the parts of an entity that is born later may not  *)
(* be confused with those of one that is dead already.                        *)
EXTENDS Pages, Death, SequenceTheorems, FiniteSetTheorems, TLAPS

\* A game that may be begun.
Offered(g) ==
    /\ g \in GameType /\ g.start \in Word
    /\ g.mode = "daily" => \E i \in DOMAIN Daily :
            Daily[i] = [date |-> g.date, start |-> g.start, target |-> g.target]
    /\ g.mode = "daily" => g.date \in Day

Begun ==
    /\ screen = "game" => path # <<>>
    /\ pending # NoGame => Offered(pending)
    /\ path # <<>> => Offered(game)

Inv == GameSound /\ Begun

\* An entry of the history as it has to be.
EntryOK(e) ==
    /\ e.path # <<>> /\ e.path[1] = e.start /\ Same(Last(e.path), e.target)
    /\ e.clicks = Len(e.path) - 1
    /\ e.mode = "daily" => \E i \in DOMAIN Daily :
            Daily[i] = [date |-> e.date, start |-> e.start, target |-> e.target]

------------------------------------------------------------------------------
(* Sequences *)

LEMMA AppendFacts ==
    ASSUME NEW S, NEW s \in Seq(S), NEW e \in S
    PROVE  /\ Append(s, e) \in Seq(S) /\ Append(s, e) # <<>>
           /\ Len(Append(s, e)) = Len(s) + 1
           /\ Last(Append(s, e)) = e
           /\ s # <<>> => Append(s, e)[1] = s[1]
<1>1. Append(s, e) \in Seq(S) /\ Len(Append(s, e)) = Len(s) + 1
  OBVIOUS
<1>2. Append(s, e)[Len(s) + 1] = e
  OBVIOUS
<1>3. s # <<>> => Append(s, e)[1] = s[1]
  BY EmptySeq
<1>4. Last(Append(s, e)) = e
  BY <1>1, <1>2 DEF Last
<1>5. Append(s, e) # <<>>
  BY <1>1, LenProperties
<1> QED
  BY <1>1, <1>3, <1>4, <1>5

\* Saving keeps the entries there are, one place further back.
Saved(t, s, e, n) ==
    /\ Len(t) <= n /\ Len(t) >= 1
    /\ Len(s) <= n => Len(t) >= Len(s)
    /\ t[1] = e
    /\ \A k \in 2 .. Len(t) : k - 1 \in DOMAIN s /\ t[k] = s[k - 1]

LEMMA TakeFacts ==
    ASSUME NEW S, NEW s \in Seq(S), NEW e \in S, NEW n \in Nat \ {0}
    PROVE  /\ Take(<<e>> \o s, n) \in Seq(S)
           /\ Saved(Take(<<e>> \o s, n), s, e, n)
<1> DEFINE c == <<e>> \o s
           m == IF Len(c) < n THEN Len(c) ELSE n
<1>1. c \in Seq(S) /\ Len(c) = Len(s) + 1 /\ Len(s) \in Nat
  OBVIOUS
<1>2. c[1] = e /\ \A k \in 2 .. Len(c) : k - 1 \in DOMAIN s /\ c[k] = s[k - 1]
  BY <1>1
<1>3. m \in 1 .. Len(c) /\ m <= n /\ (Len(s) <= n => m >= Len(s))
  BY <1>1
<1>4. \A i \in 1 .. m : c[i] \in S
  BY <1>1, <1>3
<1>5. /\ SubSeq(c, 1, m) \in Seq(S) /\ Len(SubSeq(c, 1, m)) = m
      /\ \A k \in 1 .. m : SubSeq(c, 1, m)[k] = c[k]
  BY <1>3, <1>4, SubSeqProperties
<1> QED
  BY <1>1, <1>2, <1>3, <1>5 DEF Take, Saved

LEMMA PrefixFacts ==
    ASSUME NEW S, NEW s \in Seq(S), NEW i \in DOMAIN s
    PROVE  /\ SubSeq(s, 1, i) \in Seq(S) /\ SubSeq(s, 1, i) # <<>>
           /\ Len(SubSeq(s, 1, i)) = i
           /\ SubSeq(s, 1, i)[1] = s[1] /\ Last(SubSeq(s, 1, i)) = s[i]
<1>1. i \in 1 .. Len(s) /\ \A k \in 1 .. i : s[k] \in S
  OBVIOUS
<1>2. /\ SubSeq(s, 1, i) \in Seq(S) /\ Len(SubSeq(s, 1, i)) = i
      /\ \A k \in 1 .. i : SubSeq(s, 1, i)[k] = s[k]
  BY <1>1, SubSeqProperties
<1> QED
  BY <1>1, <1>2 DEF Last

LEMMA WithoutFacts ==
    ASSUME NEW S, NEW s \in Seq(S), NEW i \in DOMAIN s
    PROVE  Without(s, i) \in Seq(S)
<1>1. i \in 1 .. Len(s) /\ \A k \in 1 .. Len(s) : s[k] \in S
  OBVIOUS
<1>2. SubSeq(s, 1, i - 1) \in Seq(S) /\ SubSeq(s, i + 1, Len(s)) \in Seq(S)
  BY <1>1, SubSeqProperties
<1> QED
  BY <1>2, ConcatProperties DEF Without

------------------------------------------------------------------------------
(* What the actions have in common *)

LEMMA InitInv == Init => Inv
<1> SUFFICES ASSUME Init PROVE Inv
  OBVIOUS
<1>1. NoGame \in GameType /\ Nothing \in [word : Words, visible : BOOLEAN, failed : BOOLEAN]
  BY GameAssumption DEF GameType, Words, Mode, NoGame, Nothing, None
<1>2. history = <<>> /\ history \in Seq(Entry) /\ Len(history) = 0
  BY DEF Init
<1>3. TypeOK
  <2>1. path \in Seq(Word) /\ loads \in Seq(Word) /\ clickCount \in Nat /\ currentWord \in Words
    BY DEF Init, Words
  <2>2. today \in Day /\ Len(history) <= HistoryCap
    BY <1>2, GameAssumption DEF Init, Day
  <2>3. clock \in [running : Nat, held : BOOLEAN] /\ {modal, debug, debugBar} \subseteq BOOLEAN
    BY DEF Init
  <2>4. game \in GameType /\ pending \in GameType /\ page \in [word : Words, visible : BOOLEAN, failed : BOOLEAN]
    BY <1>1 DEF Init
  <2> QED
    BY <1>2, <2>1, <2>2, <2>3, <2>4 DEF Init, TypeOK
<1>4. ClicksCountPath /\ HistoryTruthful /\ OneClock /\ Begun
  BY DEF Init, ClicksCountPath, HistoryTruthful, OneClock, Begun, NoGame
<1> QED
  BY <1>3, <1>4 DEF Inv, GameSound

\* A game that begins, whatever game it takes the place of.
LEMMA StartFacts ==
    ASSUME Inv, NEW g, Offered(g), StartGame(g)
    PROVE  /\ screen' = "game" /\ game' = g /\ g \in GameType
           /\ path' = <<g.start>> /\ path' \in Seq(Word) /\ clickCount' = 0 /\ currentWord' = g.start
           /\ clock' \in [running : Nat, held : BOOLEAN] /\ OneClock'
           /\ debugBar' = debug /\ loads' \in Seq(Word)
           /\ page' \in [word : Words, visible : BOOLEAN, failed : BOOLEAN]
           /\ ClicksCountPath'
<1>1. g \in GameType /\ g.start \in Word
  BY DEF Offered
<1>2. clock' \in [running : Nat, held : BOOLEAN] /\ OneClock'
  BY DEF StartGame, StartTimer, StopTimer, Inv, GameSound, OneClock, TypeOK
<1>3. loads' \in Seq(Word)
  BY <1>1, AppendFacts DEF StartGame, LoadWiktionaryPage, Inv, GameSound, TypeOK
<1>4. page' \in [word : Words, visible : BOOLEAN, failed : BOOLEAN]
  BY DEF StartGame, LoadWiktionaryPage, Nothing, Words
<1>5. path' \in Seq(Word) /\ path' # <<>> /\ Len(path') = 1 /\ path'[1] = g.start /\ Last(path') = g.start
  BY <1>1 DEF StartGame, Last
<1> QED
  BY <1>1, <1>2, <1>3, <1>4, <1>5 DEF StartGame, ClicksCountPath

\* A game that is won goes into the history as it was played.
LEMMA WinFacts ==
    ASSUME Inv, NEW p \in Seq(Word), NEW n \in Nat, Offered(game),
           p # <<>>, p[1] = game.start, Same(Last(p), game.target), n = Len(p) - 1,
           Win(p, n)
    PROVE  /\ history' \in Seq(Entry) /\ Len(history') <= HistoryCap
           /\ HistoryTruthful'
           /\ clock' \in [running : Nat, held : BOOLEAN] /\ OneClock'
           /\ modal' = TRUE
<1> DEFINE e == Completion(p, n)
<1>1. e \in Entry
  BY DEF Inv, GameSound, TypeOK, Completion, Entry, GameType, Day
<1>2. EntryOK(e)
  BY DEF EntryOK, Completion, Offered, Day
<1>3. \A k \in DOMAIN history : EntryOK(history[k])
  BY DEF Inv, GameSound, HistoryTruthful, EntryOK
<1>4. /\ history' \in Seq(Entry) /\ Len(history') <= HistoryCap
      /\ \A k \in DOMAIN history' : EntryOK(history'[k])
  <2>1. CASE debug
    BY <2>1, <1>3 DEF Win, SaveCompletion, Inv, GameSound, TypeOK
  <2>2. CASE ~debug
    <3>1. history' = Take(<<e>> \o history, HistoryCap)
      BY <2>2 DEF Win, SaveCompletion
    <3>2. /\ history' \in Seq(Entry) /\ Len(history') <= HistoryCap
          /\ history'[1] = e
          /\ \A k \in 2 .. Len(history') : k - 1 \in DOMAIN history /\ history'[k] = history[k - 1]
      <4>1. history \in Seq(Entry) /\ HistoryCap \in Nat \ {0}
        BY GameAssumption DEF Inv, GameSound, TypeOK
      <4>2. history' \in Seq(Entry) /\ Saved(history', history, e, HistoryCap)
        <5> HIDE DEF e
        <5> QED
          BY <4>1, <3>1, <1>1, TakeFacts
      <4> QED
        BY <4>2 DEF Saved
    <3>3. ASSUME NEW k \in DOMAIN history' PROVE EntryOK(history'[k])
      <4>1. k = 1 \/ k \in 2 .. Len(history')
        BY <3>2
      <4> QED
        BY <4>1, <3>2, <1>2, <1>3
    <3> QED
      BY <3>2, <3>3
  <2> QED
    BY <2>1, <2>2
<1>5. HistoryTruthful'
  BY <1>4 DEF HistoryTruthful, EntryOK, Same
<1>6. clock' \in [running : Nat, held : BOOLEAN] /\ OneClock'
  BY DEF Win, StopTimer, Inv, GameSound, OneClock, TypeOK
<1> QED
  BY <1>4, <1>5, <1>6 DEF Win

\* A page that is asked for.
LEMMA LoadFacts ==
    ASSUME Inv, NEW w \in Word, LoadWiktionaryPage(w, page)
    PROVE  /\ loads' \in Seq(Word)
           /\ page' \in [word : Words, visible : BOOLEAN, failed : BOOLEAN]
<1>1. loads \in Seq(Word) /\ page \in [word : Words, visible : BOOLEAN, failed : BOOLEAN]
  BY DEF Inv, GameSound, TypeOK
<1>2. loads' \in Seq(Word)
  BY <1>1, AppendFacts DEF LoadWiktionaryPage
<1>3. page' \in [word : Words, visible : BOOLEAN, failed : BOOLEAN]
  BY <1>1 DEF LoadWiktionaryPage
<1> QED
  BY <1>2, <1>3

------------------------------------------------------------------------------
(* The actions *)

\* A step that begins no game and ends none keeps all but the way.
LEMMA KeptTypes ==
    ASSUME Inv, screen' \in {"home", "practiceSetup", "history", "game"},
           path' \in Seq(Word), clickCount' \in Nat, currentWord' \in Words,
           clock' \in [running : Nat, held : BOOLEAN], {modal', debug', debugBar'} \subseteq BOOLEAN,
           history' \in Seq(Entry), Len(history') <= HistoryCap,
           page' \in [word : Words, visible : BOOLEAN, failed : BOOLEAN], loads' \in Seq(Word),
           game' \in GameType, pending' \in GameType, today' \in Day
    PROVE  TypeOK'
  BY DEF TypeOK

\* Whatever begins a game.
LEMMA StartedInv ==
    ASSUME Inv, NEW g, Offered(g), StartGame(g), UNCHANGED <<modal, debug, history, today>>,
           pending' = pending \/ pending' = NoGame
    PROVE  Inv'
<1>1. /\ screen' = "game" /\ game' = g /\ g \in GameType
      /\ path' = <<g.start>> /\ path' \in Seq(Word) /\ clickCount' = 0 /\ currentWord' = g.start
      /\ clock' \in [running : Nat, held : BOOLEAN] /\ OneClock'
      /\ debugBar' = debug /\ loads' \in Seq(Word)
      /\ page' \in [word : Words, visible : BOOLEAN, failed : BOOLEAN]
      /\ ClicksCountPath'
  BY StartFacts
<1>2. pending' \in GameType
  BY GameAssumption DEF Inv, GameSound, TypeOK, NoGame, GameType, Mode, Words
<1>3. TypeOK'
  <2>1. currentWord' \in Words
    BY <1>1 DEF Offered, Words
  <2>2. {modal', debug', debugBar'} \subseteq BOOLEAN /\ history' \in Seq(Entry) /\ Len(history') <= HistoryCap /\ today' \in Day
    BY <1>1 DEF Inv, GameSound, TypeOK
  <2> QED
    BY <1>1, <1>2, <2>1, <2>2, KeptTypes
<1>4. HistoryTruthful'
  BY DEF Inv, GameSound, HistoryTruthful, Same
<1>5. Begun'
  <2>1. path' # <<>>
    BY <1>1
  <2>2. pending' # NoGame => Offered(pending')
    BY DEF Inv, Begun
  <2> QED
    BY <1>1, <2>1, <2>2 DEF Begun, Offered
<1> QED
  BY <1>1, <1>3, <1>4, <1>5 DEF Inv, GameSound

LEMMA StartDailyInv == Inv /\ StartDailyChallenge => Inv'
<1> SUFFICES ASSUME Inv, StartDailyChallenge PROVE Inv'
  OBVIOUS
<1>1. PICK i \in DOMAIN Daily :
        /\ Daily[i].date = today
        /\ StartGame([mode |-> "daily", start |-> Daily[i].start, target |-> Daily[i].target, date |-> today])
  BY DEF StartDailyChallenge
<1> DEFINE g == [mode |-> "daily", start |-> Daily[i].start, target |-> Daily[i].target, date |-> today]
<1>2. Daily[i] \in [date : Day, start : Word, target : Word]
  <2>1. Daily \in Seq([date : Day, start : Word, target : Word])
    BY GameAssumption
  <2> QED
    BY <2>1, LenProperties
<1>3. Daily[i] = [date |-> g.date, start |-> g.start, target |-> g.target]
  BY <1>1, <1>2
<1>4. g \in GameType /\ g.start \in Word /\ g.date \in Day
  BY <1>1, <1>2 DEF GameType, Words, Mode, Day
<1>5. Offered(g)
  BY <1>3, <1>4 DEF Offered
<1>6. StartGame(g)
  BY <1>1
<1> HIDE DEF g
<1>7. UNCHANGED <<modal, debug, history, pending, today>>
  BY DEF StartDailyChallenge
<1> QED
  BY <1>5, <1>6, <1>7, StartedInv

\* A step that leaves the way, the game and the history as they are.
LEMMA AsideInv ==
    ASSUME Inv, UNCHANGED <<game, way, history>>,
           screen' \in {"home", "practiceSetup", "history", "game"},
           screen' = "game" => screen = "game",
           {modal', debug', debugBar'} \subseteq BOOLEAN,
           clock' = clock, today' \in Day,
           page' \in [word : Words, visible : BOOLEAN, failed : BOOLEAN], loads' \in Seq(Word),
           pending' \in GameType, pending' # NoGame => Offered(pending')
    PROVE  Inv'
<1>1. TypeOK'
  BY DEF Inv, GameSound, TypeOK, way
<1>2. ClicksCountPath' /\ OneClock'
  BY DEF Inv, GameSound, ClicksCountPath, OneClock, way, Same
<1>3. HistoryTruthful'
  BY DEF Inv, GameSound, HistoryTruthful, Same
<1>4. Begun'
  BY DEF Inv, Begun, way, Offered
<1> QED
  BY <1>1, <1>2, <1>3, <1>4 DEF Inv, GameSound

LEMMA PracticeInv == Inv /\ StartPracticeMode => Inv'
<1> SUFFICES ASSUME Inv, StartPracticeMode PROVE Inv'
  OBVIOUS
<1>1. PICK s, t \in Word :
        pending' = [mode |-> "practice", start |-> s, target |-> t, date |-> 0]
  BY DEF StartPracticeMode
<1>2. pending' \in GameType /\ Offered(pending')
  <2>1. pending' \in GameType
    BY <1>1, GameAssumption DEF GameType, Mode, Words
  <2>2. pending'.mode = "practice" /\ pending'.start = s
    BY <1>1
  <2> QED
    BY <2>1, <2>2 DEF Offered
<1>3. UNCHANGED <<screen, game, way, clock, modal, debug, debugBar, history, page, loads, today>>
  BY DEF StartPracticeMode
<1> QED
  BY <1>2, <1>3, AsideInv DEF Inv, GameSound, TypeOK

LEMMA ValidatedInv == Inv /\ Validated => Inv'
<1> SUFFICES ASSUME Inv, Validated PROVE Inv'
  OBVIOUS
<1>1. pending' = NoGame /\ NoGame \in GameType
  BY GameAssumption DEF Validated, NoGame, GameType, Mode, Words
<1>2. UNCHANGED <<modal, debug, history, today>>
  BY DEF Validated
<1>3. CASE StartGame(pending)
  <2>1. Offered(pending)
    BY DEF Validated, Inv, Begun
  <2> QED
    BY <1>1, <1>2, <1>3, <2>1, StartedInv
<1>4. CASE UNCHANGED <<screen, game, way, clock, debugBar, page, loads>>
  BY <1>1, <1>2, <1>4, AsideInv DEF Inv, GameSound, TypeOK
<1> QED
  BY <1>3, <1>4 DEF Validated

LEMMA AnswerInv == Inv /\ PageLoaded => Inv'
<1> SUFFICES ASSUME Inv, PageLoaded PROVE Inv'
  OBVIOUS
<1>1. PICK i \in DOMAIN loads, found \in BOOLEAN :
        /\ loads' = Without(loads, i)
        /\ page' = IF found THEN [word |-> loads[i], visible |-> TRUE, failed |-> page.failed]
                   ELSE [page EXCEPT !.failed = TRUE]
        /\ UNCHANGED <<screen, game, way, clock, modal, debug, debugBar, history, pending, today>>
  BY DEF PageLoaded
<1>2. loads \in Seq(Word) /\ page \in [word : Words, visible : BOOLEAN, failed : BOOLEAN]
  BY DEF Inv, GameSound, TypeOK
<1>3. loads' \in Seq(Word)
  BY <1>1, <1>2, WithoutFacts
<1>4. loads[i] \in Words
  BY <1>2 DEF Words
<1>5. page' \in [word : Words, visible : BOOLEAN, failed : BOOLEAN]
  BY <1>1, <1>2, <1>4
<1>6. Begun /\ TypeOK
  BY DEF Inv, GameSound
<1> QED
  BY <1>1, <1>3, <1>5, <1>6, AsideInv DEF TypeOK, Begun

\* On to the next word, by a link or by the debug bar.
LEMMA GoInv ==
    ASSUME Inv, NEW w \in Word, screen = "game",
           path' = Append(path, w), clickCount' = clickCount + 1,
           UNCHANGED <<screen, game, debug, debugBar, pending, today>>,
           \/ /\ Same(w, game.target) /\ Win(path', clickCount')
              /\ currentWord' \in {currentWord, w} /\ UNCHANGED <<page, loads>>
           \/ /\ currentWord' = w /\ LoadWiktionaryPage(w, page)
              /\ UNCHANGED <<clock, history, modal>>
    PROVE  Inv'
<1>1. /\ TypeOK /\ ClicksCountPath /\ HistoryTruthful /\ OneClock /\ Begun
      /\ path \in Seq(Word) /\ path # <<>> /\ clickCount \in Nat
  BY DEF Inv, GameSound, Begun, TypeOK
<1>2. Offered(game)
  BY <1>1 DEF Begun
<1>3. /\ path' \in Seq(Word) /\ path' # <<>> /\ Len(path') = Len(path) + 1
      /\ Last(path') = w /\ path'[1] = path[1]
  BY <1>1, AppendFacts
<1>4. path'[1] = game.start /\ clickCount' = Len(path') - 1 /\ clickCount' \in Nat
  BY <1>1, <1>3 DEF ClicksCountPath
<1>5. Begun'
  BY <1>1, <1>2 DEF Begun, Offered
<1>6. currentWord' \in Words
  BY <1>1 DEF TypeOK, Words
<1>7. CASE Same(w, game.target) /\ Win(path', clickCount') /\ UNCHANGED <<page, loads>>
  <2>1. /\ history' \in Seq(Entry) /\ Len(history') <= HistoryCap
        /\ HistoryTruthful'
        /\ clock' \in [running : Nat, held : BOOLEAN] /\ OneClock'
        /\ modal' = TRUE
    BY <1>2, <1>3, <1>4, <1>7, WinFacts
  <2>2. TypeOK'
    BY <1>1, <1>3, <1>4, <1>6, <1>7, <2>1, KeptTypes DEF TypeOK
  <2>3. ClicksCountPath'
    BY <1>3, <1>4, <1>7 DEF ClicksCountPath, Same
  <2> QED
    BY <1>5, <2>1, <2>2, <2>3 DEF Inv, GameSound
<1>8. CASE currentWord' = w /\ LoadWiktionaryPage(w, page) /\ UNCHANGED <<clock, history, modal>>
  <2>1. loads' \in Seq(Word) /\ page' \in [word : Words, visible : BOOLEAN, failed : BOOLEAN]
    BY <1>8, LoadFacts
  <2>2. TypeOK'
    BY <1>1, <1>3, <1>4, <1>6, <1>8, <2>1, KeptTypes DEF TypeOK
  <2>3. ClicksCountPath'
    BY <1>3, <1>4, <1>8 DEF ClicksCountPath
  <2>4. HistoryTruthful' /\ OneClock'
    BY <1>1, <1>8 DEF HistoryTruthful, OneClock, Same
  <2> QED
    BY <1>5, <2>2, <2>3, <2>4 DEF Inv, GameSound
<1> QED
  BY <1>7, <1>8

LEMMA LinkInv == \A w \in Word : Inv /\ HandleLinkClick(w) => Inv'
<1> SUFFICES ASSUME NEW w \in Word, Inv, HandleLinkClick(w) PROVE Inv'
  OBVIOUS
<1> QED
  BY GoInv DEF HandleLinkClick

LEMMA DebugInv == \A w \in Word : Inv /\ DebugNavigate(w) => Inv'
<1> SUFFICES ASSUME NEW w \in Word, Inv, DebugNavigate(w) PROVE Inv'
  OBVIOUS
<1> QED
  BY GoInv DEF DebugNavigate

LEMMA BackInv == \A i \in DOMAIN path : Inv /\ ClickBreadcrumb(i) => Inv'
<1> SUFFICES ASSUME NEW i \in DOMAIN path, Inv, ClickBreadcrumb(i) PROVE Inv'
  OBVIOUS
<1>1. /\ TypeOK /\ ClicksCountPath /\ HistoryTruthful /\ OneClock /\ Begun
      /\ path \in Seq(Word) /\ path # <<>> /\ path[i] \in Word /\ i \in Nat \ {0}
  BY DEF Inv, GameSound, TypeOK, ClickBreadcrumb, Begun
<1>2. /\ path' \in Seq(Word) /\ path' # <<>> /\ Len(path') = i
      /\ path'[1] = path[1] /\ Last(path') = path[i]
  BY <1>1, PrefixFacts DEF ClickBreadcrumb, BackTo
<1>3. currentWord' = path[i] /\ clickCount' = i - 1 /\ clickCount' \in Nat
  BY <1>1 DEF ClickBreadcrumb
<1>4. loads' \in Seq(Word) /\ page' \in [word : Words, visible : BOOLEAN, failed : BOOLEAN]
  BY <1>1, LoadFacts DEF ClickBreadcrumb
<1>5. UNCHANGED <<screen, game, clock, modal, debug, debugBar, history, pending, today>>
  BY DEF ClickBreadcrumb
<1>6. TypeOK'
  BY <1>1, <1>2, <1>3, <1>4, <1>5, KeptTypes DEF TypeOK, Words
<1>7. ClicksCountPath'
  BY <1>1, <1>2, <1>3, <1>5 DEF ClicksCountPath
<1>8. HistoryTruthful' /\ OneClock' /\ Begun'
  BY <1>1, <1>2, <1>5 DEF HistoryTruthful, OneClock, Begun, Offered, Same
<1> QED
  BY <1>6, <1>7, <1>8 DEF Inv, GameSound

LEMMA HomeInv == Inv /\ GoHome => Inv'
<1> SUFFICES ASSUME Inv, GoHome PROVE Inv'
  OBVIOUS
<1>1. TypeOK /\ HistoryTruthful /\ OneClock /\ Begun
  BY DEF Inv, GameSound
<1>2. clock' \in [running : Nat, held : BOOLEAN] /\ OneClock'
  BY <1>1 DEF GoHome, StopTimer, OneClock, TypeOK
<1>3. page' \in [word : Words, visible : BOOLEAN, failed : BOOLEAN]
  BY <1>1 DEF GoHome, TypeOK, Words
<1>4. path' = <<>> /\ path' \in Seq(Word) /\ clickCount' \in Nat /\ currentWord' \in Words /\ screen' = "home"
  BY DEF GoHome, Words
<1>5. UNCHANGED <<game, modal, debug, debugBar, history, loads, pending, today>>
  BY DEF GoHome
<1>6. TypeOK'
  BY <1>1, <1>2, <1>3, <1>4, <1>5, KeptTypes DEF TypeOK
<1>7. ClicksCountPath' /\ HistoryTruthful' /\ Begun'
  BY <1>1, <1>4, <1>5 DEF ClicksCountPath, HistoryTruthful, Begun, Offered, Same
<1> QED
  BY <1>2, <1>6, <1>7 DEF Inv, GameSound

LEMMA ScreensInv == Inv /\ (ShowScreen \/ CloseVictory \/ ToggleDebug \/ Midnight) => Inv'
<1> SUFFICES ASSUME Inv, ShowScreen \/ CloseVictory \/ ToggleDebug \/ Midnight PROVE Inv'
  OBVIOUS
<1>1. TypeOK /\ Begun
  BY DEF Inv, GameSound
<1>2. CASE ShowScreen
  BY <1>1, <1>2, AsideInv DEF ShowScreen, TypeOK, Begun
<1>3. CASE CloseVictory
  BY <1>1, <1>3, AsideInv DEF CloseVictory, TypeOK, Begun
<1>4. CASE ToggleDebug
  BY <1>1, <1>4, AsideInv DEF ToggleDebug, TypeOK, Begun
<1>5. CASE Midnight
  <2>1. today' \in Day
    BY <1>1, <1>5, GameAssumption DEF Midnight, TypeOK, Day
  <2> QED
    BY <1>1, <1>5, <2>1, AsideInv DEF Midnight, TypeOK, Begun
<1> QED
  BY <1>2, <1>3, <1>4, <1>5

------------------------------------------------------------------------------

LEMMA NextInv == Inv /\ [Next]_vars => Inv'
<1> SUFFICES ASSUME Inv, [Next]_vars PROVE Inv'
  OBVIOUS
<1>1. CASE StartDailyChallenge
  BY <1>1, StartDailyInv
<1>2. CASE StartPracticeMode
  BY <1>2, PracticeInv
<1>3. CASE \E w \in Word : HandleLinkClick(w) \/ DebugNavigate(w)
  BY <1>3, LinkInv, DebugInv
<1>4. CASE \E i \in DOMAIN path : ClickBreadcrumb(i)
  BY <1>4, BackInv
<1>5. CASE ShowScreen \/ CloseVictory \/ ToggleDebug \/ Midnight
  BY <1>5, ScreensInv
<1>6. CASE GoHome
  BY <1>6, HomeInv
<1>7. CASE PageLoaded
  BY <1>7, AnswerInv
<1>8. CASE Validated
  BY <1>8, ValidatedInv
<1>9. CASE UNCHANGED vars
  <2>1. UNCHANGED <<screen, game, way, clock, modal, debug, debugBar, history, page, loads, pending, today>>
    BY <1>9 DEF vars, way
  <2> QED
    BY <2>1, AsideInv DEF Inv, GameSound, TypeOK, Begun
<1> QED
  BY <1>1, <1>2, <1>3, <1>4, <1>5, <1>6, <1>7, <1>8, <1>9 DEF Next, Act

\* However the player starts, clicks, goes back, leaves and returns, in debug
\* mode or over midnight, and in whatever order pages and lookups answer: the
\* clicks are those of the path (game.js:489, 798), the history tells games as
\* they were played and keeps its bound (game.js:911), and at most one interval
\* runs (game.js:819).
THEOREM GameHolds == Spec => []GameSound
<1>1. Init => Inv
  BY InitInv
<1>2. Inv /\ [Next]_vars => Inv'
  BY NextInv
<1>3. Inv => GameSound
  BY DEF Inv
<1> QED
  BY <1>1, <1>2, <1>3, PTL DEF Spec

LEMMA WinKeeps ==
    ASSUME Inv, NEW p \in Seq(Word), NEW n \in Nat, Win(p, n), history' # history
    PROVE  /\ Len(history') >= Len(history) /\ Len(history') >= 1
           /\ \A k \in 2 .. Len(history') : history'[k] = history[k - 1]
<1> DEFINE e == Completion(p, n)
<1>1. e \in Entry
  BY DEF Inv, GameSound, TypeOK, Completion, Entry, GameType, Day
<1>2. history' = Take(<<e>> \o history, HistoryCap)
  BY DEF Win, SaveCompletion
<1>3. history \in Seq(Entry) /\ HistoryCap \in Nat \ {0} /\ Len(history) <= HistoryCap
  BY GameAssumption DEF Inv, GameSound, TypeOK
<1>4. Saved(history', history, e, HistoryCap)
  <2> HIDE DEF e
  <2> QED
    BY <1>1, <1>2, <1>3, TakeFacts
<1> QED
  BY <1>3, <1>4 DEF Saved

\* The history only ever gains an entry at its front, and loses one at its end
\* when it is full: what was saved is neither changed nor put in another order
\* (game.js:911).
THEOREM HistoryKept == Spec => HistoryKeepsNewest
<1>1. ASSUME Inv, [Next]_vars
      PROVE  [history' # history =>
                /\ Len(history') >= Len(history) /\ Len(history') >= 1
                /\ \A k \in 2 .. Len(history') : history'[k] = history[k - 1]]_vars
  <2> SUFFICES ASSUME history' # history
               PROVE  /\ Len(history') >= Len(history) /\ Len(history') >= 1
                      /\ \A k \in 2 .. Len(history') : history'[k] = history[k - 1]
    OBVIOUS
  <2>1. /\ ~StartPracticeMode /\ ~StartDailyChallenge /\ ~ShowScreen /\ ~GoHome /\ ~CloseVictory
        /\ ~ToggleDebug /\ ~Midnight /\ ~PageLoaded /\ ~Validated /\ ~UNCHANGED vars
        /\ \A i \in DOMAIN path : ~ClickBreadcrumb(i)
    BY DEF StartPracticeMode, StartDailyChallenge, ShowScreen, GoHome, CloseVictory, ToggleDebug,
           Midnight, PageLoaded, Validated, ClickBreadcrumb, vars
  <2>2. PICK w \in Word : HandleLinkClick(w) \/ DebugNavigate(w)
    BY <1>1, <2>1 DEF Next, Act
  <2>3. path' = Append(path, w) /\ clickCount' = clickCount + 1 /\ Win(path', clickCount')
    BY <2>2 DEF HandleLinkClick, DebugNavigate
  <2>4. path' \in Seq(Word) /\ clickCount' \in Nat
    BY <1>1, <2>3, AppendFacts DEF Inv, GameSound, TypeOK
  <2> QED
    BY <1>1, <2>3, <2>4, WinKeeps
<1> QED
  BY <1>1, InitInv, NextInv, PTL DEF Spec, HistoryKeepsNewest

------------------------------------------------------------------------------
(* Who waits for the pages of the game *)

\* The path has come to the target; its start does not count.
Arrived == Len(path) >= 2 /\ Same(Last(path), game.target)

\* What is under way while one waits: a word that is looked up, or the page of
\* the word one has come to; and where the clock runs.
Waits ==
    /\ pending # NoGame => screen = "practiceSetup" /\ loads = <<>>
    /\ loads # <<>> => loads = <<currentWord>> /\ screen = "game" /\ ~modal /\ ~page.visible
    /\ modal => screen = "game" /\ ~clock.held
    /\ clock.held => screen = "game"

\* What is seen in a game is what has been come to, before the target.
Follows ==
    screen = "game" =>
        /\ debugBar = debug
        /\ currentWord = Last(path) \/ Arrived
        /\ page.visible => page.word = currentWord \/ Arrived

PlayInv == patient => Waits /\ Follows /\ PathFollowsLinks

LEMMA PlayInitInv == GameInit => PlayInv
<1> SUFFICES ASSUME GameInit PROVE PlayInv
  OBVIOUS
<1>1. Waits /\ Follows
  BY DEF GameInit, Init, Waits, Follows
<1>2. PathFollowsLinks
  BY DEF GameInit, Init, PathFollowsLinks
<1> QED
  BY <1>1, <1>2 DEF PlayInv

\* The way is cut off, or goes on by a link of the page it has come to.
LEMMA LinkedPrefix ==
    ASSUME NEW s \in Seq(Word), NEW i \in DOMAIN s, NEW t, Linked(s, t)
    PROVE  Linked(SubSeq(s, 1, i), t)
<1>1. /\ i \in 1 .. Len(s) /\ Len(SubSeq(s, 1, i)) = i
      /\ \A k \in 1 .. i : SubSeq(s, 1, i)[k] = s[k]
  BY SubSeqProperties
<1> DEFINE p == SubSeq(s, 1, i)
<1>2. ASSUME NEW k \in 1 .. Len(p) - 1, \A j \in 2 .. k : ~Same(p[j], t)
      PROVE  \E l \in Links[p[k]] : l.to = p[k + 1] /\ l.site \in {"internal", "wiktionary"}
  <2>1. k \in 1 .. Len(s) - 1 /\ p[k] = s[k] /\ p[k + 1] = s[k + 1] /\ \A j \in 2 .. k : p[j] = s[j]
    BY <1>1
  <2> QED
    BY <1>2, <2>1 DEF Linked
<1> QED
  BY <1>2 DEF Linked

LEMMA LinkedAppend ==
    ASSUME NEW s \in Seq(Word), NEW w \in Word, NEW t, s # <<>>, Linked(s, t),
           (\A j \in 2 .. Len(s) : ~Same(s[j], t)) =>
               \E l \in Links[s[Len(s)]] : l.to = w /\ l.site \in {"internal", "wiktionary"}
    PROVE  Linked(Append(s, w), t)
<1> DEFINE p == Append(s, w)
<1>1. /\ Len(p) = Len(s) + 1 /\ Len(s) \in Nat \ {0} /\ p[Len(s) + 1] = w
      /\ \A k \in 1 .. Len(s) : p[k] = s[k]
  BY EmptySeq
<1>2. ASSUME NEW k \in 1 .. Len(p) - 1, \A j \in 2 .. k : ~Same(p[j], t)
      PROVE  \E l \in Links[p[k]] : l.to = p[k + 1] /\ l.site \in {"internal", "wiktionary"}
  <2>1. k \in 1 .. Len(s) /\ p[k] = s[k] /\ \A j \in 2 .. k : p[j] = s[j]
    BY <1>1
  <2>2. CASE k = Len(s)
    BY <1>1, <1>2, <2>1, <2>2
  <2>3. CASE k # Len(s)
    <3>1. k \in 1 .. Len(s) - 1 /\ p[k + 1] = s[k + 1]
      BY <1>1, <2>1, <2>3
    <3> QED
      BY <1>2, <2>1, <3>1 DEF Linked
  <2> QED
    BY <2>2, <2>3
<1> QED
  BY <1>2 DEF Linked

\* A game begins, while nothing else is under way.
LEMMA PlayStart ==
    ASSUME Inv, PlayInv, patient, patient', loads = <<>>, ~modal,
           NEW g, Offered(g), StartGame(g), UNCHANGED <<modal, debug, history>>, pending' = NoGame
    PROVE  PlayInv'
<1>1. /\ screen' = "game" /\ path' = <<g.start>> /\ currentWord' = g.start /\ debugBar' = debug
      /\ loads' = <<g.start>> /\ ~page'.visible
  BY DEF StartGame, LoadWiktionaryPage, Nothing
<1>2. Len(path') = 1 /\ Last(path') = g.start
  BY <1>1 DEF Last
<1>3. Linked(path', game'.target)
  BY <1>2 DEF Linked
<1>4. Waits'
  BY <1>1 DEF Waits
<1>5. Follows'
  BY <1>1, <1>2 DEF Follows
<1>6. PathFollowsLinks'
  BY <1>3 DEF PlayInv, PathFollowsLinks
<1> QED
  BY <1>4, <1>5, <1>6 DEF PlayInv

LEMMA PlayDaily ==
    ASSUME Inv, PlayInv, patient, patient', loads = <<>>, pending = NoGame, StartDailyChallenge
    PROVE  PlayInv'
<1>1. PICK i \in DOMAIN Daily :
        /\ Daily[i].date = today
        /\ StartGame([mode |-> "daily", start |-> Daily[i].start, target |-> Daily[i].target, date |-> today])
  BY DEF StartDailyChallenge
<1> DEFINE g == [mode |-> "daily", start |-> Daily[i].start, target |-> Daily[i].target, date |-> today]
<1>2. Daily[i] \in [date : Day, start : Word, target : Word]
  <2>1. Daily \in Seq([date : Day, start : Word, target : Word])
    BY GameAssumption
  <2> QED
    BY <2>1, LenProperties
<1>3. Offered(g)
  <2>1. today \in 0 .. LastDay /\ today \in Day
    BY GameAssumption DEF Inv, GameSound, TypeOK, Day
  <2>2. g \in GameType
    BY <1>2, <2>1 DEF GameType, Mode, Words
  <2>3. Daily[i] = [date |-> g.date, start |-> g.start, target |-> g.target]
    BY <1>1, <1>2
  <2> QED
    BY <1>2, <2>1, <2>2, <2>3 DEF Offered
<1>4. ~modal
  BY DEF PlayInv, Waits, StartDailyChallenge
<1> HIDE DEF g
<1> QED
  BY <1>1, <1>3, <1>4, PlayStart DEF StartDailyChallenge, g

LEMMA PlayValidated ==
    ASSUME Inv, PlayInv, patient, patient', Validated
    PROVE  PlayInv'
<1>1. Offered(pending) /\ loads = <<>> /\ ~modal
  BY DEF Inv, Begun, PlayInv, Waits, Validated
<1>2. CASE StartGame(pending)
  BY <1>1, <1>2, PlayStart DEF Validated
<1>3. CASE UNCHANGED <<screen, game, way, clock, debugBar, page, loads>>
  BY <1>1, <1>3 DEF Validated, way, PlayInv, Waits, Follows, Arrived, PathFollowsLinks
<1> QED
  BY <1>2, <1>3 DEF Validated

\* A word more on the path, won or not.
LEMMA PlayGo ==
    ASSUME Inv, PlayInv, patient, patient', loads = <<>>, pending = NoGame, NEW w \in Word,
           screen = "game", ~modal,
           path' = Append(path, w), clickCount' = clickCount + 1,
           UNCHANGED <<screen, game, debug, debugBar, pending, today>>,
           \/ /\ Same(w, game.target)
              /\ Win(path', clickCount')
              /\ UNCHANGED <<page, loads>>
           \/ /\ ~Same(w, game.target) /\ currentWord' = w
              /\ LoadWiktionaryPage(w, page)
              /\ UNCHANGED <<clock, history, modal>>,
           debugBar \/ Linked(path', game.target)
    PROVE  PlayInv'
<1>1. path \in Seq(Word) /\ path # <<>> /\ Offered(game) /\ clickCount \in Nat
  BY DEF Inv, GameSound, TypeOK, Begun
<1>2. path' \in Seq(Word) /\ Len(path') >= 2 /\ Last(path') = w /\ clickCount' \in Nat
  <2>1. Len(path) \in Nat \ {0}
    BY <1>1, EmptySeq
  <2> QED
    BY <1>1, <2>1, AppendFacts
<1>3. path' = <<>> \/ debugBar' \/ Linked(path', game'.target)
  OBVIOUS
<1>4. CASE Same(w, game.target) /\ Win(path', clickCount') /\ UNCHANGED <<page, loads>>
  <2>1. Arrived'
    BY <1>2, <1>4 DEF Arrived, Same
  <2>2. Waits'
    BY <1>4 DEF Waits, Win, StopTimer, Inv, GameSound, TypeOK
  <2>3. Follows'
    BY <2>1 DEF PlayInv, Follows
  <2>4. \A k \in DOMAIN history' : Linked(history'[k].path, history'[k].target)
    <3>1. CASE debug
      BY <1>4, <3>1 DEF Win, SaveCompletion, PlayInv, PathFollowsLinks
    <3>2. CASE ~debug
      <4> DEFINE e == Completion(path', clickCount')
      <4>1. e \in Entry /\ Linked(e.path, e.target)
        <5>1. Linked(path', game.target)
          BY <3>2 DEF PlayInv, Follows
        <5> QED
          BY <1>1, <1>2, <5>1, GameAssumption DEF Inv, GameSound, TypeOK, Completion, Entry, GameType, Day
      <4>2. history' = Take(<<e>> \o history, HistoryCap)
        BY <1>4, <3>2 DEF Win, SaveCompletion
      <4>3. history \in Seq(Entry) /\ HistoryCap \in Nat \ {0}
        BY GameAssumption DEF Inv, GameSound, TypeOK
      <4> HIDE DEF e
      <4>4. history' \in Seq(Entry) /\ Saved(history', history, e, HistoryCap)
        BY <4>1, <4>2, <4>3, TakeFacts
      <4>5. ASSUME NEW k \in DOMAIN history' PROVE Linked(history'[k].path, history'[k].target)
        <5>1. k \in 1 .. Len(history')
          BY <4>4
        <5>2. CASE k = 1
          BY <4>1, <4>4, <5>2 DEF Saved
        <5>3. CASE k # 1
          BY <4>4, <5>1, <5>3 DEF Saved, PlayInv, PathFollowsLinks
        <5> QED
          BY <5>2, <5>3
      <4> QED
        BY <4>5
    <3> QED
      BY <3>1, <3>2
  <2> QED
    BY <1>3, <2>2, <2>3, <2>4 DEF PlayInv, PathFollowsLinks
<1>5. CASE /\ currentWord' = w /\ LoadWiktionaryPage(w, page)
           /\ UNCHANGED <<clock, history, modal>>
  <2>1. loads' = <<w>> /\ ~page'.visible
    BY <1>5 DEF LoadWiktionaryPage, Inv, GameSound, TypeOK
  <2>2. Waits'
    BY <1>5, <2>1 DEF PlayInv, Waits
  <2>3. Follows'
    BY <1>2, <1>5, <2>1 DEF PlayInv, Follows
  <2>4. PathFollowsLinks'
    BY <1>3, <1>5 DEF PlayInv, PathFollowsLinks
  <2> QED
    BY <2>2, <2>3, <2>4 DEF PlayInv
<1> QED
  BY <1>4, <1>5

LEMMA PlayLink ==
    ASSUME Inv, PlayInv, patient, patient', loads = <<>>, pending = NoGame, NEW w \in Word, HandleLinkClick(w)
    PROVE  PlayInv'
<1>1. path \in Seq(Word) /\ path # <<>>
  BY DEF Inv, GameSound, TypeOK, Begun, HandleLinkClick
<1>2. ASSUME ~debugBar PROVE Linked(path', game.target)
  <2>1. Linked(path, game.target) /\ Len(path) \in Nat \ {0}
    BY <1>1, <1>2, EmptySeq DEF PlayInv, PathFollowsLinks
  <2>2. ASSUME \A j \in 2 .. Len(path) : ~Same(path[j], game.target)
        PROVE  \E l \in Links[path[Len(path)]] : l.to = w /\ l.site \in {"internal", "wiktionary"}
    <3>1. ~Arrived
      BY <2>1, <2>2 DEF Arrived, Last
    <3>2. page.word = path[Len(path)]
      BY <3>1 DEF PlayInv, Follows, HandleLinkClick, Last
    <3> QED
      BY <3>2 DEF HandleLinkClick, Playable
  <2> QED
    BY <1>1, <2>1, <2>2, LinkedAppend DEF HandleLinkClick
<1> QED
  BY <1>2, PlayGo DEF HandleLinkClick

LEMMA PlayDebug ==
    ASSUME Inv, PlayInv, patient, patient', loads = <<>>, pending = NoGame, NEW w \in Word, DebugNavigate(w)
    PROVE  PlayInv'
  BY PlayGo DEF DebugNavigate

LEMMA PlayBack ==
    ASSUME Inv, PlayInv, patient, patient', loads = <<>>, pending = NoGame, NEW i \in DOMAIN path, ClickBreadcrumb(i)
    PROVE  PlayInv'
<1>1. path \in Seq(Word)
  BY DEF Inv, GameSound, TypeOK
<1>2. path' = SubSeq(path, 1, i) /\ currentWord' = path[i] /\ Last(path') = path[i]
  BY <1>1, PrefixFacts DEF ClickBreadcrumb, BackTo
<1>3. loads' = <<path[i]>> /\ ~page'.visible
  BY DEF ClickBreadcrumb, LoadWiktionaryPage, Inv, GameSound, TypeOK
<1>4. Waits'
  BY <1>2, <1>3 DEF PlayInv, Waits, ClickBreadcrumb
<1>5. Follows'
  BY <1>2, <1>3 DEF PlayInv, Follows, ClickBreadcrumb
<1>6. debugBar \/ Linked(path', game.target)
  BY <1>1, <1>2, LinkedPrefix, EmptySeq DEF PlayInv, PathFollowsLinks
<1>7. PathFollowsLinks'
  BY <1>6 DEF PlayInv, PathFollowsLinks, ClickBreadcrumb
<1> QED
  BY <1>4, <1>5, <1>7 DEF PlayInv

LEMMA PlayHome ==
    ASSUME Inv, PlayInv, patient, patient', loads = <<>>, pending = NoGame, GoHome
    PROVE  PlayInv'
<1>1. Waits'
  BY DEF GoHome, Waits, StopTimer, Inv, GameSound, TypeOK
<1>2. Follows'
  BY DEF GoHome, Follows
<1>3. PathFollowsLinks'
  BY DEF GoHome, PlayInv, PathFollowsLinks
<1> QED
  BY <1>1, <1>2, <1>3 DEF PlayInv

LEMMA PlayAside ==
    ASSUME Inv, PlayInv, patient, patient', loads = <<>>, pending = NoGame,
           ShowScreen \/ CloseVictory \/ ToggleDebug \/ Midnight
    PROVE  PlayInv'
<1>1. UNCHANGED <<game, path, currentWord, clock, debugBar, history, page, loads, pending>>
  BY DEF ShowScreen, CloseVictory, ToggleDebug, Midnight, way
<1>2. screen' = "game" => screen = "game" /\ debug' = debug
  BY DEF ShowScreen, CloseVictory, ToggleDebug, Midnight
<1>3. Waits'
  BY <1>1, <1>2 DEF ShowScreen, CloseVictory, ToggleDebug, Midnight, PlayInv, Waits
<1>4. Follows'
  BY <1>1, <1>2 DEF PlayInv, Follows, Arrived
<1>5. PathFollowsLinks'
  BY <1>1 DEF PlayInv, PathFollowsLinks
<1> QED
  BY <1>3, <1>4, <1>5 DEF PlayInv

LEMMA PlayPractice ==
    ASSUME Inv, PlayInv, patient, patient', loads = <<>>, pending = NoGame, StartPracticeMode
    PROVE  PlayInv'
<1>1. Waits'
  BY DEF StartPracticeMode, PlayInv, Waits, way
<1>2. Follows' /\ PathFollowsLinks'
  BY DEF StartPracticeMode, PlayInv, Follows, Arrived, PathFollowsLinks, way
<1> QED
  BY <1>1, <1>2 DEF PlayInv

\* The one answer there may be is the page of the word one has come to.
LEMMA PlayAnswer ==
    ASSUME Inv, PlayInv, patient, patient', PageLoaded
    PROVE  PlayInv'
<1>1. PICK i \in DOMAIN loads, found \in BOOLEAN :
        /\ loads' = Without(loads, i)
        /\ page' = IF found THEN [word |-> loads[i], visible |-> TRUE, failed |-> page.failed]
                   ELSE [page EXCEPT !.failed = TRUE]
        /\ UNCHANGED <<screen, game, way, clock, modal, debug, debugBar, history, pending, today>>
  BY DEF PageLoaded
<1>2. loads = <<currentWord>> /\ i = 1
  BY <1>1 DEF PlayInv, Waits, Inv, GameSound, TypeOK
<1>3. loads' = <<>>
  BY <1>1, <1>2 DEF Without
<1>4. Waits'
  BY <1>1, <1>2, <1>3 DEF PlayInv, Waits, way
<1>5. Follows'
  BY <1>1, <1>2 DEF PlayInv, Follows, Arrived, way, Inv, GameSound, TypeOK
<1>6. PathFollowsLinks'
  BY <1>1 DEF PlayInv, PathFollowsLinks, way
<1> QED
  BY <1>4, <1>5, <1>6 DEF PlayInv

LEMMA PlayNextInv == Inv /\ PlayInv /\ GameNext => PlayInv'
<1> SUFFICES ASSUME Inv, PlayInv, GameNext, patient, patient' PROVE PlayInv'
  BY DEF GameNext, PlayInv
<1>1. CASE PageLoaded
  BY <1>1, PlayAnswer
<1>2. CASE Validated
  BY <1>2, PlayValidated
<1>3. CASE Act /\ loads = <<>> /\ pending = NoGame
  <2>1. CASE StartDailyChallenge
    BY <1>3, <2>1, PlayDaily
  <2>2. CASE StartPracticeMode
    BY <1>3, <2>2, PlayPractice
  <2>3. ASSUME NEW w \in Word, HandleLinkClick(w) PROVE PlayInv'
    BY <1>3, <2>3, PlayLink
  <2>4. ASSUME NEW w \in Word, DebugNavigate(w) PROVE PlayInv'
    BY <1>3, <2>4, PlayDebug
  <2>5. ASSUME NEW i \in DOMAIN path, ClickBreadcrumb(i) PROVE PlayInv'
    BY <1>3, <2>5, PlayBack
  <2>6. CASE GoHome
    BY <1>3, <2>6, PlayHome
  <2>7. CASE ShowScreen \/ CloseVictory \/ ToggleDebug \/ Midnight
    BY <1>3, <2>7, PlayAside
  <2> QED
    BY <1>3, <2>1, <2>2, <2>3, <2>4, <2>5, <2>6, <2>7 DEF Act
<1> QED
  BY <1>1, <1>2, <1>3 DEF GameNext

LEMMA PlayStill == PlayInv /\ UNCHANGED gamevars => PlayInv'
  BY DEF gamevars, vars, way, PlayInv, Waits, Follows, Arrived, PathFollowsLinks

LEMMA PlayImplies == Inv /\ PlayInv => PlayTruthful
<1> SUFFICES ASSUME Inv, PlayInv PROVE PlayTruthful
  OBVIOUS
<1>1. PathFollowsLinks
  BY DEF PlayInv, PathFollowsLinks
<1>2. PageIsCurrent
  BY DEF PlayInv, Follows, Arrived, PageIsCurrent
<1>3. NoClockOutside
  BY DEF PlayInv, Waits, NoClockOutside
<1> QED
  BY <1>1, <1>2, <1>3 DEF PlayTruthful

------------------------------------------------------------------------------
(* How a Hypnospace page is built *)

\* What a build makes, and a build.
Thing == [el : DOMAIN Elements, frames : SUBSET HP!Image, motion : BOOLEAN]
Build == [at : 0 .. Len(Elements), made : SUBSET Thing]

\* All that is waited for up to an element is settled, and what was made is
\* what can be made of the elements before a place.
SettledTo(n) == \A e \in 0 .. n : \A i \in HP!Awaited(e) : HP!Settled(i)
MadeTo(n)    == {HP!Element(e) : e \in {d \in 1 .. n : HP!Makeable(d)}}

Going == SettledTo(builds[1].at - 1) /\ builds[1].made = MadeTo(builds[1].at - 1)

\* Unless the reader was hasty one build runs at most, and the page is empty
\* until it is over.
BuildInv ==
    /\ HP!TypeOK
    /\ builds \in Seq(Build) /\ \A b \in DOMAIN builds : IsFiniteSet(builds[b].made)
    /\ els \in Seq(Thing)
    /\ ~hasty => \/ Len(builds) = 1 /\ els = <<>> /\ Going
                 \/ builds = <<>> /\ SettledTo(Len(Elements)) /\ HP!PageComplete

LEMMA ElementFacts ==
    /\ Len(Elements) \in Nat /\ DOMAIN Elements = 1 .. Len(Elements)
    /\ Sheets \subseteq HP!Image /\ MaxToggles \in Nat
    /\ \A e \in DOMAIN Elements :
        /\ Elements[e].images \subseteq HP!Image
        /\ Elements[e].text => Elements[e].images \subseteq Sheets
<1>1. /\ Elements \in Seq([text : BOOLEAN, images : SUBSET HP!Image, row : Int, x : Int])
      /\ \A e \in DOMAIN Elements : Elements[e].text => Elements[e].images \subseteq Sheets
      /\ MaxToggles \in Nat
  BY PagesAssumption DEF HP!PageAssumption
<1>2. Len(Elements) \in Nat /\ DOMAIN Elements = 1 .. Len(Elements)
  BY <1>1, LenProperties
<1>3. \A e \in DOMAIN Elements : Elements[e].images \subseteq HP!Image
  BY DEF HP!Image
<1> QED
  BY <1>1, <1>2, <1>3 DEF HP!Image

\* The images of an element are settled once the builds have come past it.
LEMMA FramesSettled ==
    ASSUME NEW n \in 0 .. Len(Elements), SettledTo(n), NEW e \in 1 .. n
    PROVE  \A i \in Elements[e].images : HP!Settled(i)
<1>1. 0 \in 0 .. n /\ e \in 0 .. n /\ e # 0 /\ e \in DOMAIN Elements
  BY ElementFacts
<1>2. CASE Elements[e].text
  BY <1>1, <1>2, ElementFacts DEF SettledTo, HP!Awaited
<1>3. CASE ~Elements[e].text
  BY <1>1, <1>3 DEF SettledTo, HP!Awaited
<1> QED
  BY <1>2, <1>3

\* What is settled stays as it is, and so does what was made of it.
LEMMA MadeStays ==
    ASSUME NEW n \in 0 .. Len(Elements), SettledTo(n), motion' = motion,
           \A i \in HP!Image : HP!Settled(i) => images'[i] = images[i]
    PROVE  /\ SettledTo(n)' /\ MadeTo(n)' = MadeTo(n)
           /\ \A e \in 1 .. n : HP!Element(e)' = HP!Element(e) /\ HP!Makeable(e)' = HP!Makeable(e)
<1>1. \A e \in 0 .. n : \A i \in HP!Awaited(e) : i \in HP!Image
  BY ElementFacts DEF HP!Awaited
<1>2. SettledTo(n)'
  <2>1. \A e : HP!Awaited(e)' = HP!Awaited(e)
    BY DEF HP!Awaited
  <2> QED
    BY <1>1, <2>1 DEF SettledTo, HP!Settled
<1>3. ASSUME NEW e \in 1 .. n PROVE HP!Frames(e)' = HP!Frames(e)
  BY FramesSettled, ElementFacts DEF HP!Frames
<1>4. \A e \in 1 .. n : HP!Element(e)' = HP!Element(e) /\ HP!Makeable(e)' = HP!Makeable(e)
  BY <1>3 DEF HP!Element, HP!Makeable
<1>5. MadeTo(n)' = MadeTo(n)
  BY <1>4 DEF MadeTo
<1> QED
  BY <1>2, <1>4, <1>5

\* One element more.
LEMMA MadeOne ==
    ASSUME BuildInv, NEW b \in DOMAIN builds
    PROVE  /\ HP!Made(b) \in SUBSET Thing /\ IsFiniteSet(HP!Made(b))
           /\ builds[b].made = MadeTo(builds[b].at - 1) => HP!Made(b) = MadeTo(builds[b].at)
<1> DEFINE e == builds[b].at
<1>1. builds[b] \in Build /\ IsFiniteSet(builds[b].made)
  BY DEF BuildInv
<1>2. e \in 0 .. Len(Elements) /\ builds[b].made \in SUBSET Thing
  BY <1>1 DEF Build
<1>3. HP!Made(b) = builds[b].made \cup (IF e > 0 /\ HP!Makeable(e) THEN {HP!Element(e)} ELSE {})
  BY DEF HP!Made
<1> HIDE DEF e
<1>4. e > 0 => HP!Element(e) \in Thing
  BY <1>2, ElementFacts DEF HP!Element, HP!Frames, Thing, BuildInv, HP!TypeOK
<1>5. IsFiniteSet(HP!Made(b))
  <2>1. IsFiniteSet(builds[b].made \cup {HP!Element(e)})
    BY <1>1, FS_AddElement
  <2> QED
    BY <1>1, <1>3, <2>1
<1>6. MadeTo(e) = MadeTo(e - 1) \cup (IF e > 0 /\ HP!Makeable(e) THEN {HP!Element(e)} ELSE {})
  <2>1. CASE e = 0
    BY <2>1 DEF MadeTo
  <2>2. CASE e > 0
    <3>1. 1 .. e = (1 .. (e - 1)) \cup {e}
      BY <1>2, <2>2
    <3> QED
      BY <2>2, <3>1 DEF MadeTo
  <2> QED
    BY <1>2, <2>1, <2>2
<1> QED
  BY <1>2, <1>3, <1>4, <1>5, <1>6 DEF e

LEMMA BuildInitInv == HP!Init => BuildInv
<1> SUFFICES ASSUME HP!Init PROVE BuildInv
  OBVIOUS
<1> DEFINE first == [at |-> 0, made |-> {}]
<1>1. first \in Build /\ first.at = 0 /\ first.made = {} /\ IsFiniteSet({})
  BY ElementFacts, FS_EmptySet DEF Build
<1>2. builds = <<first>> /\ els = <<>>
  BY DEF HP!Init
<1>3. SettledTo(-1) /\ MadeTo(-1) = {}
  BY DEF SettledTo, MadeTo
<1> HIDE DEF first
<1>4. /\ builds \in Seq(Build) /\ Len(builds) = 1 /\ builds[1] = first /\ DOMAIN builds = {1}
      /\ els \in Seq(Thing) /\ DOMAIN els = {}
  BY <1>1, <1>2
<1>5. HP!TypeOK
  <2>1. images \in [HP!Image -> {"none", "loading", "ok", "bad"}]
    BY DEF HP!Init
  <2>2. \A b \in DOMAIN builds : builds[b].at \in 0 .. Len(Elements)
    BY <1>1, <1>4, ElementFacts
  <2>3. motion \in BOOLEAN /\ hasty \in BOOLEAN
    BY DEF HP!Init
  <2>4. toggles \in 0 .. MaxToggles
    BY ElementFacts DEF HP!Init
  <2> QED
    BY <1>4, <2>1, <2>2, <2>3, <2>4 DEF HP!TypeOK
<1>6. Going
  <2>1. builds[1].at - 1 = -1
    BY <1>1, <1>4
  <2> QED
    BY <1>1, <1>3, <1>4, <2>1 DEF Going
<1> QED
  BY <1>1, <1>2, <1>4, <1>5, <1>6 DEF BuildInv

\* A page that is asked for changes nothing that is settled.
LEMMA AskedFacts ==
    ASSUME BuildInv, NEW e, images' = HP!Asked(e)
    PROVE  /\ images' \in [HP!Image -> {"none", "loading", "ok", "bad"}]
           /\ \A i \in HP!Image : HP!Settled(i) => images'[i] = images[i]
  BY DEF BuildInv, HP!TypeOK, HP!Asked, HP!Settled

LEMMA BuildStep ==
    ASSUME BuildInv, NEW b \in DOMAIN builds, HP!GoOn(b), builds[b].at < Len(Elements),
           builds' = [builds EXCEPT ![b] = [at |-> @.at + 1, made |-> HP!Made(b)]],
           images' = HP!Asked(builds[b].at + 1), UNCHANGED els
    PROVE  BuildInv'
<1>0. builds \in Seq(Build) /\ builds[b] \in Build /\ Len(Elements) \in Nat
  BY ElementFacts DEF BuildInv
<1>1. PICK n \in 0 .. Len(Elements) - 1 : n = builds[b].at
  BY <1>0 DEF Build
<1>2. PICK new : new = [at |-> n + 1, made |-> HP!Made(b)]
  OBVIOUS
<1>3. new \in Build /\ IsFiniteSet(new.made) /\ new.at = n + 1 /\ new.made = HP!Made(b)
  <2>1. n + 1 \in 0 .. Len(Elements)
    BY <1>0, <1>1
  <2> QED
    BY <1>2, <2>1, MadeOne DEF Build
<1>4. builds' = [builds EXCEPT ![b] = new]
  BY <1>0, <1>1, <1>2
<1>5. UNCHANGED <<motion, toggles, hasty>> /\ \A i \in HP!Awaited(n) : HP!Settled(i)
  BY <1>1 DEF HP!GoOn, HP!CanGoOn
<1>6. /\ builds' \in Seq(Build) /\ Len(builds') = Len(builds) /\ DOMAIN builds' = DOMAIN builds
      /\ \A c \in DOMAIN builds' : builds'[c] = IF c = b THEN new ELSE builds[c]
  BY <1>0, <1>3, <1>4
<1>7. \A c \in DOMAIN builds' : IsFiniteSet(builds'[c].made)
  BY <1>3, <1>6 DEF BuildInv
<1>8. HP!TypeOK'
  <2>1. \A c \in DOMAIN builds' : builds'[c].at \in 0 .. Len(Elements)
    BY <1>6, <1>3 DEF Build, BuildInv, HP!TypeOK
  <2>2. images' \in [HP!Image -> {"none", "loading", "ok", "bad"}]
    BY AskedFacts
  <2> QED
    BY <1>5, <2>1, <2>2 DEF BuildInv, HP!TypeOK
<1>9. ASSUME ~hasty PROVE Len(builds') = 1 /\ els' = <<>> /\ Going'
  <2>1. /\ b = 1 /\ Len(builds) = 1 /\ els = <<>>
        /\ SettledTo(n - 1) /\ builds[b].made = MadeTo(n - 1)
    BY <1>0, <1>1, <1>9 DEF BuildInv, Going
  <2>2. builds'[1] = new /\ new.at - 1 = n
    BY <1>3, <1>6, <2>1
  <2>3. SettledTo(n)
    <3>1. \A e \in 0 .. n : e \in 0 .. n - 1 \/ e = n
      BY <1>0, <1>1
    <3> QED
      BY <1>5, <2>1, <3>1 DEF SettledTo
  <2>4. HP!Made(b) = MadeTo(n)
    BY <1>1, <2>1, MadeOne
  <2>5. \A i \in HP!Image : HP!Settled(i) => images'[i] = images[i]
    BY AskedFacts
  <2>6. SettledTo(n)' /\ MadeTo(n)' = MadeTo(n)
    BY <1>0, <1>1, <1>5, <2>3, <2>5, MadeStays
  <2> QED
    BY <1>3, <1>6, <2>1, <2>2, <2>4, <2>6 DEF Going
<1> QED
  BY <1>5, <1>6, <1>7, <1>8, <1>9 DEF BuildInv

\* What was made is put on the page, in order.
LEMMA OrderFacts ==
    ASSUME NEW S \in SUBSET Thing, IsFiniteSet(S), NEW s \in HP!ReadingOrder(S)
    PROVE  /\ s \in Seq(Thing) /\ \A k \in DOMAIN s : s[k] \in S
           /\ \A m \in S : \E k \in DOMAIN s : s[k] = m
           /\ \A j, k \in DOMAIN s : j < k => HP!Before(s[j].el, s[k].el)
<1>1. Cardinality(S) \in Nat /\ HP!Cardinality(S) = Cardinality(S)
  BY FS_CardinalityType DEF HP!Cardinality, Cardinality
<1>2. /\ s \in [1 .. Cardinality(S) -> S]
      /\ \A m \in S : \E k \in DOMAIN s : s[k] = m
      /\ \A j, k \in DOMAIN s : j < k => HP!Before(s[j].el, s[k].el)
  BY <1>1 DEF HP!ReadingOrder
<1> QED
  BY <1>1, <1>2

LEMMA BuildEnds ==
    ASSUME BuildInv, NEW b \in DOMAIN builds, HP!GoOn(b), builds[b].at = Len(Elements),
           builds' = HP!RemoveAt(builds, b),
           NEW s \in HP!ReadingOrder(HP!Made(b)), els' = els \o s, UNCHANGED images
    PROVE  BuildInv'
<1>1. HP!RemoveAt(builds, b) = Without(builds, b)
  BY DEF HP!RemoveAt, Without
<1>2. builds \in Seq(Build) /\ b \in 1 .. Len(builds)
  BY DEF BuildInv
<1>3. /\ builds' \in Seq(Build)
      /\ \A c \in DOMAIN builds' : \E d \in DOMAIN builds : builds'[c] = builds[d]
  <2> DEFINE S == {builds[d] : d \in DOMAIN builds}
  <2>1. builds \in Seq(S) /\ S \subseteq Build
    BY <1>2
  <2> HIDE DEF S
  <2>2. builds' \in Seq(S)
    BY <1>1, <2>1, WithoutFacts
  <2>3. builds' \in Seq(Build) /\ \A c \in DOMAIN builds' : builds'[c] \in S
    BY <2>1, <2>2
  <2> QED
    BY <2>3 DEF S
<1>4. /\ s \in Seq(Thing) /\ \A k \in DOMAIN s : s[k] \in HP!Made(b)
      /\ \A m \in HP!Made(b) : \E k \in DOMAIN s : s[k] = m
      /\ \A j, k \in DOMAIN s : j < k => HP!Before(s[j].el, s[k].el)
  BY MadeOne, OrderFacts
<1>5. els' \in Seq(Thing)
  BY <1>4, ConcatProperties DEF BuildInv
<1>6. UNCHANGED <<motion, toggles, hasty, images>>
  BY DEF HP!GoOn
<1>7. HP!TypeOK'
  <2>1. \A c \in DOMAIN builds' : builds'[c].at \in 0 .. Len(Elements)
    <3>1. \A c \in DOMAIN builds' : builds'[c] \in Build
      BY <1>3
    <3> QED
      BY <3>1 DEF Build
  <2>2. \A k \in DOMAIN els' : els'[k].el \in DOMAIN Elements
    <3>1. \A k \in DOMAIN els' : els'[k] \in Thing
      BY <1>5
    <3> QED
      BY <3>1 DEF Thing
  <2> QED
    BY <1>6, <2>1, <2>2 DEF BuildInv, HP!TypeOK
<1>8. ASSUME ~hasty
      PROVE  builds' = <<>> /\ SettledTo(Len(Elements))' /\ HP!PageComplete'
  <2>1. /\ b = 1 /\ Len(builds) = 1 /\ els = <<>>
        /\ SettledTo(Len(Elements) - 1) /\ builds[b].made = MadeTo(Len(Elements) - 1)
    BY <1>2, <1>8 DEF BuildInv, Going
  <2>2. builds' = <<>>
    BY <1>2, <2>1 DEF HP!RemoveAt
  <2>3. SettledTo(Len(Elements))
    <3>1. \A e \in 0 .. Len(Elements) : e \in 0 .. Len(Elements) - 1 \/ e = Len(Elements)
      BY ElementFacts
    <3> QED
      BY <2>1, <3>1 DEF SettledTo, HP!GoOn, HP!CanGoOn
  <2>4. HP!Made(b) = MadeTo(Len(Elements)) /\ els' = s
    BY <1>4, <2>1, MadeOne
  <2>5. SettledTo(Len(Elements))' /\ \A e \in DOMAIN Elements : HP!Element(e)' = HP!Element(e) /\ HP!Makeable(e)' = HP!Makeable(e)
    BY <1>6, <2>3, MadeStays, ElementFacts
  <2>6. \A e : HP!Element(e).el = e
    BY DEF HP!Element
  <2>7. /\ \A k \in DOMAIN s : s[k].el \in DOMAIN Elements /\ HP!Makeable(s[k].el) /\ s[k] = HP!Element(s[k].el)
        /\ \A e \in DOMAIN Elements : HP!Makeable(e) => \E k \in DOMAIN s : s[k].el = e
    <3>1. \A m : m \in HP!Made(b) <=> \E e \in DOMAIN Elements : HP!Makeable(e) /\ m = HP!Element(e)
      BY <2>4, ElementFacts DEF MadeTo
    <3>2. ASSUME NEW k \in DOMAIN s
          PROVE  s[k].el \in DOMAIN Elements /\ HP!Makeable(s[k].el) /\ s[k] = HP!Element(s[k].el)
      <4>1. PICK e \in DOMAIN Elements : HP!Makeable(e) /\ s[k] = HP!Element(e)
        BY <1>4, <3>1
      <4> QED
        BY <2>6, <4>1
    <3>3. ASSUME NEW e \in DOMAIN Elements, HP!Makeable(e) PROVE \E k \in DOMAIN s : s[k].el = e
      <4>1. PICK k \in DOMAIN s : s[k] = HP!Element(e)
        BY <1>4, <3>1, <3>3
      <4> QED
        BY <2>6, <4>1
    <3> QED
      BY <3>2, <3>3
  <2>8. HP!PageComplete'
    <3>1. ({els[k].el : k \in DOMAIN els} = {e \in DOMAIN Elements : HP!Makeable(e)})'
      BY <2>4, <2>5, <2>7
    <3>2. (\A k \in DOMAIN els : els[k] = HP!Element(els[k].el))'
      BY <2>4, <2>5, <2>7
    <3>3. (\A j, k \in DOMAIN els : j < k => HP!Before(els[j].el, els[k].el))'
      BY <1>4, <2>4 DEF HP!Before
    <3> QED
      BY <3>1, <3>2, <3>3 DEF HP!PageComplete
  <2> QED
    BY <2>2, <2>5, <2>8
<1>9. \A c \in DOMAIN builds' : IsFiniteSet(builds'[c].made)
  BY <1>3 DEF BuildInv
<1> QED
  BY <1>3, <1>5, <1>6, <1>7, <1>8, <1>9 DEF BuildInv

LEMMA ImageInv == ASSUME BuildInv, NEW i \in HP!Image, HP!ImageSettles(i) PROVE BuildInv'
<1>1. UNCHANGED <<builds, els, motion, toggles, hasty>>
  BY DEF HP!ImageSettles
<1>2. /\ images' \in [HP!Image -> {"none", "loading", "ok", "bad"}]
      /\ \A j \in HP!Image : HP!Settled(j) => images'[j] = images[j]
  BY DEF HP!ImageSettles, HP!Settled, BuildInv, HP!TypeOK
<1>3. HP!TypeOK'
  BY <1>1, <1>2 DEF BuildInv, HP!TypeOK
<1>4. ASSUME ~hasty, Len(builds) = 1, Going PROVE Going'
  <2>1. 1 \in DOMAIN builds /\ builds[1].at \in 0 .. Len(Elements)
    BY <1>4 DEF BuildInv, HP!TypeOK
  <2>2. PICK n \in Int : n = builds[1].at - 1 /\ (n = -1 \/ n \in 0 .. Len(Elements))
    <3>1. \A m \in 0 .. Len(Elements) : m - 1 \in Int /\ (m - 1 = -1 \/ m - 1 \in 0 .. Len(Elements))
      BY ElementFacts
    <3> QED
      BY <2>1, <3>1
  <2>3. SettledTo(n) /\ builds[1].made = MadeTo(n)
    BY <1>4, <2>2 DEF Going
  <2>4. SettledTo(n)' /\ MadeTo(n)' = MadeTo(n)
    <3>1. CASE n = -1
      BY <3>1 DEF SettledTo, MadeTo
    <3>2. CASE n \in 0 .. Len(Elements)
      BY <1>1, <1>2, <2>3, <3>2, MadeStays
    <3> QED
      BY <2>2, <3>1, <3>2
  <2> QED
    BY <1>1, <2>2, <2>3, <2>4 DEF Going
<1>5. ASSUME ~hasty, builds = <<>>, SettledTo(Len(Elements)), HP!PageComplete
      PROVE  SettledTo(Len(Elements))' /\ HP!PageComplete'
  <2>1. /\ SettledTo(Len(Elements))'
        /\ \A e \in DOMAIN Elements : HP!Element(e)' = HP!Element(e) /\ HP!Makeable(e)' = HP!Makeable(e)
    BY <1>1, <1>2, <1>5, MadeStays, ElementFacts
  <2>2. \A k \in DOMAIN els : els[k].el \in DOMAIN Elements
    BY DEF BuildInv, HP!TypeOK
  <2>3. HP!PageComplete'
    BY <1>1, <1>5, <2>1, <2>2 DEF HP!PageComplete, HP!Before
  <2> QED
    BY <2>1, <2>3
<1> QED
  BY <1>1, <1>3, <1>4, <1>5 DEF BuildInv

LEMMA ToggleInv == ASSUME BuildInv, HP!ToggleMotion PROVE BuildInv'
<1> DEFINE first == [at |-> 0, made |-> {}]
<1>1. /\ first \in Build /\ first.at = 0 /\ first.made = {} /\ IsFiniteSet({})
  BY ElementFacts, FS_EmptySet DEF Build
<1>2. builds' = Append(builds, first) /\ els' = <<>> /\ images' = HP!Asked(0)
  BY DEF HP!ToggleMotion, HP!SetMotion
<1>3. SettledTo(-1)' /\ MadeTo(-1)' = {}
  BY DEF SettledTo, MadeTo
<1> HIDE DEF first
<1>4. /\ builds' \in Seq(Build) /\ Len(builds') = Len(builds) + 1
      /\ \A c \in DOMAIN builds' : IsFiniteSet(builds'[c].made)
      /\ builds = <<>> => Len(builds') = 1 /\ builds'[1] = first
  <2>1. builds \in Seq(Build)
    BY DEF BuildInv
  <2>2. /\ builds' \in Seq(Build) /\ Len(builds') = Len(builds) + 1
        /\ \A c \in DOMAIN builds' : IF c = Len(builds) + 1 THEN builds'[c] = first
                                      ELSE c \in DOMAIN builds /\ builds'[c] = builds[c]
    BY <1>1, <1>2, <2>1
  <2>3. \A c \in DOMAIN builds' : IsFiniteSet(builds'[c].made)
    BY <1>1, <2>2 DEF BuildInv
  <2>4. builds = <<>> => Len(builds') = 1 /\ builds'[1] = first
    BY <1>2
  <2> QED
    BY <2>2, <2>3, <2>4
<1>5. els' \in Seq(Thing) /\ DOMAIN els' = {}
  BY <1>2
<1>6. HP!TypeOK'
  <2>1. \A c \in DOMAIN builds' : builds'[c].at \in 0 .. Len(Elements)
    <3>1. \A c \in DOMAIN builds' : builds'[c] \in Build
      BY <1>4
    <3> QED
      BY <3>1 DEF Build
  <2>2. motion' \in BOOLEAN /\ toggles' \in 0 .. MaxToggles /\ hasty' \in BOOLEAN
    BY ElementFacts DEF BuildInv, HP!TypeOK, HP!ToggleMotion, HP!SetMotion
  <2> QED
    BY <1>2, <1>5, <2>1, <2>2, AskedFacts DEF HP!TypeOK
<1>7. ~hasty' => builds = <<>>
  BY DEF HP!ToggleMotion
<1>8. ~hasty' => Len(builds') = 1 /\ els' = <<>> /\ Going'
  <2> SUFFICES ASSUME ~hasty' PROVE Len(builds') = 1 /\ Going'
    BY <1>2
  <2>1. Len(builds') = 1 /\ builds'[1].at - 1 = -1 /\ builds'[1].made = {}
    BY <1>1, <1>4, <1>7
  <2> QED
    BY <1>3, <2>1 DEF Going
<1> QED
  BY <1>4, <1>5, <1>6, <1>8 DEF BuildInv

LEMMA BuildNextInv == BuildInv /\ [HP!Next]_buildvars => BuildInv'
<1> SUFFICES ASSUME BuildInv, [HP!Next]_buildvars PROVE BuildInv'
  OBVIOUS
<1>1. ASSUME NEW b \in DOMAIN builds, HP!GoOn(b) PROVE BuildInv'
  BY <1>1, BuildStep, BuildEnds DEF HP!GoOn
<1>2. ASSUME NEW i \in HP!Image, HP!ImageSettles(i) PROVE BuildInv'
  BY <1>2, ImageInv
<1>3. CASE HP!ToggleMotion
  BY <1>3, ToggleInv
<1>4. CASE UNCHANGED buildvars
  BY <1>4 DEF buildvars, BuildInv, Going, HP!TypeOK, HP!PageComplete, HP!Element, HP!Makeable, HP!Frames, HP!Before,
              SettledTo, MadeTo, HP!Settled, HP!Awaited
<1> QED
  BY <1>1, <1>2, <1>3, <1>4 DEF HP!Next

LEMMA BuildImplies == BuildInv => HP!TypeOK /\ HP!PageComplete
<1> SUFFICES ASSUME BuildInv, ~hasty, builds = <<>> PROVE HP!PageComplete
  BY DEF BuildInv, HP!PageComplete
<1> QED
  BY DEF BuildInv

------------------------------------------------------------------------------
(* What moves on a Hypnospace page *)

MovingText ==
    [anim : {0, 1, 3}, phase : Nat, shown : 0 .. TextLength, timer : Int,
     offset : -TextWidth .. PageWidth + 1, mix : 0 .. MixMax, dir : {-1, 1}]
MovingGif ==
    [mode : HA!Modes, moving : BOOLEAN, frames : Nat \ {0}, first : Nat, fps : Nat,
     i : Nat, acc : Int, hover : BOOLEAN, held : BOOLEAN, dither : Int]

\* The marquee's phase is its width, to which it scrolls.
AnimInv ==
    /\ text \in MovingText /\ (text.anim = 3 => text.phase = TextWidth)
    /\ ~warm => text.offset <= PageWidth
    /\ gif \in MovingGif /\ gif.i < gif.frames /\ gif.acc < Quarter /\ gif.dither < 2 * MixMax
    /\ warm \in BOOLEAN

LEMMA AnimConstants ==
    /\ TextLength \in Nat /\ Pause \in Nat /\ LongPause \in Nat /\ PageWidth \in Nat /\ TextWidth \in Nat
    /\ MixMax \in Nat \ {0} /\ Quarter \in Nat \ {0} /\ Steps \subseteq 1 .. 2 * MixMax
  BY PagesAssumption DEF HA!AnimAssumption

LEMMA ClampFacts ==
    \A hi \in Nat, n \in Int :
        /\ HA!Clamp(0, hi, n) \in 0 .. hi
        /\ n \in 0 .. hi => HA!Clamp(0, hi, n) = n
  BY DEF HA!Clamp, HA!Least, HA!Greatest

\* The frame a gif begins with is one of its frames.
LEMMA StartIsFrame ==
    ASSUME NEW g, g.frames \in Nat \ {0}, g.first \in Nat
    PROVE  HA!StartFrame(g) \in 0 .. g.frames - 1
<1>1. HA!Greatest(0, g.first) \in Nat
  BY DEF HA!Greatest
<1>2. HA!Greatest(0, g.first) % g.frames \in 0 .. g.frames - 1
  BY <1>1
<1>3. HA!Clamp(0, g.frames - 1, g.first) \in 0 .. g.frames - 1
  BY ClampFacts
<1> QED
  BY <1>2, <1>3 DEF HA!StartFrame

LEMMA AnimInitInv == HA!Init => AnimInv
<1> SUFFICES ASSUME HA!Init PROVE AnimInv
  OBVIOUS
<1>1. PICK a \in {0, 1, 3} : text = HA!TextOf(a)
  BY DEF HA!Init
<1>2. text \in MovingText /\ (text.anim = 3 => text.phase = TextWidth) /\ text.offset <= PageWidth
  BY <1>1, AnimConstants DEF HA!TextOf, MovingText
<1>3. PICK m \in HA!Modes, b \in BOOLEAN, n \in {1, 3}, f \in {0, 2}, s \in {0, 3} : gif = HA!GifOf(m, b, n, f, s)
  BY DEF HA!Init
<1> DEFINE g == [mode |-> m, moving |-> b, frames |-> n, first |-> f, fps |-> s,
                 i |-> 0, acc |-> 0, hover |-> FALSE, held |-> FALSE, dither |-> 0]
<1>4. HA!StartFrame(g) \in 0 .. n - 1
  BY StartIsFrame
<1>5. gif = [g EXCEPT !.i = HA!StartFrame(g)]
  BY <1>3 DEF HA!GifOf
<1>6. g \in MovingGif /\ g.frames = n /\ g.acc = 0 /\ g.dither = 0
  BY DEF MovingGif
<1> HIDE DEF g
<1>7. gif \in MovingGif /\ gif.i < gif.frames /\ gif.acc = 0 /\ gif.dither = 0
  BY <1>4, <1>5, <1>6 DEF MovingGif
<1>8. 0 < Quarter /\ 0 < 2 * MixMax
  BY AnimConstants
<1>9. warm \in BOOLEAN
  BY DEF HA!Init
<1> QED
  BY <1>2, <1>7, <1>8, <1>9 DEF AnimInv

LEMMA MixFacts ==
    ASSUME NEW t \in MovingText, NEW k \in Int
    PROVE  /\ HA!Mix(t, k) \in MovingText
           /\ HA!Mix(t, k).anim = t.anim /\ HA!Mix(t, k).phase = t.phase
<1> DEFINE m == HA!Clamp(0, MixMax, t.mix + t.dir * k)
<1>1. t.mix + t.dir * k \in Int
  BY AnimConstants DEF MovingText
<1>2. m \in 0 .. MixMax
  BY <1>1, ClampFacts, AnimConstants
<1> HIDE DEF m
<1>3. HA!Mix(t, k) = [t EXCEPT !.mix = m, !.dir = IF m = MixMax \/ m = 0 THEN -t.dir ELSE t.dir]
  BY DEF HA!Mix, m
<1>4. (IF m = MixMax \/ m = 0 THEN -t.dir ELSE t.dir) \in {-1, 1}
  BY DEF MovingText
<1> QED
  BY <1>2, <1>3, <1>4 DEF MovingText

\* The typewriter sets its timer and phase, and mostly how much is shown.
Rested(t, timer, phase) == [t EXCEPT !.timer = timer, !.phase = phase]
Written(t, timer, phase, shown) == [t EXCEPT !.timer = timer, !.phase = phase, !.shown = shown]

LEMMA TextChange ==
    \A t \in MovingText, timer \in Int, phase \in Nat :
        /\ Rested(t, timer, phase) \in MovingText /\ Rested(t, timer, phase).anim = t.anim
        /\ \A shown \in 0 .. TextLength :
              Written(t, timer, phase, shown) \in MovingText /\ Written(t, timer, phase, shown).anim = t.anim
  BY DEF MovingText, Rested, Written

LEMMA TypeFacts ==
    ASSUME NEW t \in MovingText, NEW k \in Int
    PROVE  HA!Type(t, k) \in MovingText /\ HA!Type(t, k).anim = t.anim
<1>1. /\ t.phase \in Nat /\ t.shown \in 0 .. TextLength /\ t.timer \in Int
      /\ HA!Greatest(0, 2 * TextLength - t.phase) \in Nat
      /\ t.phase > TextLength => HA!Greatest(0, 2 * TextLength - t.phase) \in 0 .. TextLength
  BY AnimConstants DEF MovingText, HA!Greatest
<1>2. HA!TypeNext(t) \in MovingText /\ HA!TypeNext(t).anim = t.anim
  <2>1. CASE t.phase < TextLength
    <3>1. HA!TypeNext(t) = Written(t, Pause, t.phase + 1, t.phase + 1)
      BY <1>1, <2>1, AnimConstants DEF HA!TypeNext, Written, Rested
    <3>2. t.phase + 1 \in 0 .. TextLength
      BY <1>1, <2>1, AnimConstants
    <3>3. Pause \in Int /\ t.phase + 1 \in Nat
      BY <1>1, AnimConstants
    <3> QED
      <4> DEFINE n == t.phase + 1
      <4>1. Written(t, Pause, n, n) \in MovingText /\ Written(t, Pause, n, n).anim = t.anim
        BY <3>2, <3>3, TextChange
      <4> QED
        BY <3>1, <4>1
  <2>2. CASE t.phase = TextLength
    <3>1. HA!TypeNext(t) = Rested(t, LongPause, t.phase + 1)
      BY <1>1, <2>2, AnimConstants DEF HA!TypeNext, Written, Rested
    <3>2. LongPause \in Int /\ t.phase + 1 \in Nat
      BY <1>1, AnimConstants
    <3> QED
      <4>1. Rested(t, LongPause, t.phase + 1) \in MovingText /\ Rested(t, LongPause, t.phase + 1).anim = t.anim
        BY <3>2, TextChange
      <4> QED
        BY <3>1, <4>1
  <2>3. CASE t.phase > TextLength
    <3>1. ~(t.phase < TextLength) /\ t.phase # TextLength
      BY <1>1, <2>3, AnimConstants
    <3>2. \/ HA!TypeNext(t) = Written(t, LongPause, 0, 0)
          \/ HA!TypeNext(t) = Written(t, Pause, t.phase + 1, HA!Greatest(0, 2 * TextLength - t.phase))
      BY <2>3, <3>1 DEF HA!TypeNext, Written
    <3>3. Pause \in Int /\ LongPause \in Int /\ t.phase + 1 \in Nat /\ 0 \in Nat /\ 0 \in 0 .. TextLength
      BY <1>1, AnimConstants
    <3>4. HA!Greatest(0, 2 * TextLength - t.phase) \in 0 .. TextLength
      BY <1>1, <2>3
    <3>5. CASE HA!TypeNext(t) = Written(t, LongPause, 0, 0)
      <4>1. Written(t, LongPause, 0, 0) \in MovingText /\ Written(t, LongPause, 0, 0).anim = t.anim
        BY <3>3, TextChange
      <4> QED
        BY <3>5, <4>1
    <3>6. CASE HA!TypeNext(t) = Written(t, Pause, t.phase + 1, HA!Greatest(0, 2 * TextLength - t.phase))
      <4> DEFINE n == HA!Greatest(0, 2 * TextLength - t.phase)
      <4>1. Written(t, Pause, t.phase + 1, n) \in MovingText /\ Written(t, Pause, t.phase + 1, n).anim = t.anim
        BY <3>3, <3>4, TextChange
      <4> QED
        BY <3>6, <4>1
    <3> QED
      BY <3>2, <3>5, <3>6
  <2> QED
    BY <1>1, <2>1, <2>2, <2>3, AnimConstants
<1>3. [t EXCEPT !.timer = @ - k] \in MovingText /\ [t EXCEPT !.timer = @ - k].anim = t.anim
  BY <1>1 DEF MovingText
<1> QED
  BY <1>2, <1>3 DEF HA!Type

LEMMA ScrollFacts ==
    ASSUME NEW t \in MovingText, t.phase = TextWidth, NEW k \in {-1} \cup Nat,
           k = -1 => t.offset <= PageWidth
    PROVE  HA!Scroll(t, k) \in MovingText /\ HA!Scroll(t, k).anim = t.anim /\ HA!Scroll(t, k).phase = t.phase
  BY AnimConstants DEF MovingText, HA!Scroll

LEMMA AdvanceFacts ==
    ASSUME NEW g \in MovingGif, g.i < g.frames, g.acc < Quarter, NEW k \in Int, NEW fps \in Int
    PROVE  /\ HA!Advance(g, k, fps) \in MovingGif /\ HA!Advance(g, k, fps).i < g.frames
           /\ HA!Advance(g, k, fps).acc < Quarter
           /\ HA!Advance(g, k, fps).frames = g.frames /\ HA!Advance(g, k, fps).dither = g.dither
<1> DEFINE acc == g.acc + k * fps
           j == HA!Clamp(0, g.frames - 1, (g.i + acc \div Quarter) % g.frames)
<1>1. acc \in Int /\ Quarter \in Nat \ {0} /\ g.frames \in Nat \ {0} /\ g.i \in Nat
  BY AnimConstants DEF MovingGif
<1>2. acc % Quarter \in 0 .. Quarter - 1 /\ acc \div Quarter \in Int
  BY <1>1
<1>3. (g.i + acc \div Quarter) % g.frames \in Int
  BY <1>1, <1>2
<1>4. j \in 0 .. g.frames - 1
  <2>1. g.frames - 1 \in Nat
    BY <1>1
  <2> QED
    BY <1>3, <2>1, ClampFacts
<1>5. HA!Advance(g, k, fps) = IF acc < Quarter THEN [g EXCEPT !.acc = acc]
                             ELSE [[g EXCEPT !.acc = acc % Quarter] EXCEPT !.i = j]
  <2>1. [g EXCEPT !.acc = acc % Quarter].frames = g.frames
    BY DEF MovingGif
  <2> QED
    BY <2>1 DEF HA!Advance, HA!SetFrame
<1> HIDE DEF acc, j
<1>6. CASE acc < Quarter
  BY <1>1, <1>5, <1>6 DEF MovingGif
<1>7. CASE ~(acc < Quarter)
  <2>1. j \in Nat /\ j < g.frames /\ acc % Quarter \in Int /\ acc % Quarter < Quarter
    BY <1>1, <1>2, <1>4
  <2>2. HA!Advance(g, k, fps) = [[g EXCEPT !.acc = acc % Quarter] EXCEPT !.i = j]
    BY <1>5, <1>7
  <2> QED
    BY <2>1, <2>2 DEF MovingGif
<1> QED
  BY <1>6, <1>7

\* Setting a frame chooses one that the gif has.
LEMMA SetFrameFacts ==
    ASSUME NEW g \in MovingGif, NEW n \in Int
    PROVE  /\ HA!SetFrame(g, n) \in MovingGif /\ HA!SetFrame(g, n).i < g.frames
           /\ HA!SetFrame(g, n).acc = g.acc /\ HA!SetFrame(g, n).frames = g.frames
           /\ HA!SetFrame(g, n).dither = g.dither
           /\ n \in 0 .. g.frames - 1 => HA!SetFrame(g, n).i = n
<1>1. g.frames \in Nat \ {0}
  BY DEF MovingGif
<1>2. /\ HA!Clamp(0, g.frames - 1, n) \in 0 .. g.frames - 1
      /\ n \in 0 .. g.frames - 1 => HA!Clamp(0, g.frames - 1, n) = n
  BY <1>1, ClampFacts
<1> QED
  BY <1>1, <1>2 DEF HA!SetFrame, MovingGif

LEMMA FrameFacts ==
    ASSUME NEW g \in MovingGif, g.i < g.frames, g.acc < Quarter, NEW k \in Int
    PROVE  /\ HA!Frame(g, k) \in MovingGif /\ HA!Frame(g, k).i < HA!Frame(g, k).frames
           /\ HA!Frame(g, k).acc < Quarter /\ HA!Frame(g, k).dither = g.dither
<1>1. g.mode \in HA!Modes /\ g.frames \in Nat \ {0} /\ g.first \in Nat /\ g.fps \in Nat
  BY DEF MovingGif
<1>2. HA!StartFrame(g) \in Int /\ HA!StartFrame(g) + HA!Pressed(g) \in Int
  BY <1>1, StartIsFrame DEF HA!Pressed
<1>3. \/ HA!Frame(g, k) = g
      \/ \E n \in Int : HA!Frame(g, k) = HA!SetFrame(g, n)
      \/ \E fps \in Int : HA!Frame(g, k) = HA!Advance(g, k, fps)
  BY <1>1, <1>2, SMTT(20) DEF HA!Frame, HA!Modes
<1>4. CASE HA!Frame(g, k) = g
  BY <1>4
<1>5. ASSUME NEW n \in Int, HA!Frame(g, k) = HA!SetFrame(g, n)
      PROVE  /\ HA!Frame(g, k) \in MovingGif /\ HA!Frame(g, k).i < HA!Frame(g, k).frames
             /\ HA!Frame(g, k).acc < Quarter /\ HA!Frame(g, k).dither = g.dither
  BY <1>5, SetFrameFacts
<1>6. ASSUME NEW fps \in Int, HA!Frame(g, k) = HA!Advance(g, k, fps)
      PROVE  /\ HA!Frame(g, k) \in MovingGif /\ HA!Frame(g, k).i < HA!Frame(g, k).frames
             /\ HA!Frame(g, k).acc < Quarter /\ HA!Frame(g, k).dither = g.dither
  BY <1>6, AdvanceFacts
<1> QED
  BY <1>3, <1>4, <1>5, <1>6

\* A tick of a first frame may be of nothing, or of less than nothing.
Span == Steps \cup (IF warm THEN {} ELSE {-1, 0})

LEMMA DitherFacts ==
    ASSUME NEW g \in MovingGif, g.dither < 2 * MixMax, NEW k \in Int, k <= 2 * MixMax
    PROVE  /\ HA!Dither(g, k) \in MovingGif /\ HA!Dither(g, k).dither < 2 * MixMax
           /\ HA!Dither(g, k) = [g EXCEPT !.dither = HA!Dither(g, k).dither]
<1>1. g.dither \in Int /\ MixMax \in Nat \ {0}
  BY AnimConstants DEF MovingGif
<1> DEFINE d == IF ~g.moving THEN g.dither
                ELSE IF g.dither + k >= 2 * MixMax THEN g.dither + k - 2 * MixMax ELSE g.dither + k
<1>2. d \in Int /\ d < 2 * MixMax
  BY <1>1
<1>3. HA!Dither(g, k) = [g EXCEPT !.dither = d]
  BY DEF HA!Dither, MovingGif
<1> HIDE DEF d
<1> QED
  BY <1>2, <1>3 DEF MovingGif

LEMMA TickTextFacts ==
    ASSUME AnimInv, NEW k \in Span
    PROVE  /\ HA!TickText(text, k) \in MovingText
           /\ HA!TickText(text, k).anim = 3 => HA!TickText(text, k).phase = TextWidth
<1>1. k \in Int /\ k \in {-1} \cup Nat /\ (k = -1 => text.offset <= PageWidth)
  BY AnimConstants DEF AnimInv, Span
<1> DEFINE u == CASE text.anim = 1 -> HA!Type(text, k) [] text.anim = 3 -> HA!Scroll(text, k) [] OTHER -> text
<1>2. text \in MovingText /\ (text.anim = 3 => text.phase = TextWidth)
  BY DEF AnimInv
<1>3. u \in MovingText /\ (u.anim = 3 => u.phase = TextWidth)
  <2>1. CASE text.anim = 1
    BY <1>1, <1>2, <2>1, TypeFacts
  <2>2. CASE text.anim = 3
    BY <1>1, <1>2, <2>2, ScrollFacts
  <2>3. CASE text.anim # 1 /\ text.anim # 3
    BY <1>2, <2>3
  <2> QED
    BY <2>1, <2>2, <2>3
<1>4. HA!TickText(text, k) = IF HA!Repaint(text, k) THEN u ELSE HA!Mix(u, k)
  BY DEF HA!TickText
<1> HIDE DEF u
<1> QED
  BY <1>1, <1>3, <1>4, MixFacts

LEMMA AnimNextInv == AnimInv /\ [HA!Next]_animvars => AnimInv'
<1> SUFFICES ASSUME AnimInv, [HA!Next]_animvars PROVE AnimInv'
  OBVIOUS
<1>1. CASE UNCHANGED animvars
  BY <1>1 DEF animvars, AnimInv
<1>2. ASSUME NEW k \in Span, text' = HA!TickText(text, k), gif' = HA!Frame(HA!Dither(gif, k), k), warm' = TRUE
      PROVE  AnimInv'
  <2>1. k \in Int /\ k <= 2 * MixMax
    BY AnimConstants DEF Span
  <2> DEFINE g == HA!Dither(gif, k)
  <2>2. g \in MovingGif /\ g.dither < 2 * MixMax /\ g.i < g.frames /\ g.acc < Quarter
    BY <2>1, DitherFacts DEF AnimInv, MovingGif
  <2>3. gif' \in MovingGif /\ gif'.i < gif'.frames /\ gif'.acc < Quarter /\ gif'.dither < 2 * MixMax
    BY <1>2, <2>1, <2>2, FrameFacts
  <2> QED
    BY <1>2, <2>3, TickTextFacts DEF AnimInv
<1>3. CASE HA!Point
  BY <1>3 DEF HA!Point, AnimInv, MovingGif
<1> QED
  BY <1>1, <1>2, <1>3 DEF HA!Next, HA!Tick, Span

LEMMA AnimTypes == AnimInv => HA!TypeOK
<1> SUFFICES ASSUME AnimInv PROVE HA!TypeOK
  OBVIOUS
<1>1. gif.dither \in Int
  BY DEF AnimInv, MovingGif
<1>2. HA!Opacity(gif) \in 0 .. MixMax
  BY <1>1, AnimConstants, ClampFacts DEF HA!Opacity
<1> QED
  BY <1>2, AnimConstants DEF AnimInv, MovingText, MovingGif, HA!TypeOK

\* After a tick a still gif that is not pointed at shows its first frame.
LEMMA StillTick == AnimInv /\ HA!Tick /\ ~gif.moving /\ ~gif.hover /\ ~gif.held => gif'.i = HA!StartFrame(gif)
<1> SUFFICES ASSUME AnimInv, HA!Tick, ~gif.moving, ~gif.hover, ~gif.held PROVE gif'.i = HA!StartFrame(gif)
  OBVIOUS
<1>1. PICK k : gif' = HA!Frame(HA!Dither(gif, k), k)
  BY DEF HA!Tick
<1>2. HA!Dither(gif, k) = gif
  BY DEF HA!Dither
<1>3. gif \in MovingGif /\ gif.mode \in HA!Modes /\ HA!StartFrame(gif) \in 0 .. gif.frames - 1
  BY StartIsFrame DEF AnimInv, MovingGif
<1>4. HA!Pressed(gif) = 0
  BY DEF HA!Pressed
<1>5. HA!Frame(gif, k) = HA!SetFrame(gif, HA!StartFrame(gif))
  BY <1>3, <1>4 DEF HA!Frame, HA!Modes
<1> QED
  BY <1>1, <1>2, <1>3, <1>5, SetFrameFacts

------------------------------------------------------------------------------
(* The controls of a Hypnospace page *)

StoredChoice == [scale : 0 .. MaxScale, bar : HC!Flag, read : HC!Flag, motion : HC!Flag]

\* What is stored is all there, and nothing else is.
ControlsInv == HC!TypeOK /\ HC!PauseIsKept /\ HC!ChoicesKept /\ stored \in StoredChoice

LEMMA ControlsInitInv == HC!Init => ControlsInv
<1> SUFFICES ASSUME HC!Init PROVE ControlsInv
  OBVIOUS
<1>1. stored \in StoredChoice
  BY PagesAssumption DEF HC!ControlsAssumption, HC!Init, StoredChoice, HC!Flag, HC!Absent
<1>2. HC!TypeOK
  <2>1. music \in [plays : BOOLEAN, once : BOOLEAN, gestures : BOOLEAN]
    BY DEF HC!Init
  <2>2. ui \in [scale : HC!Scale, open : BOOLEAN, reading : BOOLEAN, motion : BOOLEAN]
    BY DEF HC!Init
  <2>3. stored.scale \in 0 .. MaxScale /\ \A key \in {"bar", "read", "motion"} : stored[key] \in HC!Flag
    BY <1>1 DEF StoredChoice
  <2>4. /\ works \in BOOLEAN /\ autoplay \in HC!Flag /\ keyed \in BOOLEAN
        /\ window \in [fits : HC!Scale, reduced : BOOLEAN]
    BY DEF HC!Init, HC!Flag
  <2> QED
    BY <2>1, <2>2, <2>3, <2>4 DEF HC!TypeOK
<1>3. HC!PauseIsKept
  BY DEF HC!Init, HC!PauseIsKept, HC!Absent
<1>4. HC!ChoicesKept
  BY DEF HC!Init, HC!ChoicesKept, HC!Absent
<1> QED
  BY <1>1, <1>2, <1>3, <1>4 DEF ControlsInv

\* What a control writes: one choice, or nothing.
LEMMA WrittenChoice ==
    ASSUME stored \in StoredChoice
    PROVE  /\ \A b \in BOOLEAN : HC!Text(b) \in HC!Flag /\ HC!Text(b) # HC!Absent /\ (HC!Text(b) = "1" <=> b)
           /\ \A n \in 0 .. MaxScale : HC!Written("scale", n) \in StoredChoice
           /\ \A v \in HC!Flag : /\ HC!Written("bar", v) \in StoredChoice
                                 /\ HC!Written("read", v) \in StoredChoice
                                 /\ HC!Written("motion", v) \in StoredChoice
  BY DEF StoredChoice, HC!Written, HC!Text, HC!Flag, HC!Absent

LEMMA ClampedScale == \A n \in Int : HC!Clamped(n) \in HC!Scale
  BY PagesAssumption DEF HC!ControlsAssumption, HC!Clamped, HC!Scale

\* A gesture starts music only that is wanted.
LEMMA OnceFacts ==
    ASSUME ControlsInv
    PROVE  /\ HC!Once \in [plays : BOOLEAN, once : BOOLEAN, gestures : BOOLEAN]
           /\ HC!Once.gestures /\ (works /\ autoplay = "0" => ~HC!Once.plays)
  BY DEF ControlsInv, HC!TypeOK, HC!PauseIsKept, HC!Once, HC!Wanted

\* The music goes on as it was, or as after a gesture.
LEMMA MusicKept ==
    ASSUME ControlsInv, music' \in {music, HC!Once}, UNCHANGED <<works, autoplay>>
    PROVE  music' \in [plays : BOOLEAN, once : BOOLEAN, gestures : BOOLEAN] /\ HC!PauseIsKept'
  BY OnceFacts DEF ControlsInv, HC!TypeOK, HC!PauseIsKept

LEMMA ControlsNextInv == ControlsInv /\ [HC!Next]_controlvars => ControlsInv'
<1> SUFFICES ASSUME ControlsInv, [HC!Next]_controlvars PROVE ControlsInv'
  OBVIOUS
<1> DEFINE Ui == [scale : HC!Scale, open : BOOLEAN, reading : BOOLEAN, motion : BOOLEAN]
           Music == [plays : BOOLEAN, once : BOOLEAN, gestures : BOOLEAN]
<1>0. /\ works \in BOOLEAN /\ autoplay \in HC!Flag /\ keyed \in BOOLEAN /\ stored \in StoredChoice
      /\ window \in [fits : HC!Scale, reduced : BOOLEAN] /\ ui \in Ui /\ music \in Music
      /\ HC!PauseIsKept /\ HC!ChoicesKept
  BY DEF ControlsInv, HC!TypeOK
<1>q. ASSUME works' \in BOOLEAN, autoplay' \in HC!Flag, keyed' \in BOOLEAN, stored' \in StoredChoice,
             window' \in [fits : HC!Scale, reduced : BOOLEAN], ui' \in Ui, music' \in Music,
             HC!PauseIsKept', HC!ChoicesKept'
      PROVE  ControlsInv'
  BY <1>q DEF ControlsInv, HC!TypeOK, StoredChoice
<1>1. ASSUME NEW hash \in BOOLEAN, NEW trusted \in BOOLEAN, HC!Boot(hash, trusted),
             UNCHANGED <<works, stored, autoplay, window>>
      PROVE  ControlsInv'
  <2>1. music' \in Music /\ keyed' \in BOOLEAN
    BY <1>1 DEF HC!Boot, HC!Wanted
  <2>2. ui' \in Ui
    <3>1. HC!Clamped(IF HC!StoredScale # 0 THEN HC!StoredScale ELSE window.fits) \in HC!Scale
      BY <1>0, ClampedScale DEF StoredChoice, HC!StoredScale, HC!Scale
    <3> QED
      BY <1>0, <1>1, <3>1 DEF HC!Boot, HC!MotionDefault
  <2>3. HC!PauseIsKept'
    BY <1>1 DEF HC!Boot, HC!Wanted, HC!PauseIsKept
  <2>4. HC!ChoicesKept'
    <3> SUFFICES ASSUME works
                 PROVE  /\ ui'.scale = IF stored.scale = 0 THEN window.fits ELSE stored.scale
                        /\ ui'.open = (stored.bar = "1")
                        /\ ui'.motion = IF stored.motion = HC!Absent THEN ~window.reduced ELSE stored.motion = "1"
                        /\ ~keyed' => ui'.reading = (stored.read = "1")
      BY <1>1 DEF HC!ChoicesKept
    <3>1. /\ HC!Read("bar") = stored.bar /\ HC!Read("read") = stored.read /\ HC!Read("motion") = stored.motion
          /\ HC!StoredScale = stored.scale
      BY DEF HC!Read, HC!StoredScale
    <3>2. \A n \in HC!Scale : HC!Clamped(n) = n
      BY PagesAssumption DEF HC!ControlsAssumption, HC!Clamped, HC!Scale
    <3>3. stored.scale # 0 => stored.scale \in HC!Scale
      BY <1>0 DEF StoredChoice, HC!Scale
    <3>4. ui'.scale = IF stored.scale = 0 THEN window.fits ELSE stored.scale
      BY <1>0, <1>1, <3>1, <3>2, <3>3 DEF HC!Boot
    <3>5. ui'.open = (stored.bar = "1") /\ (~keyed' => ui'.reading = (stored.read = "1"))
      BY <1>1, <3>1 DEF HC!Boot
    <3>6. ui'.motion = IF stored.motion = HC!Absent THEN ~window.reduced ELSE stored.motion = "1"
      BY <1>1, <3>1 DEF HC!Boot, HC!MotionDefault
    <3> QED
      BY <3>4, <3>5, <3>6
  <2> QED
    BY <1>0, <1>1, <1>q, <2>1, <2>2, <2>3, <2>4
<1>2. CASE HC!Gesture
  <2>1. HC!PauseIsKept' /\ music' \in Music
    BY <1>2, MusicKept DEF HC!Gesture
  <2> QED
    BY <1>0, <1>2, <1>q, <2>1 DEF HC!Gesture, HC!ChoicesKept
<1>3. CASE HC!ToggleMusic
  <2>1. music' \in Music /\ autoplay' \in HC!Flag /\ HC!PauseIsKept'
    BY <1>0, <1>3, OnceFacts, WrittenChoice DEF HC!ToggleMusic, HC!PauseIsKept
  <2> QED
    BY <1>0, <1>3, <1>q, <2>1 DEF HC!ToggleMusic, HC!ChoicesKept
<1>4. ASSUME NEW d \in {-1, 1}, HC!Bump(d) PROVE ControlsInv'
  <2>1. HC!PauseIsKept' /\ music' \in Music
    BY <1>4, MusicKept DEF HC!Bump
  <2> DEFINE n == HC!Clamped(ui.scale + d)
  <2>2. n \in HC!Scale
    BY <1>0, ClampedScale DEF HC!Scale
  <2>3. ui' = [ui EXCEPT !.scale = n] /\ stored' = HC!Written("scale", n)
    BY <1>4 DEF HC!Bump, HC!Apply
  <2> HIDE DEF n
  <2>4. ui' \in Ui /\ stored' \in StoredChoice
    BY <1>0, <2>2, <2>3, WrittenChoice DEF HC!Scale
  <2>5. HC!ChoicesKept'
    BY <1>0, <1>4, <2>2, <2>3 DEF HC!Bump, HC!ChoicesKept, HC!Written, HC!Scale, StoredChoice
  <2> QED
    BY <1>0, <1>4, <1>q, <2>1, <2>4, <2>5 DEF HC!Bump
<1>5. CASE HC!ResetZoom
  <2>1. HC!PauseIsKept' /\ music' \in Music
    BY <1>5, MusicKept DEF HC!ResetZoom
  <2>2. ui' \in Ui /\ stored' \in StoredChoice
    BY <1>0, <1>5, WrittenChoice, PagesAssumption DEF HC!ControlsAssumption, HC!ResetZoom
  <2>3. HC!ChoicesKept'
    BY <1>0, <1>5 DEF HC!ResetZoom, HC!ChoicesKept, HC!Written, StoredChoice
  <2> QED
    BY <1>0, <1>5, <1>q, <2>1, <2>2, <2>3 DEF HC!ResetZoom
<1>6. CASE HC!Resize
  <2>1. PICK n \in HC!Scale : window' = [window EXCEPT !.fits = n] /\ HC!Fit(n)
    BY <1>6 DEF HC!Resize
  <2>2. HC!PauseIsKept' /\ music' \in Music
    BY <1>0, <1>6 DEF HC!Resize, HC!PauseIsKept
  <2>3. ui' \in Ui /\ HC!ChoicesKept'
    BY <1>0, <1>6, <2>1 DEF HC!Resize, HC!Fit, HC!StoredScale, HC!ChoicesKept, StoredChoice
  <2> QED
    BY <1>0, <1>6, <1>q, <2>1, <2>2, <2>3 DEF HC!Resize
<1>7. CASE HC!ToggleBar
  <2>1. HC!PauseIsKept' /\ music' \in Music
    BY <1>7, MusicKept DEF HC!ToggleBar
  <2>2. ui' \in Ui /\ stored' \in StoredChoice
    BY <1>0, <1>7, WrittenChoice DEF HC!ToggleBar
  <2>3. HC!ChoicesKept'
    BY <1>0, <1>7, WrittenChoice DEF HC!ToggleBar, HC!ChoicesKept, HC!Written, StoredChoice
  <2> QED
    BY <1>0, <1>7, <1>q, <2>1, <2>2, <2>3 DEF HC!ToggleBar
<1>8. CASE HC!ToggleMotion
  <2>1. HC!PauseIsKept' /\ music' \in Music
    BY <1>8, MusicKept DEF HC!ToggleMotion
  <2>2. ui' \in Ui /\ stored' \in StoredChoice
    BY <1>0, <1>8, WrittenChoice DEF HC!ToggleMotion
  <2>3. HC!ChoicesKept'
    BY <1>0, <1>8, WrittenChoice DEF HC!ToggleMotion, HC!ChoicesKept, HC!Written, StoredChoice
  <2> QED
    BY <1>0, <1>8, <1>q, <2>1, <2>2, <2>3 DEF HC!ToggleMotion
<1>9. ASSUME NEW byKey \in BOOLEAN, HC!ToggleReader(byKey) PROVE ControlsInv'
  <2>1. HC!PauseIsKept' /\ music' \in Music
    BY <1>9, MusicKept DEF HC!ToggleReader
  <2>2. ui' \in Ui /\ stored' \in StoredChoice
    BY <1>0, <1>9, WrittenChoice DEF HC!ToggleReader
  <2>3. HC!ChoicesKept'
    BY <1>0, <1>9, WrittenChoice DEF HC!ToggleReader, HC!ChoicesKept, HC!Written, StoredChoice
  <2> QED
    BY <1>0, <1>9, <1>q, <2>1, <2>2, <2>3 DEF HC!ToggleReader
<1>10. CASE UNCHANGED controlvars
  BY <1>0, <1>10, <1>q DEF controlvars, HC!PauseIsKept, HC!ChoicesKept
<1> QED
  BY <1>1, <1>2, <1>3, <1>4, <1>5, <1>6, <1>7, <1>8, <1>9, <1>10 DEF HC!Next, HC!Load

------------------------------------------------------------------------------
(* The letters *)

\* Four things to choose from, all different, and the one that is chosen first.
Choice(s, first) ==
    /\ DOMAIN s = 1 .. 4 /\ \A i, j \in 1 .. 4 : s[i] = s[j] => i = j
    /\ first \in LT!Members(s)

\* What all ten letters have in common.
WellMade(l) ==
    /\ Choice(l.items, l.first) /\ Choice(l.cards, l.second)
    /\ l.links \subseteq LT!Members(l.ids) \cup {"top"}
    /\ l.react \in BOOLEAN /\ l.lines \in Nat

LEMMA ChoiceOfFour ==
    ASSUME NEW a, NEW b, NEW c, NEW d, a # b, a # c, a # d, b # c, b # d, c # d,
           NEW x \in {a, b, c, d}
    PROVE  Choice(<<a, b, c, d>>, x)
<1> DEFINE s == <<a, b, c, d>>
<1>1. DOMAIN s = 1 .. 4 /\ s[1] = a /\ s[2] = b /\ s[3] = c /\ s[4] = d
  OBVIOUS
<1> HIDE DEF s
<1>2. \A i \in 1 .. 4 : i = 1 \/ i = 2 \/ i = 3 \/ i = 4
  OBVIOUS
<1>3. \A i, j \in 1 .. 4 : s[i] = s[j] => i = j
  BY <1>1, <1>2
<1>4. \E i \in DOMAIN s : x = s[i]
  BY <1>1
<1> QED
  BY <1>1, <1>3, <1>4 DEF Choice, LT!Members, s

LEMMA ReactPage ==
    ASSUME NEW items, NEW first, NEW cards, NEW second, NEW ids,
           Choice(items, first), Choice(cards, second),
           ids \in {LT!Sections, <<"hero", "fit", "proof", "close">>}
    PROVE  WellMade(LT!Page(items, first, cards, second, ids))
<1> DEFINE l == LT!Page(items, first, cards, second, ids)
<1>1. /\ l.items = items /\ l.first = first /\ l.cards = cards /\ l.second = second
      /\ l.ids = ids /\ l.react \in BOOLEAN /\ l.lines \in Nat
      /\ l.links = {"top", "fit", "proof", "close"} \cup (IF Len(ids) = 5 THEN {"gains"} ELSE {})
  BY DEF LT!Page
<1> HIDE DEF l
<1>2. ASSUME ids = LT!Sections PROVE WellMade(l)
  <2>1. ids = <<"hero", "fit", "proof", "gains", "close">>
    BY <1>2 DEF LT!Sections
  <2>2. DOMAIN ids = 1 .. 5 /\ ids[2] = "fit" /\ ids[3] = "proof" /\ ids[4] = "gains" /\ ids[5] = "close"
    BY <2>1
  <2>3. {"fit", "proof", "gains", "close"} \subseteq LT!Members(ids)
    BY <2>2 DEF LT!Members
  <2>4. l.links \subseteq LT!Members(l.ids) \cup {"top"}
    BY <1>1, <2>3
  <2> QED
    BY <1>1, <2>4 DEF WellMade
<1>3. ASSUME ids = <<"hero", "fit", "proof", "close">> PROVE WellMade(l)
  <2>1. Len(ids) = 4 /\ DOMAIN ids = 1 .. 4 /\ ids[2] = "fit" /\ ids[3] = "proof" /\ ids[4] = "close"
    BY <1>3
  <2>2. {"fit", "proof", "close"} \subseteq LT!Members(ids)
    BY <2>1 DEF LT!Members
  <2>3. l.links \subseteq LT!Members(l.ids) \cup {"top"}
    BY <1>1, <2>1, <2>2
  <2> QED
    BY <1>1, <2>3 DEF WellMade
<1> QED
  BY <1>2, <1>3 DEF l

LEMMA LettersWellMade == \A l \in LT!Pages : WellMade(l)
<1>0. LT!Sections \in {LT!Sections, <<"hero", "fit", "proof", "close">>}
  OBVIOUS
<1>1. WellMade(LT!SoundPhysicians)
  <2>1. Choice(<<"analytics", "sql", "communication", "values">>, "analytics")
    BY ChoiceOfFour
  <2>2. Choice(<<"homelab", "ath", "oss", "ballot">>, "homelab")
    BY ChoiceOfFour
  <2> QED
    BY <1>0, <2>1, <2>2, ReactPage DEF LT!SoundPhysicians
<1>2. WellMade(LT!SoundPhys2)
  <2>1. Choice(<<"automation", "testing", "ai", "agile">>, "automation")
    BY ChoiceOfFour
  <2>2. Choice(<<"homelab", "ath", "oss", "ballot">>, "homelab")
    BY ChoiceOfFour
  <2> QED
    BY <1>0, <2>1, <2>2, ReactPage DEF LT!SoundPhys2
<1>3. WellMade(LT!OneDigital)
  <2>1. Choice(<<"unconventional", "people", "execution", "values">>, "unconventional")
    BY ChoiceOfFour
  <2>2. Choice(<<"ballot", "oss", "ath", "service">>, "ballot")
    BY ChoiceOfFour
  <2> QED
    BY <1>0, <2>1, <2>2, ReactPage DEF LT!OneDigital
<1>4. WellMade(LT!Nvph)
  <2>1. Choice(<<"operations", "tools", "reporting", "mission">>, "operations")
    BY ChoiceOfFour
  <2>2. Choice(<<"ballot", "excel", "homelab", "oss">>, "ballot")
    BY ChoiceOfFour
  <2> QED
    BY <1>0, <2>1, <2>2, ReactPage DEF LT!Nvph
<1>5. WellMade(LT!Cram)
  <2>1. Choice(<<"startup", "fullstack", "ai", "student">>, "startup")
    BY ChoiceOfFour
  <2>2. Choice(<<"ath", "homelab", "oss", "xcaca">>, "oss")
    BY ChoiceOfFour
  <2> QED
    BY <1>0, <2>1, <2>2, ReactPage DEF LT!Cram
<1>6. WellMade(LT!BuilderSupplyLink)
  <2>1. Choice(<<"ai", "python", "frontend", "team">>, "ai")
    BY ChoiceOfFour
  <2>2. Choice(<<"homelab", "ath", "oss", "xcaca">>, "homelab")
    BY ChoiceOfFour
  <2> QED
    BY <1>0, <2>1, <2>2, ReactPage DEF LT!BuilderSupplyLink
<1>7. WellMade(LT!JewelerStudio)
  <2>1. Choice(<<"product", "ai", "fullstack", "team">>, "product")
    BY ChoiceOfFour
  <2>2. Choice(<<"ath", "homelab", "xcaca", "oss">>, "homelab")
    BY ChoiceOfFour
  <2> QED
    BY <2>1, <2>2, ReactPage DEF LT!JewelerStudio
<1>8. WellMade(LT!Porfyro)
  <2>1. Choice(<<"frontend", "backend", "remote", "growth">>, "frontend")
    BY ChoiceOfFour
  <2>2. Choice(<<"ath", "homelab", "oss", "xcaca">>, "oss")
    BY ChoiceOfFour
  <2> QED
    BY <2>1, <2>2, ReactPage DEF LT!Porfyro
<1>c. Choice(<<"ath", "xcaca", "terminal", "oss">>, "ath")
  BY ChoiceOfFour
<1>9. WellMade(LT!Givelify)
  <2>1. Choice(<<"builder", "systems", "collaborator", "learner">>, "builder")
    BY ChoiceOfFour
  <2> DEFINE ids == <<"hero", "why-givelify", "fit-engine", "proof", "launch-plan">>
  <2>2. /\ DOMAIN ids = 1 .. 5
        /\ ids[2] = "why-givelify" /\ ids[3] = "fit-engine" /\ ids[4] = "proof" /\ ids[5] = "launch-plan"
    OBVIOUS
  <2> HIDE DEF ids
  <2>3. {"why-givelify", "fit-engine", "proof", "launch-plan"} \subseteq LT!Members(ids)
    BY <2>2 DEF LT!Members
  <2> QED
    BY <1>c, <2>1, <2>3 DEF LT!Givelify, WellMade, ids
<1>10. WellMade(LT!Starz)
  <2>1. Choice(<<"design", "build", "test", "ship">>, "design")
    BY ChoiceOfFour
  <2> DEFINE ids == <<"hero", "why-starz", "production", "evidence", "program">>
  <2>2. /\ DOMAIN ids = 1 .. 5
        /\ ids[2] = "why-starz" /\ ids[3] = "production" /\ ids[4] = "evidence" /\ ids[5] = "program"
    OBVIOUS
  <2> HIDE DEF ids
  <2>3. {"why-starz", "production", "evidence", "program"} \subseteq LT!Members(ids)
    BY <2>2 DEF LT!Members
  <2> QED
    BY <1>c, <2>1, <2>3 DEF LT!Starz, WellMade, ids
<1> QED
  BY <1>1, <1>2, <1>3, <1>4, <1>5, <1>6, <1>7, <1>8, <1>9, <1>10 DEF LT!Pages

\* Of different things one is the chosen one.
LEMMA OneIsChosen ==
    ASSUME NEW s, NEW x, Choice(s, x)
    PROVE  LT!Cardinality({i \in DOMAIN s : s[i] = x}) = 1
<1>1. PICK k \in DOMAIN s : s[k] = x
  BY DEF Choice, LT!Members
<1>2. {i \in DOMAIN s : s[i] = x} = {k}
  BY <1>1 DEF Choice
<1>3. Cardinality({k}) = 1
  BY FS_Singleton
<1>4. LT!Cardinality({k}) = Cardinality({k})
  BY DEF LT!Cardinality, Cardinality
<1> QED
  BY <1>2, <1>3, <1>4

\* Who asks for less motion has all sections; for anyone else those that are
\* not seen yet are watched.
LettersInv ==
    /\ LT!TypeOK
    /\ tab \in LT!Members(letter.items) /\ card \in LT!Members(letter.cards) /\ panels = <<tab, card>>
    /\ LT!SeenIsReadable
    /\ lifted \/ (letter.react /\ reduced) \/ \A s \in LT!Members(letter.ids) : s \in seen \/ s \in watched

LEMMA LettersInitInv == LT!Init => LettersInv
<1> SUFFICES ASSUME LT!Init PROVE LettersInv
  OBVIOUS
<1>1. WellMade(letter)
  BY LettersWellMade DEF LT!Init
<1>2. LT!TypeOK
  <2>1. seen = {} /\ revealed = {} /\ watched \subseteq LT!Members(letter.ids)
    BY DEF LT!Init
  <2>2. console \in 0 .. letter.lines
    BY <1>1 DEF LT!Init, WellMade
  <2>3. letter \in LT!Pages /\ {reduced, lifted} \subseteq BOOLEAN
    BY DEF LT!Init
  <2> QED
    BY <2>1, <2>2, <2>3 DEF LT!TypeOK
<1>3. /\ tab \in LT!Members(letter.items) /\ card \in LT!Members(letter.cards)
      /\ panels = <<tab, card>>
  BY <1>1 DEF LT!Init, WellMade, Choice, LT!Shown
<1>4. LT!SeenIsReadable /\ ((letter.react /\ reduced) \/ \A s \in LT!Members(letter.ids) : s \in seen \/ s \in watched)
  BY DEF LT!Init, LT!SeenIsReadable
<1> QED
  BY <1>2, <1>3, <1>4 DEF LettersInv

LEMMA LettersNextInv == LettersInv /\ [LT!Next]_lettervars => LettersInv'
<1> SUFFICES ASSUME LettersInv, [LT!Next]_lettervars PROVE LettersInv'
  OBVIOUS
<1>1. ASSUME NEW id \in LT!Members(letter.items), LT!SetFitPanel(id) PROVE LettersInv'
  <2>1. panels' = <<id, card>> /\ tab' = id
    BY <1>1 DEF LT!SetFitPanel, LT!Shown, LettersInv
  <2> QED
    BY <1>1, <2>1 DEF LT!SetFitPanel, LT!Render, LettersInv, LT!TypeOK, LT!SeenIsReadable
<1>2. ASSUME NEW id \in LT!Members(letter.cards), LT!SetProjectPanel(id) PROVE LettersInv'
  <2>1. panels' = <<tab, id>> /\ card' = id
    BY <1>2 DEF LT!SetProjectPanel, LT!Shown, LettersInv
  <2> QED
    BY <1>2, <2>1 DEF LT!SetProjectPanel, LT!Render, LettersInv, LT!TypeOK, LT!SeenIsReadable
<1>3. ASSUME NEW s \in LT!Members(letter.ids), LT!Intersects(s) PROVE LettersInv'
  BY <1>3 DEF LT!Intersects, LettersInv, LT!TypeOK, LT!SeenIsReadable
<1>4. CASE LT!MediaChanges
  BY <1>4 DEF LT!MediaChanges, LettersInv, LT!TypeOK, LT!SeenIsReadable
<1>5. CASE LT!WriteNext
  <2>1. WellMade(letter)
    BY LettersWellMade DEF LettersInv, LT!TypeOK
  <2> QED
    BY <1>5, <2>1 DEF LT!WriteNext, LT!More, WellMade, LettersInv, LT!TypeOK, LT!SeenIsReadable
<1>6. CASE UNCHANGED lettervars
  BY <1>6 DEF lettervars, LettersInv, LT!TypeOK, LT!SeenIsReadable
<1> QED
  BY <1>1, <1>2, <1>3, <1>4, <1>5, <1>6 DEF LT!Next

LEMMA LettersImplies == LettersInv => LT!TypeOK /\ LT!SeenIsReadable /\ LT!NothingDangles
<1> SUFFICES ASSUME LettersInv PROVE LT!NothingDangles
  BY DEF LettersInv
<1>1. WellMade(letter)
  BY LettersWellMade DEF LettersInv, LT!TypeOK
<1>2. Choice(letter.items, tab) /\ Choice(letter.cards, card)
  BY <1>1 DEF WellMade, Choice, LettersInv
<1> QED
  BY <1>1, <1>2, OneIsChosen DEF WellMade, LT!NothingDangles, LettersInv

------------------------------------------------------------------------------
(* The theme switcher *)

\* A page whose switcher is not built yet has the saved theme, unless another
\* tab has overtaken it.
ThemeInv ==
    /\ TH!TypeOK /\ TH!SwitcherTruthful
    /\ tabs \in [Tab -> [state : {"closed", "head", "ready"}, applied : Themes \cup {Retired},
                         shows : Themes \cup {TH!NoTheme}, overtaken : BOOLEAN]]
    /\ \A t \in Tab : tabs[t].state = "head" /\ ~tabs[t].overtaken => tabs[t].applied = TH!Saved

LEMMA ThemeInitInv == TH!Init => ThemeInv
  BY PagesAssumption DEF TH!ThemeAssumption, TH!Init, TH!Closed, ThemeInv, TH!TypeOK, TH!SwitcherTruthful

LEMMA SavedTheme == ThemeInv => TH!Saved \in Themes \cup {Retired}
  BY PagesAssumption DEF TH!ThemeAssumption, ThemeInv, TH!TypeOK, TH!Saved

LEMMA ThemeNextInv == ThemeInv /\ [TH!Next]_themevars => ThemeInv'
<1> SUFFICES ASSUME ThemeInv, [TH!Next]_themevars PROVE ThemeInv'
  OBVIOUS
<1> DEFINE Page == [state : {"closed", "head", "ready"}, applied : Themes \cup {Retired},
                    shows : Themes \cup {TH!NoTheme}, overtaken : BOOLEAN]
           True(p) == p.state = "ready" /\ ~p.overtaken =>
                          p.shows = IF p.applied \in Themes THEN p.applied ELSE TH!NoTheme
<1>0. /\ tabs \in [Tab -> Page] /\ keeps \in BOOLEAN /\ saved \in Themes \cup {TH!None, Retired}
      /\ \A t \in Tab : True(tabs[t])
      /\ \A t \in Tab : tabs[t].state = "head" /\ ~tabs[t].overtaken => tabs[t].applied = TH!Saved
  BY DEF ThemeInv, TH!TypeOK, TH!SwitcherTruthful
<1>q. ASSUME tabs' \in [Tab -> Page], keeps' \in BOOLEAN, saved' \in Themes \cup {TH!None, Retired},
             \A t \in Tab : True(tabs'[t]),
             \A t \in Tab : tabs'[t].state = "head" /\ ~tabs'[t].overtaken => tabs'[t].applied = TH!Saved'
      PROVE  ThemeInv'
  BY <1>q DEF ThemeInv, TH!TypeOK, TH!SwitcherTruthful
<1>p. ASSUME NEW t \in Tab, NEW p \in Page, True(p), tabs' = [tabs EXCEPT ![t] = p], UNCHANGED <<keeps, saved>>,
             p.state = "head" /\ ~p.overtaken => p.applied = TH!Saved
      PROVE  ThemeInv'
  <2>1. TH!Saved' = TH!Saved
    BY <1>p DEF TH!Saved
  <2>2. tabs' \in [Tab -> Page] /\ \A u \in Tab : tabs'[u] = IF u = t THEN p ELSE tabs[u]
    BY <1>0, <1>p
  <2> QED
    BY <1>0, <1>p, <1>q, <2>1, <2>2
<1>1. ASSUME NEW t \in Tab, TH!Open(t) PROVE ThemeInv'
  <2> DEFINE p == [TH!Closed EXCEPT !.state = "head", !.applied = TH!Saved]
  <2>1. TH!Closed \in Page /\ Default \in Themes
    BY PagesAssumption DEF TH!ThemeAssumption, TH!Closed
  <2>2. tabs' = [tabs EXCEPT ![t] = p]
    BY <1>1 DEF TH!Open
  <2>3. p \in Page /\ True(p) /\ p.applied = TH!Saved
    BY <2>1, SavedTheme
  <2> HIDE DEF p
  <2> QED
    BY <1>1, <1>p, <2>2, <2>3 DEF TH!Open
<1>2. ASSUME NEW t \in Tab, TH!Build(t) PROVE ThemeInv'
  <2> DEFINE p == [tabs[t] EXCEPT !.state = "ready", !.shows = TH!Shows]
  <2>1. tabs[t] \in Page /\ TH!Shows = IF TH!Saved \in Themes THEN TH!Saved ELSE TH!NoTheme
    BY <1>0 DEF TH!Shows
  <2>2. tabs' = [tabs EXCEPT ![t] = p]
    BY <1>0, <1>2 DEF TH!Build
  <2>3. /\ p \in Page /\ p.state = "ready" /\ p.shows = TH!Shows
        /\ p.applied = tabs[t].applied /\ p.overtaken = tabs[t].overtaken
    BY <2>1
  <2>4. tabs[t].state = "head"
    BY <1>2 DEF TH!Build
  <2> HIDE DEF p
  <2>5. True(p)
    BY <1>0, <2>1, <2>3, <2>4
  <2> QED
    BY <1>2, <1>p, <2>2, <2>3, <2>5 DEF TH!Build
<1>3. ASSUME NEW t \in Tab, NEW theme \in Themes, TH!Choose(t, theme) PROVE ThemeInv'
  <2>1. /\ tabs[t].state = "ready" /\ keeps' = keeps /\ saved' \in Themes \cup {TH!None, Retired}
        /\ tabs' = [u \in Tab |->
                IF u = t THEN [tabs[u] EXCEPT !.applied = theme, !.shows = theme, !.overtaken = FALSE]
                ELSE [tabs[u] EXCEPT !.overtaken = @ \/ (tabs[u].state = "head" /\ keeps)]]
    BY <1>0, <1>3 DEF TH!Choose
  <2>2. ~keeps => TH!Saved' = TH!Saved
    BY <1>3 DEF TH!Choose, TH!Saved
  <2>3. tabs' \in [Tab -> Page]
    BY <1>0, <2>1
  <2>4. \A u \in Tab : True(tabs'[u])
    BY <1>0, <2>1
  <2>5. \A u \in Tab : tabs'[u].state = "head" /\ ~tabs'[u].overtaken => tabs'[u].applied = TH!Saved'
    BY <1>0, <2>1, <2>2
  <2> QED
    BY <1>0, <1>q, <2>1, <2>3, <2>4, <2>5
<1>4. CASE UNCHANGED themevars
  BY <1>0, <1>4, <1>q DEF themevars, TH!Saved
<1> QED
  BY <1>1, <1>2, <1>3, <1>4 DEF TH!Next

------------------------------------------------------------------------------
(* The pages together *)

PagesInv == Inv /\ PlayInv /\ BuildInv /\ AnimInv /\ ControlsInv /\ LettersInv /\ ThemeInv

LEMMA PagesInitInv == PagesInit => PagesInv
<1> SUFFICES ASSUME PagesInit PROVE PagesInv
  OBVIOUS
<1>1. GameInit /\ HP!Init /\ HA!Init /\ HC!Init /\ LT!Init /\ TH!Init
  BY DEF PagesInit
<1>2. Inv /\ PlayInv
  BY <1>1, InitInv, PlayInitInv DEF GameInit
<1> QED
  BY <1>1, <1>2, BuildInitInv, AnimInitInv, ControlsInitInv, LettersInitInv, ThemeInitInv DEF PagesInv

\* A step of the site is a step of each page, or leaves it as it is.
LEMMA PagesSteps ==
    [PagesNext]_pagesvars =>
        /\ GameNext \/ UNCHANGED gamevars
        /\ [HP!Next]_buildvars /\ [HA!Next]_animvars
        /\ [HC!Next]_controlvars /\ [LT!Next]_lettervars /\ [TH!Next]_themevars
<1>1. CASE UNCHANGED pagesvars
  BY <1>1 DEF pagesvars
<1>2. CASE PagesNext
  BY <1>2 DEF PagesNext
<1> QED
  BY <1>1, <1>2

LEMMA PagesNextInv == PagesInv /\ [PagesNext]_pagesvars => PagesInv'
<1> SUFFICES ASSUME PagesInv, [PagesNext]_pagesvars PROVE PagesInv'
  OBVIOUS
<1>1. GameNext => [Next]_vars
  BY DEF GameNext, Next
<1>2. UNCHANGED gamevars => [Next]_vars
  BY DEF gamevars
<1>3. Inv'
  BY <1>1, <1>2, PagesSteps, NextInv DEF PagesInv
<1>4. PlayInv'
  BY PagesSteps, PlayNextInv, PlayStill DEF PagesInv
<1>5. BuildInv' /\ AnimInv' /\ ControlsInv' /\ LettersInv' /\ ThemeInv'
  BY PagesSteps, BuildNextInv, AnimNextInv, ControlsNextInv, LettersNextInv, ThemeNextInv DEF PagesInv
<1> QED
  BY <1>3, <1>4, <1>5 DEF PagesInv

LEMMA PagesInvariant == PagesSpec => []PagesInv
<1>1. PagesInit => PagesInv
  BY PagesInitInv
<1>2. PagesInv /\ [PagesNext]_pagesvars => PagesInv'
  BY PagesNextInv
<1> QED
  BY <1>1, <1>2, PTL DEF PagesSpec

\* The game that is played is the one that is shown: who waits for the pages
\* gets only where links of the dictionary lead, in every path of the history,
\* sees the page of the word the path has come to, and has no clock running
\* outside a game (game.js: handleLinkClick, loadWiktionaryPage, showVictoryModal,
\* updateBreadcrumbTrail, stopTimer).
THEOREM PlayIsTruthful == PagesSpec => []PlayTruthful
<1>1. PagesInv => PlayTruthful
  BY PlayImplies DEF PagesInv
<1> QED
  BY <1>1, PagesInvariant, PTL

\* What a page has can be seen: whatever becomes of its images, and however
\* often motion is switched, all the elements of a Hypnospace page are there,
\* in reading order, when its builds are over, unless the last switch came
\* while one ran; what moves on it stays within the text, the page, the colours
\* and the frames, also after a first frame of no time; and what has come into
\* view of a letter stays readable (hsp.js: Page.build, loadImage, setMotion,
\* tick; the observer of .reveal in each letter's script.js).
THEOREM ContentIsShown == PagesSpec => []ContentShown
<1>1. PagesInv => ContentShown
  BY BuildImplies, AnimTypes, LettersImplies DEF PagesInv, ContentShown
<1> QED
  BY <1>1, PagesInvariant, PTL

\* What is shown as chosen is what was chosen, over reloads and in other tabs:
\* the controls of a Hypnospace page (hsp.js: wanted, remember, setupMusic,
\* setupZoom), the panels and buttons of a letter, and the theme switcher
\* (theme.js: saved and build).
THEOREM ChoicesAreShown == PagesSpec => []ChoicesShown
<1>1. PagesInv => ChoicesShown
  BY LettersImplies DEF PagesInv, ControlsInv, ThemeInv, ChoicesShown
<1> QED
  BY <1>1, PagesInvariant, PTL

\* On a still page nothing moves by itself: after a tick a gif that is not
\* pointed at shows the frame it began with (hsp.js:420, GifEl.tick).
THEOREM StillPagesAreStill == PagesSpec => HA!StillIsStill
<1>1. PagesInv => [HA!Tick /\ ~gif.moving /\ ~gif.hover /\ ~gif.held => gif'.i = HA!StartFrame(gif)]_(HA!vars)
  BY StillTick DEF PagesInv
<1> QED
  BY <1>1, PagesInvariant, PTL DEF PagesSpec, HA!StillIsStill

------------------------------------------------------------------------------
(* Entities of !~ATH *)

DeathInv == EntitiesOK /\ Truthful

LEMMA DeathInitInv == DeathInit => DeathInv
<1> SUFFICES ASSUME DeathInit PROVE DeathInv
  OBVIOUS
<1>1. EntitiesOK
  BY DEF DeathInit, EntitiesOK, Kind, Simple
<1>2. Truthful
  BY DEF DeathInit, Truthful
<1> QED
  BY <1>1, <1>2 DEF DeathInv

\* Births leave the entities there are as they were, and everything well made.
LEMMA BirthTypes ==
    ASSUME EntitiesOK, Birth
    PROVE  /\ \A o \in DOMAIN made' : made'[o] \in Kind /\ made'[o].parts \subseteq DOMAIN made'
           /\ DOMAIN made' \subseteq Nat
  BY DEF Birth

\* Deaths of entities that are not composites, among births or not, keep the
\* dead composites borne out.
LEMMA TruthfulStep ==
    ASSUME DeathInv, DOMAIN made \subseteq DOMAIN made', \A o \in DOMAIN made : made'[o] = made[o],
           dead \subseteq dead',
           Killable(dead' \ dead)
    PROVE  Truthful'
<1> SUFFICES ASSUME NEW o \in dead'
             PROVE  /\ made'[o].kind = "EntityAnd" => made'[o].parts \subseteq dead'
                    /\ made'[o].kind = "EntityOr" => made'[o].parts \cap dead' # {}
  BY DEF Truthful, Is
<1>1. CASE o \in dead
  <2>1. made'[o] = made[o]
    BY <1>1 DEF DeathInv, EntitiesOK
  <2>2. /\ made[o].kind = "EntityAnd" => made[o].parts \subseteq dead
        /\ made[o].kind = "EntityOr" => made[o].parts \cap dead # {}
    BY <1>1 DEF DeathInv, Truthful, Is
  <2> QED
    BY <2>1, <2>2
<1>2. CASE o \notin dead
  <2>1. made'[o] = made[o] /\ made[o].kind \in Simple
    BY <1>2 DEF Killable
  <2> QED
    BY <1>2, <2>1 DEF Simple
<1> QED
  BY <1>1, <1>2

\* Each kind of step keeps the invariant.
LEMMA ChangeInv == DeathInv /\ Change => DeathInv'
<1> SUFFICES ASSUME DeathInv, Change PROVE DeathInv'
  OBVIOUS
<1>1. EntitiesOK'
  BY BirthTypes DEF Change, DeathInv, EntitiesOK, Birth, Killable
<1>2. Truthful'
  BY TruthfulStep DEF Change, Birth
<1> QED
  BY <1>1, <1>2 DEF DeathInv

LEMMA CompositeDiesInv == ASSUME DeathInv, NEW o \in DOMAIN made, CompositeDies(o) PROVE DeathInv'
<1>1. EntitiesOK'
  BY DEF CompositeDies, DeathInv, EntitiesOK
<1>2. ASSUME NEW x \in dead'
      PROVE  /\ made'[x].kind = "EntityAnd" => made'[x].parts \subseteq dead'
             /\ made'[x].kind = "EntityOr" => made'[x].parts \cap dead' # {}
  <2>1. CASE x = o
    BY <2>1 DEF CompositeDies, Due, Is
  <2>2. CASE x \in dead
    BY <2>2 DEF CompositeDies, DeathInv, Truthful, Is
  <2> QED
    BY <2>1, <2>2 DEF CompositeDies
<1> QED
  BY <1>1, <1>2 DEF DeathInv, Truthful, Is

LEMMA WaitInv == DeathInv /\ Wait => DeathInv'
<1> SUFFICES ASSUME DeathInv, Wait PROVE DeathInv'
  OBVIOUS
<1>1. EntitiesOK'
  BY BirthTypes DEF Wait, DeathInv, EntitiesOK, Birth
<1>2. Truthful'
  BY TruthfulStep DEF Wait, Birth, Killable
<1> QED
  BY <1>1, <1>2 DEF DeathInv

LEMMA PassInv == ASSUME DeathInv, NEW p \in waits, Pass(p) PROVE DeathInv'
  BY DEF Pass, DeathInv, EntitiesOK, Truthful, Is

LEMMA DeathStutterInv == ASSUME DeathInv, UNCHANGED deathvars PROVE DeathInv'
  BY DEF deathvars, DeathInv, EntitiesOK, Truthful, Is

LEMMA DeathNextInv == DeathInv /\ [DeathNext]_deathvars => DeathInv'
<1> SUFFICES ASSUME DeathInv, [DeathNext]_deathvars PROVE DeathInv'
  OBVIOUS
<1>1. CASE Change
  BY <1>1, ChangeInv
<1>2. ASSUME NEW o \in DOMAIN made, CompositeDies(o) PROVE DeathInv'
  BY <1>2, CompositeDiesInv
<1>3. CASE Wait
  BY <1>3, WaitInv
<1>4. ASSUME NEW p \in waits, Pass(p) PROVE DeathInv'
  BY <1>4, PassInv
<1>5. CASE UNCHANGED deathvars
  BY <1>5, DeathStutterInv
<1> QED
  BY <1>1, <1>2, <1>3, <1>4, <1>5 DEF DeathNext

\* The invariant holds always.
LEMMA DeathInvariant == DeathSpec => []DeathInv
<1> QED
  BY DeathInitInv, DeathNextInv, PTL DEF DeathSpec

\* The tables of entities, deaths and waits stay well formed.
THEOREM EntitiesCorrect == DeathSpec => []EntitiesOK
<1>1. DeathInv => EntitiesOK
  BY DEF DeathInv
<1> QED
  BY DeathInvariant, <1>1, PTL

\* A dead (A && B) has both parts dead, a dead (A || B) one of them, for any
\* number of entities, composites of composites and waiters.
THEOREM CompositesTruthful == DeathSpec => []Truthful
<1>1. DeathInv => Truthful
  BY DEF DeathInv
<1> QED
  BY DeathInvariant, <1>1, PTL

\* No waiter goes on early and nothing dead comes back to life.
LEMMA StepOnTime == DeathInv /\ [DeathNext]_deathvars =>
    [/\ dead \subseteq dead'
     /\ \A p \in waits \ waits' :
            /\ p[2] \in dead'
            /\ Is(p[2], "EntityAnd") => made[p[2]].parts \subseteq dead'
            /\ Is(p[2], "EntityOr") => made[p[2]].parts \cap dead' # {}]_deathvars
<1> SUFFICES ASSUME DeathInv, DeathNext
             PROVE  /\ dead \subseteq dead'
                    /\ \A p \in waits \ waits' :
                           /\ p[2] \in dead'
                           /\ Is(p[2], "EntityAnd") => made[p[2]].parts \subseteq dead'
                           /\ Is(p[2], "EntityOr") => made[p[2]].parts \cap dead' # {}
  OBVIOUS
<1>1. CASE Change
  BY <1>1 DEF Change
<1>2. ASSUME NEW o \in DOMAIN made, CompositeDies(o)
      PROVE  dead \subseteq dead' /\ waits' = waits
  BY <1>2 DEF CompositeDies
<1>3. CASE Wait
  BY <1>3 DEF Wait
<1>4. ASSUME NEW p \in waits, Pass(p)
      PROVE  /\ dead' = dead
             /\ waits \ waits' \subseteq {p} /\ p[2] \in dead
             /\ Is(p[2], "EntityAnd") => made[p[2]].parts \subseteq dead
             /\ Is(p[2], "EntityOr") => made[p[2]].parts \cap dead # {}
  BY <1>4 DEF Pass, DeathInv, Truthful
<1> QED
  BY <1>1, <1>2, <1>3, <1>4 DEF DeathNext

THEOREM NoneEarly == DeathSpec => NobodyGoesOnEarly
<1> QED
  BY DeathInvariant, StepOnTime, PTL DEF DeathSpec, NobodyGoesOnEarly
=============================================================================
