-------------------------------- MODULE Pages --------------------------------
(* The pages of the site. A behaviour is of one page: the game of one player, *)
(* the renderer of Hypnospace pages building, animating or controlled, a      *)
(* letter, or the theme switcher; the others stay as they begin. The text of  *)
(* Hypnospace pages is pure.                                                  *)
EXTENDS Game

CONSTANTS
    Practised, MaxGames,            \* bounds of Game: words that are practised
                                    \* with, and games that begin
    Elements, Sheets, MaxToggles,   \* of HspPage
    TextLength, Pause, LongPause, PageWidth, TextWidth, MixMax, Quarter, Steps,     \* of HspAnim
    MaxScale,                       \* of HspControls
    Tab, Themes, Retired, Default   \* of Theme

VARIABLES
    live,               \* the page the behaviour is of
    patient, begun,     \* the game: the player waits for pages; games begun
    images, builds, els, motion, toggles, hasty,
    text, gif, warm,
    works, stored, autoplay, window, ui, keyed, music,
    letter, tab, card, panels, seen, revealed, watched, reduced, lifted, console,
    keeps, saved, tabs

HT == INSTANCE HspText
HP == INSTANCE HspPage
HA == INSTANCE HspAnim
HC == INSTANCE HspControls
LT == INSTANCE Letters
TH == INSTANCE Theme

ASSUME PagesAssumption ==
    HP!PageAssumption /\ HA!AnimAssumption /\ HC!ControlsAssumption /\ TH!ThemeAssumption

gamevars    == <<vars, patient, begun>>
buildvars   == <<images, builds, els, motion, toggles, hasty>>
animvars    == <<text, gif, warm>>
controlvars == <<works, stored, autoplay, window, ui, keyed, music>>
lettervars  == <<letter, tab, card, panels, seen, revealed, watched, reduced, lifted, console>>
themevars   == <<keeps, saved, tabs>>
pagesvars == <<live, gamevars, buildvars, animvars, controlvars, lettervars, themevars>>

------------------------------------------------------------------------------
(* The player of the game waits for what is asked for, or does not. *)

GameInit == Init /\ patient \in BOOLEAN /\ begun = 0 /\ (debug => patient)
GameNext ==
    /\ \/ PageLoaded \/ Validated
       \/ Act /\ (patient => loads = <<>> /\ pending = NoGame)
    /\ pending' \in {pending, NoGame} \/ <<pending'.start, pending'.target>> \in Practised
    /\ patient \/ ~debug'
    /\ begun' = begun + (IF Len(path') = 1 /\ Len(loads') > Len(loads) THEN 1 ELSE 0) /\ begun' <= MaxGames
    /\ UNCHANGED patient

------------------------------------------------------------------------------

\* Of what moves, either a text or a gif does.
StillGif == HA!GifOf(-1, FALSE, 1, 0, 0)

PagesInit ==
    /\ live \in {"game", "build", "anim", "controls", "letters", "theme", "laws"}
    /\ GameInit /\ (live = "game" \/ (~debug /\ patient))
    /\ HP!Init /\ (live = "build" \/ motion)
    /\ HA!Init /\ (text.anim # 0 => gif = StillGif) /\ (live = "anim" \/ text.anim = 1)
    /\ HC!Init /\ (live = "controls" \/ (works /\ window = [fits |-> 1, reduced |-> FALSE] /\ ~music.plays))
    /\ LT!Init /\ (live = "letters" \/ (letter = LT!Givelify /\ ~reduced))
    /\ TH!Init /\ (live = "theme" \/ (keeps /\ saved = TH!None))

PagesNext ==
    /\ UNCHANGED live
    /\ \/ live = "game" /\ GameNext
          /\ UNCHANGED <<buildvars, animvars, controlvars, lettervars, themevars>>
       \/ live = "build" /\ HP!Next
          /\ UNCHANGED <<gamevars, animvars, controlvars, lettervars, themevars>>
       \/ live = "anim" /\ HA!Next /\ (text.anim # 0 => gif' = gif)
          /\ UNCHANGED <<gamevars, buildvars, controlvars, lettervars, themevars>>
       \/ live = "controls" /\ HC!Next
          /\ UNCHANGED <<gamevars, buildvars, animvars, lettervars, themevars>>
       \/ live = "letters" /\ LT!Next
          /\ UNCHANGED <<gamevars, buildvars, animvars, controlvars, themevars>>
       \/ live = "theme" /\ TH!Next
          /\ UNCHANGED <<gamevars, buildvars, animvars, controlvars, lettervars>>

PagesFairness ==
    /\ WF_buildvars(live = "build" /\ \E b \in DOMAIN builds : HP!GoOn(b))
    /\ \A i \in HP!Image : WF_buildvars(live = "build" /\ HP!ImageSettles(i))
    /\ WF_animvars(live = "anim" /\ HA!Tick)
    /\ WF_lettervars(live = "letters" /\ LT!WriteNext)

PagesSpec == PagesInit /\ [][PagesNext]_pagesvars /\ PagesFairness
------------------------------------------------------------------------------
(* The game *)

Linked(p, target) == \A i \in 1 .. Len(p) - 1 :
    (\A j \in 2 .. i : ~Same(p[j], target)) =>
        \E l \in Links[p[i]] : l.to = p[i + 1] /\ l.site \in {"internal", "wiktionary"}

\* Who waits for the pages can go only where links of the dictionary lead, on
\* the path and in every entry of the history, up to the target.
PathFollowsLinks == patient =>
    /\ path = <<>> \/ debugBar \/ Linked(path, game.target)
    /\ \A k \in DOMAIN history : Linked(history[k].path, history[k].target)

\* Who waits sees, in a game, the page of the word the path has come to.
PageIsCurrent ==
    patient /\ screen = "game" /\ page.visible => page.word = currentWord \/ Same(Last(path), game.target)

\* Who waits has no clock running outside a game.
NoClockOutside == patient /\ clock.held => screen = "game"

\* The game that is played is the one that is shown, and obeys its rules.
PlayTruthful == PathFollowsLinks /\ PageIsCurrent /\ NoClockOutside

------------------------------------------------------------------------------
(* What the modules of the pages promise, of the page that is live *)

\* What a page has can be seen: the elements of a Hypnospace page are all
\* there when its builds are over, however they overlap, and the sections of a
\* letter that have come into view stay readable. What moves stays within the
\* text, the page, its colours and its frames.
ContentShown == HP!TypeOK /\ HP!PageComplete /\ HA!TypeOK /\ LT!TypeOK /\ LT!SeenIsReadable

\* What is shown as chosen is what was chosen: music that was paused stays
\* paused over reloads, zoom and switches keep their values, the panels of a
\* letter and its marked buttons agree, and the theme switcher has the theme
\* of the page.
ChoicesShown ==
    /\ HC!TypeOK /\ HC!PauseIsKept /\ HC!ChoicesKept
    /\ LT!NothingDangles
    /\ TH!TypeOK /\ TH!SwitcherTruthful

\* What is begun is finished: builds, whatever becomes of their images, and
\* the console of a letter.
GetsFinished ==
    /\ live = "build" => HP!BuildsEnd
    /\ live = "letters" => LT!ConsoleComplete

\* Animations show all of a text and of its colours again and again, and where
\* motion is off nothing of a gif moves.
AnimationsGoRound ==
    /\ live = "anim" => HA!WholeTextAgain /\ HA!ColoursAgain
    /\ HA!StillIsStill
==============================================================================
