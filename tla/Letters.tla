------------------------------- MODULE Letters -------------------------------
(* The interactive letters of the old site (oldsite/<letter>/script.js): tabs *)
(* that choose what a panel shows, sections that appear when they are         *)
(* scrolled to, and on two pages a console that is typed line by line. Eight  *)
(* pages are React components, whose panels are rendered from the choice; two *)
(* write the panel in the handler. Items and sections stand for their ids.    *)
EXTENDS Integers, Sequences, FiniteSets

VARIABLES letter,   \* the page that is open
          tab, card,    \* what is chosen of the two lists
          panels,       \* what the two panels show
          seen,         \* history: sections that have been scrolled to
          revealed,     \* sections with the class is-visible
          watched,      \* sections the observer watches
          reduced,      \* less motion is asked for
          lifted,       \* history: and no longer is, since the page was opened
          console       \* lines of the console that are written
vars == <<letter, tab, card, panels, seen, revealed, watched, reduced, lifted, console>>

------------------------------------------------------------------------------
(* The pages *)

Sections == <<"hero", "fit", "proof", "gains", "close">>
Page(items, first, cards, second, ids) ==
    [items |-> items, first |-> first, cards |-> cards, second |-> second,
     ids |-> ids, links |-> {"top", "fit", "proof", "close"} \cup (IF Len(ids) = 5 THEN {"gains"} ELSE {}),
     react |-> TRUE, lines |-> 0]

SoundPhysicians == Page(<<"analytics", "sql", "communication", "values">>, "analytics",
                        <<"homelab", "ath", "oss", "ballot">>, "homelab", Sections)
SoundPhys2 == Page(<<"automation", "testing", "ai", "agile">>, "automation",
                   <<"homelab", "ath", "oss", "ballot">>, "homelab", Sections)
OneDigital == Page(<<"unconventional", "people", "execution", "values">>, "unconventional",
                   <<"ballot", "oss", "ath", "service">>, "ballot", Sections)
Nvph == Page(<<"operations", "tools", "reporting", "mission">>, "operations",
             <<"ballot", "excel", "homelab", "oss">>, "ballot", Sections)
Cram == Page(<<"startup", "fullstack", "ai", "student">>, "startup",
             <<"ath", "homelab", "oss", "xcaca">>, "oss", Sections)
BuilderSupplyLink == Page(<<"ai", "python", "frontend", "team">>, "ai",
                          <<"homelab", "ath", "oss", "xcaca">>, "homelab", Sections)
JewelerStudio == Page(<<"product", "ai", "fullstack", "team">>, "product",
                      <<"ath", "homelab", "xcaca", "oss">>, "homelab", <<"hero", "fit", "proof", "close">>)
Porfyro == Page(<<"frontend", "backend", "remote", "growth">>, "frontend",
                <<"ath", "homelab", "oss", "xcaca">>, "oss", <<"hero", "fit", "proof", "close">>)
Givelify == [items |-> <<"builder", "systems", "collaborator", "learner">>, first |-> "builder",
             cards |-> <<"ath", "xcaca", "terminal", "oss">>, second |-> "ath",
             ids |-> <<"hero", "why-givelify", "fit-engine", "proof", "launch-plan">>,
             links |-> {"top", "why-givelify", "fit-engine", "proof", "launch-plan"},
             react |-> FALSE, lines |-> 4]
Starz == [items |-> <<"design", "build", "test", "ship">>, first |-> "design",
          cards |-> <<"ath", "xcaca", "terminal", "oss">>, second |-> "ath",
          ids |-> <<"hero", "why-starz", "production", "evidence", "program">>,
          links |-> {"top", "why-starz", "production", "evidence", "program"},
          react |-> FALSE, lines |-> 4]

Pages == {SoundPhysicians, SoundPhys2, OneDigital, Nvph, Cram, BuilderSupplyLink,
          JewelerStudio, Porfyro, Givelify, Starz}
Members(s) == {s[i] : i \in DOMAIN s}

------------------------------------------------------------------------------

\* What a panel shows for a choice: on a React page the first item if there is
\* no such one.
Shown(items, id) == IF id \in Members(items) THEN id ELSE items[1]

\* The sections are watched, on a React page unless less motion is asked for.
Init ==
    /\ letter \in Pages /\ reduced \in BOOLEAN /\ lifted = FALSE
    /\ tab = letter.first /\ card = letter.second
    /\ panels = <<Shown(letter.items, tab), Shown(letter.cards, card)>>
    /\ seen = {} /\ revealed = {}
    /\ watched = IF letter.react /\ reduced THEN {} ELSE Members(letter.ids)
    /\ console = IF letter.lines > 0 THEN 1 ELSE 0

Render     == UNCHANGED revealed

SetFitPanel(id) ==
    /\ tab' = id /\ panels' = [panels EXCEPT ![1] = Shown(letter.items, id)]
    /\ Render
    /\ UNCHANGED <<letter, card, seen, watched, reduced, lifted, console>>

SetProjectPanel(id) ==
    /\ card' = id /\ panels' = [panels EXCEPT ![2] = Shown(letter.cards, id)]
    /\ Render
    /\ UNCHANGED <<letter, tab, seen, watched, reduced, lifted, console>>

\* A section comes into view: it is shown, and not watched any more.
Intersects(s) ==
    /\ s \notin seen /\ seen' = seen \cup {s}
    /\ revealed' = revealed \cup (watched \cap {s}) /\ watched' = watched \ {s}
    /\ UNCHANGED <<letter, tab, card, panels, reduced, lifted, console>>

MediaChanges ==
    /\ reduced' = ~reduced /\ lifted' = (lifted \/ reduced)
    /\ UNCHANGED <<letter, tab, card, panels, seen, revealed, watched, console>>

More == console < letter.lines

WriteNext ==
    /\ console > 0 /\ More /\ console' = console + 1
    /\ UNCHANGED <<letter, tab, card, panels, seen, revealed, watched, reduced, lifted>>

Next ==
    \/ \E id \in Members(letter.items) : SetFitPanel(id)
    \/ \E id \in Members(letter.cards) : SetProjectPanel(id)
    \/ \E s \in Members(letter.ids) : Intersects(s)
    \/ MediaChanges \/ WriteNext

\* Timers fire.
Spec == Init /\ [][Next]_vars /\ WF_vars(WriteNext)
------------------------------------------------------------------------------

TypeOK ==
    /\ letter \in Pages /\ {reduced, lifted} \subseteq BOOLEAN
    /\ seen \cup revealed \cup watched \subseteq Members(letter.ids)
    /\ console \in 0 .. letter.lines

\* On every page, from its first moment on: each panel shows the item of the
\* one button that is marked, and every link leads to a section there is.
NothingDangles ==
    /\ Cardinality({i \in DOMAIN letter.items : letter.items[i] = tab}) = 1
    /\ Cardinality({i \in DOMAIN letter.cards : letter.cards[i] = card}) = 1
    /\ panels = <<tab, card>>
    /\ letter.links \subseteq Members(letter.ids) \cup {"top"}

\* What has been scrolled to can be read, whatever is chosen after it - unless
\* less motion was asked for when the page was opened, and is not any more.
SeenIsReadable ==
    lifted \/ \A s \in seen : s \in revealed \/ (letter.react /\ reduced)

\* The console is written to its last line.
ConsoleComplete == <>(console = letter.lines)
=============================================================================
