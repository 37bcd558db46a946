-------------------------------- MODULE Theme --------------------------------
(* The theme switcher of the old site (oldsite/theme.js) in the tabs of one   *)
(* browser: the script applies the saved theme while the head is read, and    *)
(* builds the switcher when the document is ready; another tab may choose a   *)
(* theme in between. The browser may keep nothing.                            *)
EXTENDS Integers

CONSTANTS Tab, Themes, Retired,     \* themes there are, and one there was
          Default

ThemeAssumption == Default \in Themes

VARIABLES keeps, saved, tabs
vars == <<keeps, saved, tabs>>

\* A tab: the theme of its page, what the switcher shows, and whether another
\* tab has chosen a theme before the switcher was built.
Closed == [state |-> "closed", applied |-> Default, shows |-> Default, overtaken |-> FALSE]

None == "none"
Saved == IF keeps /\ saved # None THEN saved ELSE Default
NoTheme == "no theme"   \* a switcher whose value is none of its options

Init ==
    /\ keeps \in BOOLEAN /\ saved \in {None, Retired}
    /\ tabs = [t \in Tab |-> Closed]

Open(t) ==
    /\ tabs' = [tabs EXCEPT ![t] = [Closed EXCEPT !.state = "head", !.applied = Saved]]
    /\ UNCHANGED <<keeps, saved>>

Shows == IF Saved \in Themes THEN Saved ELSE NoTheme

\* build: once, when the document is ready.
Build(t) ==
    /\ tabs[t].state = "head"
    /\ tabs' = [tabs EXCEPT ![t].state = "ready", ![t].shows = Shows]
    /\ UNCHANGED <<keeps, saved>>

\* A choice is a change of what the switcher shows.
Choose(t, theme) ==
    /\ tabs[t].state = "ready" /\ theme # tabs[t].shows
    /\ saved' = IF keeps THEN theme ELSE saved
    /\ tabs' = [u \in Tab |->
            IF u = t THEN [tabs[u] EXCEPT !.applied = theme, !.shows = theme, !.overtaken = FALSE]
            ELSE [tabs[u] EXCEPT !.overtaken = @ \/ (tabs[u].state = "head" /\ keeps)]]
    /\ UNCHANGED keeps

Next == \E t \in Tab : Open(t) \/ Build(t) \/ \E theme \in Themes : Choose(t, theme)

Spec == Init /\ [][Next]_vars
------------------------------------------------------------------------------

TypeOK ==
    /\ keeps \in BOOLEAN /\ saved \in Themes \cup {None, Retired}
    /\ \A t \in Tab : /\ tabs[t].state \in {"closed", "head", "ready"}
                      /\ tabs[t].applied \in Themes \cup {Retired}
                      /\ tabs[t].shows \in Themes \cup {NoTheme}

\* The switcher shows the theme the page has, but for a page that another tab
\* has overtaken while it was loading, or a theme there is no more.
SwitcherTruthful ==
    \A t \in Tab : tabs[t].state = "ready" /\ ~tabs[t].overtaken =>
        tabs[t].shows = IF tabs[t].applied \in Themes THEN tabs[t].applied ELSE NoTheme
=============================================================================
