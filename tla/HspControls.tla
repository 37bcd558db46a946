----------------------------- MODULE HspControls -----------------------------
(* The controls of a Hypnospace page (hsptohtml/README/lib/hsp.js): music,    *)
(* motion, text view, zoom and the bar that holds them, with what they        *)
(* remember in the browser, which may not let them. The browser plays nothing *)
(* before a gesture of the reader, unless it trusts the site.                 *)
EXTENDS Integers

CONSTANTS MaxScale      \* 6 in the code

ControlsAssumption == MaxScale \in Nat \ {0}

VARIABLES
    works,      \* the browser lets the page store
    stored,     \* localStorage: scale (0 if not there), bar, read and motion
    autoplay,   \* sessionStorage: the choice about music
    window,     \* the scale that fits, and whether less motion is asked for
    ui,         \* scale, open (the bar), reading (the text view), motion
    keyed,      \* history: the text view was last switched by key
    music       \* whether it plays, the listener once is there, gestures count
vars == <<works, stored, autoplay, window, ui, keyed, music>>

Absent  == "absent"
Text(b) == IF b THEN "1" ELSE "0"
Scale  == 1 .. MaxScale
Clamped(n) == IF n < 1 THEN 1 ELSE IF n > MaxScale THEN MaxScale ELSE n

\* A read that fails is as good as nothing, a write that fails changes nothing.
Read(key)       == IF works THEN stored[key] ELSE Absent
Written(key, v) == IF works THEN [stored EXCEPT ![key] = v] ELSE stored
StoredScale     == IF works THEN stored.scale ELSE 0

\* A bug: music starts with the first gesture, wanted or not.
WantedAlways == TRUE
Wanted == ~works \/ autoplay # "0"

MotionDefault == IF Read("motion") = Absent THEN ~window.reduced ELSE Read("motion") = "1"

\* What a page begins with, and the music it tries to start; hash is set where
\* the address asks for the text.
Boot(hash, gestures) ==
    /\ ui' = [scale |-> Clamped(IF StoredScale # 0 THEN StoredScale ELSE window.fits),
              open |-> Read("bar") = "1", reading |-> hash \/ Read("read") = "1",
              motion |-> MotionDefault]
    /\ keyed' = hash
    /\ music' = [plays |-> Wanted /\ gestures, once |-> TRUE, gestures |-> gestures]

Init ==
    /\ works \in BOOLEAN /\ autoplay = Absent
    /\ stored = [scale |-> 0, bar |-> Absent, read |-> Absent, motion |-> Absent]
    /\ window \in [fits : Scale, reduced : BOOLEAN]
    /\ ui = [scale |-> window.fits, open |-> FALSE, reading |-> FALSE, motion |-> ~window.reduced]
    /\ keyed = FALSE
    /\ \E trusted \in BOOLEAN : music = [plays |-> trusted, once |-> TRUE, gestures |-> trusted]

\* Another page of the export, or this one again.
Load ==
    /\ \E hash, trusted \in BOOLEAN : Boot(hash, trusted)
    /\ UNCHANGED <<works, stored, autoplay, window>>

------------------------------------------------------------------------------
(* Music. Every gesture reaches the listener once before it reaches a control *)
(* - but for a key that navigates, which does not count.                      *)

Once == IF music.once THEN [plays |-> music.plays \/ Wanted, once |-> FALSE, gestures |-> TRUE]
        ELSE [music EXCEPT !.gestures = TRUE]

\* A gesture that is not on a control.
Gesture == music' = Once /\ UNCHANGED <<works, stored, autoplay, window, ui, keyed>>

ToggleMusic ==
    /\ autoplay' = IF works THEN Text(~Once.plays) ELSE autoplay
    /\ music' = [Once EXCEPT !.plays = ~@]
    /\ UNCHANGED <<works, stored, window, ui, keyed>>

------------------------------------------------------------------------------
(* The other controls; each is worked by a gesture as well. *)

\* A bug: the zoom is not remembered.
ApplyForgetful(n) == ui' = [ui EXCEPT !.scale = Clamped(n)] /\ UNCHANGED stored
Apply(n) == /\ ui' = [ui EXCEPT !.scale = Clamped(n)]
            /\ stored' = Written("scale", Clamped(n))

Bump(d) ==
    /\ Apply(ui.scale + d)
    /\ music' = Once /\ UNCHANGED <<works, autoplay, window, keyed>>

\* Key 0: the page fits again, and goes on fitting.
ResetZoom ==
    /\ stored' = Written("scale", 0)
    /\ ui' = [ui EXCEPT !.scale = window.fits]
    /\ music' = Once /\ UNCHANGED <<works, autoplay, window, keyed>>

Fit(n) == ui' = IF StoredScale = 0 THEN [ui EXCEPT !.scale = n] ELSE ui

Resize ==
    /\ \E n \in Scale : window' = [window EXCEPT !.fits = n] /\ Fit(n)
    /\ UNCHANGED <<works, stored, autoplay, keyed, music>>

\* The button of the bar, key ?, or Escape, which closes it and is no gesture.
ToggleBar ==
    /\ ui' = [ui EXCEPT !.open = ~@] /\ stored' = Written("bar", Text(~ui.open))
    /\ music' \in {Once} \cup (IF ui.open THEN {music} ELSE {})
    /\ UNCHANGED <<works, autoplay, window, keyed>>

ToggleMotion ==
    /\ ui' = [ui EXCEPT !.motion = ~@] /\ stored' = Written("motion", Text(~ui.motion))
    /\ music' = Once /\ UNCHANGED <<works, autoplay, window, keyed>>

\* The button remembers, the key does not.
ToggleReader(byKey) ==
    /\ ui' = [ui EXCEPT !.reading = ~@]
    /\ stored' = IF byKey THEN stored ELSE Written("read", Text(~ui.reading))
    /\ keyed' = byKey
    /\ music' = Once /\ UNCHANGED <<works, autoplay, window>>

Next ==
    \/ Load \/ Gesture \/ ToggleMusic
    \/ \E d \in {-1, 1} : Bump(d)
    \/ ResetZoom \/ Resize \/ ToggleBar \/ ToggleMotion
    \/ \E byKey \in BOOLEAN : ToggleReader(byKey)

Spec == Init /\ [][Next]_vars
------------------------------------------------------------------------------

Flag == {"1", "0", Absent}
TypeOK ==
    /\ works \in BOOLEAN /\ autoplay \in Flag /\ keyed \in BOOLEAN
    /\ stored.scale \in 0 .. MaxScale
    /\ \A key \in {"bar", "read", "motion"} : stored[key] \in Flag
    /\ window \in [fits : Scale, reduced : BOOLEAN]
    /\ ui \in [scale : Scale, open : BOOLEAN, reading : BOOLEAN, motion : BOOLEAN]
    /\ music \in [plays : BOOLEAN, once : BOOLEAN, gestures : BOOLEAN]

\* Who has paused the music is not played at, by no gesture and on no page
\* that is opened after it; and nothing plays before the browser allows it.
PauseIsKept ==
    /\ works /\ autoplay = "0" => ~music.plays
    /\ music.plays => music.gestures

\* However controls, resizes and reloads follow each other, the page is as it
\* was left: zoomed as was chosen or else as fits, and so with bar, motion and,
\* if it was switched by its button, the text view.
ChoicesKept == works =>
    /\ ui.scale = IF stored.scale = 0 THEN window.fits ELSE stored.scale
    /\ ui.open = (stored.bar = "1")
    /\ ui.motion = IF stored.motion = Absent THEN ~window.reduced ELSE stored.motion = "1"
    /\ ~keyed => ui.reading = (stored.read = "1")
=============================================================================
