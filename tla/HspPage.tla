------------------------------- MODULE HspPage -------------------------------
(* How the renderer of Hypnospace pages (hsptohtml/README/lib/hsp.js) builds  *)
(* a page: an asynchronous function that waits for sheets and frames, image   *)
(* by image, while the reader may switch motion off and on, which starts      *)
(* another build beside the one that runs. Images are shared by all builds,   *)
(* and are asked for once.                                                    *)
EXTENDS Integers, Sequences, FiniteSets, SequencesExt

CONSTANTS Elements,     \* sequence of [text, images, row, x], the images of a
                        \* text being the sheet of its font
          Sheets,       \* the sheets of the fonts of the page
          MaxToggles    \* bound: how often motion is switched

Image == Sheets \cup UNION {Elements[e].images : e \in DOMAIN Elements}
\* The font of a text has its sheet among those of the page.
PageAssumption ==
    /\ Elements \in Seq([text : BOOLEAN, images : SUBSET Image, row : Int, x : Int])
    /\ \A e \in DOMAIN Elements : Elements[e].text => Elements[e].images \subseteq Sheets
    /\ MaxToggles \in Nat

VARIABLES images,   \* imgCache and what came of the images in it
          builds,   \* builds that run: the element each waits at, 0 for the
                    \* sheets, and what it has made
          els,      \* what the page shows, in this order
          motion, toggles,
          hasty     \* history: motion was last switched while a build ran
vars == <<images, builds, els, motion, toggles, hasty>>

\* A bug: who waits for an image that is not there waits for ever.
SettledIfLoaded(i) == images[i] = "ok"
Settled(i) == images[i] \in {"ok", "bad"}
Frames(e)  == {i \in Elements[e].images : images[i] = "ok"}

\* What is waited for before element e, and is asked for when e is reached.
Awaited(e) == IF e = 0 THEN Sheets ELSE IF Elements[e].text THEN {} ELSE Elements[e].images
Asked(e)   == [i \in Image |-> IF i \in Awaited(e) /\ images[i] = "none" THEN "loading" ELSE images[i]]

\* A text whose sheet is missing is left out, a gif is made of what there is.
Makeable(e) == Elements[e].text => Frames(e) # {}
Element(e)  == [el |-> e, frames |-> Frames(e), motion |-> motion]

Before(d, e) ==
    \/ Elements[d].row < Elements[e].row
    \/ Elements[d].row = Elements[e].row /\ Elements[d].x < Elements[e].x
    \/ Elements[d].row = Elements[e].row /\ Elements[d].x = Elements[e].x /\ d < e

\* What the sort returns, stated by its contract: what was made, each once, in
\* order. There is one such sequence, since Before orders all elements.
ReadingOrder(made) ==
    {s \in [1 .. Cardinality(made) -> made] :
        /\ \A m \in made : \E k \in DOMAIN s : s[k] = m
        /\ \A j, k \in DOMAIN s : j < k => Before(s[j].el, s[k].el)}

Init ==
    /\ builds = <<[at |-> 0, made |-> {}]>>
    /\ images = [i \in Image |-> IF i \in Sheets THEN "loading" ELSE "none"]
    /\ els = <<>> /\ motion \in BOOLEAN /\ toggles = 0 /\ hasty = FALSE

------------------------------------------------------------------------------
(* A build goes on as soon as what it waits for is settled; nothing else      *)
(* happens before it does.                                                    *)

CanGoOn(b) == \A i \in Awaited(builds[b].at) : Settled(i)
Quiet == \A b \in DOMAIN builds : ~CanGoOn(b)

Made(b) == LET e == builds[b].at IN
    builds[b].made \cup (IF e > 0 /\ Makeable(e) THEN {Element(e)} ELSE {})

GoOn(b) ==
    /\ CanGoOn(b)
    /\ \/ /\ builds[b].at < Len(Elements)
          /\ builds' = [builds EXCEPT ![b] = [at |-> @.at + 1, made |-> Made(b)]]
          /\ images' = Asked(builds[b].at + 1)
          /\ UNCHANGED els
       \/ /\ builds[b].at = Len(Elements)
          /\ builds' = RemoveAt(builds, b)
          /\ \E s \in ReadingOrder(Made(b)) : els' = els \o s
          /\ UNCHANGED images
    /\ UNCHANGED <<motion, toggles, hasty>>

ImageSettles(i) ==
    /\ Quiet /\ images[i] = "loading"
    /\ \E came \in {"ok", "bad"} : images' = [images EXCEPT ![i] = came]
    /\ UNCHANGED <<builds, els, motion, toggles, hasty>>

\* A bug: what the page shows is left there.
SetMotionKeeping ==
    /\ motion' = ~motion /\ images' = Asked(0) /\ UNCHANGED els
    /\ builds' = Append(builds, [at |-> 0, made |-> {}])

\* setMotion: the page is cleared and built again; a build that runs is not
\* stopped.
SetMotion ==
    /\ motion' = ~motion /\ images' = Asked(0) /\ els' = <<>>
    /\ builds' = Append(builds, [at |-> 0, made |-> {}])

ToggleMotion ==
    /\ Quiet /\ toggles < MaxToggles
    /\ SetMotion
    /\ toggles' = toggles + 1 /\ hasty' = (builds # <<>>)

Next ==
    \/ \E b \in DOMAIN builds : GoOn(b)
    \/ \E i \in Image : ImageSettles(i)
    \/ ToggleMotion

\* The browser runs what is ready, and every image loads or fails.
Fairness ==
    /\ WF_vars(\E b \in DOMAIN builds : GoOn(b))
    /\ \A i \in Image : WF_vars(ImageSettles(i))

Spec == Init /\ [][Next]_vars /\ Fairness
------------------------------------------------------------------------------

TypeOK ==
    /\ images \in [Image -> {"none", "loading", "ok", "bad"}]
    /\ \A b \in DOMAIN builds : builds[b].at \in 0 .. Len(Elements)
    /\ \A k \in DOMAIN els : els[k].el \in DOMAIN Elements
    /\ motion \in BOOLEAN /\ toggles \in 0 .. MaxToggles /\ hasty \in BOOLEAN

\* When nothing is being built the page shows every element that can be shown,
\* once, with the frames that are there, moving or still as was chosen last,
\* and in reading order - whatever switches and failures came before, unless
\* the last switch came while a build was running.
PageComplete ==
    builds = <<>> /\ ~hasty =>
        /\ {els[k].el : k \in DOMAIN els} = {e \in DOMAIN Elements : Makeable(e)}
        /\ \A k \in DOMAIN els : els[k] = Element(els[k].el)
        /\ \A j, k \in DOMAIN els : j < k => Before(els[j].el, els[k].el)

\* Builds come to an end, also when images do not.
BuildsEnd == builds # <<>> ~> builds = <<>>
=============================================================================
