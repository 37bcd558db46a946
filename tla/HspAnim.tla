------------------------------- MODULE HspAnim -------------------------------
(* What moves on a Hypnospace page (hsptohtml/README/lib/hsp.js): the tick of *)
(* a text - typewriter, marquee, colours that change - and of a gif - frames, *)
(* hover and press frames, dither. Every animation frame ticks every element; *)
(* the time of the first one is counted from the call of animate, and may be  *)
(* nothing, or less than nothing. A tick advances a timer or an offset by     *)
(* what the speed of the element makes of the time that has passed.           *)
EXTENDS Integers, Sequences

CONSTANTS TextLength, Pause, LongPause,    \* 100 and 800 in the code
          PageWidth, TextWidth,         \* 300, and the width of the marquee
          MixMax,                       \* 100: the second colour
          Quarter,                      \* parts of a frame in which acc counts
          Steps                         \* advances of a tick, all positive

\* No frame counts for more than a tenth of a second (hsp.js:792), in which no
\* dither goes round.
AnimAssumption ==
    /\ {TextLength, Pause, LongPause, PageWidth, TextWidth} \subseteq Nat
    /\ {MixMax, Quarter} \subseteq Nat \ {0} /\ Steps \subseteq 1 .. 2 * MixMax

VARIABLES text, gif, warm   \* warm: the first frame is over
vars == <<text, gif, warm>>

Least(a, b)    == IF a < b THEN a ELSE b
Greatest(a, b) == IF a > b THEN a ELSE b
Clamp(lo, hi, n) == Greatest(lo, Least(hi, n))

\* Texts: anim 1 is the typewriter, 3 the marquee, 0 stands still.
TextOf(anim) ==
    [anim |-> anim, phase |-> IF anim = 3 THEN TextWidth ELSE 0,
     shown |-> IF anim = 1 THEN 0 ELSE TextLength, timer |-> Pause,
     offset |-> IF anim = 3 THEN PageWidth ELSE 0,
     mix |-> 0, dir |-> 1]

\* Gifs: mode 0 plays by itself, 1 while it is hovered over, -1 stands still,
\* -2 has a frame for hover and one for press.
Modes == {-2, -1, 0, 1}
StartFrame(g) == IF g.mode = 0 THEN Greatest(0, g.first) % g.frames
                 ELSE Clamp(0, g.frames - 1, g.first)
GifOf(mode, moving, frames, first, fps) ==
    LET g == [mode |-> mode, moving |-> moving, frames |-> frames, first |-> first, fps |-> fps,
              i |-> 0, acc |-> 0, hover |-> FALSE, held |-> FALSE, dither |-> 0]
    IN  [g EXCEPT !.i = StartFrame(g)]

Init ==
    /\ text \in {TextOf(anim) : anim \in {0, 1, 3}}
    /\ gif \in {GifOf(m, moving, n, f, fps) : m \in Modes, moving \in BOOLEAN, n \in {1, 3}, f \in {0, 2}, fps \in {0, 3}}
    /\ warm = FALSE

------------------------------------------------------------------------------
(* Texts *)

\* The timer of the typewriter has run out: a letter more, a rest, or a letter
\* less.
TypeNext(t) ==
    CASE t.phase < TextLength -> [t EXCEPT !.timer = Pause, !.phase = @ + 1, !.shown = t.phase + 1]
      [] t.phase = TextLength -> [t EXCEPT !.timer = LongPause, !.phase = @ + 1]
      [] t.phase > TextLength ->
            IF t.phase + 1 >= 2 * TextLength THEN [t EXCEPT !.timer = LongPause, !.phase = 0, !.shown = 0]
            ELSE [t EXCEPT !.timer = Pause, !.phase = @ + 1, !.shown = Greatest(0, 2 * TextLength - t.phase)]

Type(t, k) == IF t.timer - k > 0 THEN [t EXCEPT !.timer = @ - k] ELSE TypeNext(t)
\* The letters are painted again when one has come or gone; at the rest that
\* follows the last one they are not.
Repaint(t, k) == t.anim = 1 /\ t.timer - k <= 0 /\ t.phase # TextLength

Scroll(t, k) == IF t.offset - k < -t.phase THEN [t EXCEPT !.offset = PageWidth]
                ELSE [t EXCEPT !.offset = @ - k]

\* A bug: the colour turns back at one end only.
MixOneWay(t, k) == LET m == Clamp(0, MixMax, t.mix + t.dir * k) IN
    [t EXCEPT !.mix = m, !.dir = IF m = MixMax THEN -t.dir ELSE t.dir]

\* The colour goes to the other one and back.
Mix(t, k) == LET m == Clamp(0, MixMax, t.mix + t.dir * k) IN
    [t EXCEPT !.mix = m, !.dir = IF m = MixMax \/ m = 0 THEN -t.dir ELSE t.dir]

\* A tick that repaints the letters leaves the colour for the next one.
TickText(t, k) ==
    LET u == CASE t.anim = 1 -> Type(t, k) [] t.anim = 3 -> Scroll(t, k) [] OTHER -> t
    IN  IF Repaint(t, k) THEN u ELSE Mix(u, k)

------------------------------------------------------------------------------
(* Gifs *)

SetFrame(g, i) == [g EXCEPT !.i = Clamp(0, g.frames - 1, i)]

Advance(g, k, fps) ==
    LET acc == g.acc + k * fps IN
    IF acc < Quarter THEN [g EXCEPT !.acc = acc]
    ELSE SetFrame([g EXCEPT !.acc = acc % Quarter], (g.i + acc \div Quarter) % g.frames)

Pressed(g) == IF g.held THEN 2 ELSE IF g.hover THEN 1 ELSE 0

\* On a still page only hover and press show other frames.
Frame(g, k) ==
    CASE g.mode = -2 -> SetFrame(g, StartFrame(g) + Pressed(g))
      [] g.mode > 0 -> IF g.hover THEN Advance(g, k, 15) ELSE SetFrame(g, StartFrame(g))
      [] g.mode = -1 -> SetFrame(g, StartFrame(g))
      [] g.mode = 0 -> IF ~g.moving THEN SetFrame(g, StartFrame(g))
                       ELSE IF g.fps > 0 /\ g.frames > 1 THEN Advance(g, k, g.fps) ELSE g

\* From opaque to transparent and back, in MixMax steps each way.
Dither(g, k) ==
    IF ~g.moving THEN g
    ELSE [g EXCEPT !.dither = IF @ + k >= 2 * MixMax THEN @ + k - 2 * MixMax ELSE @ + k]
Opacity(g) == Clamp(0, MixMax, IF g.dither >= MixMax THEN g.dither - MixMax ELSE MixMax - g.dither)

Tick ==
    \E k \in Steps \cup (IF warm THEN {} ELSE {-1, 0}) :
        /\ text' = TickText(text, k)
        /\ gif' = Frame(Dither(gif, k), k)
        /\ warm' = TRUE

\* Pointer and focus events of a gif.
Point ==
    /\ \/ gif' = [gif EXCEPT !.hover = TRUE]                    \* enter, focus
       \/ gif' = [gif EXCEPT !.hover = FALSE, !.held = FALSE]   \* leave, blur
       \/ gif.hover /\ gif' = [gif EXCEPT !.held = ~@]          \* down, up
    /\ UNCHANGED <<text, warm>>

Next == Tick \/ Point

\* Animation frames come while the page is looked at.
Spec == Init /\ [][Next]_vars /\ WF_vars(Tick)
------------------------------------------------------------------------------

\* What is shown stays within the text, the page, the colours and the frames,
\* also after a first frame of no or negative time.
TypeOK ==
    /\ text.shown \in 0 .. TextLength /\ text.phase >= 0
    /\ text.offset >= -TextWidth /\ text.offset <= PageWidth + 1
    /\ text.mix \in 0 .. MixMax /\ text.dir \in {-1, 1}
    /\ gif.i \in 0 .. gif.frames - 1 /\ gif.acc < Quarter /\ gif.dither < 2 * MixMax
    /\ Opacity(gif) \in 0 .. MixMax /\ warm \in BOOLEAN

\* A typewriter shows its whole text again and again, and so do the colours of
\* a text both ends, whatever a first frame did to the direction.
WholeTextAgain == []<>(text.shown = TextLength)
ColoursAgain   == []<>(text.mix = 0) /\ []<>(text.mix = MixMax)

\* A still page does not move by itself: a gif that is not pointed at shows the
\* frame it began with after each tick.
StillIsStill ==
    [][Tick /\ ~gif.moving /\ ~gif.hover /\ ~gif.held => gif'.i = StartFrame(gif)]_vars
=============================================================================
