------------------------------- MODULE HspText -------------------------------
(* How the renderer of Hypnospace pages (hsptohtml/README/lib/hsp.js) turns   *)
(* the text of an element into lines and glyphs, and its links into anchors:  *)
(* escapes, words, wrapping, heights, alignment. A text is a sequence of      *)
(* characters; one that replaceText writes is named for what it shows.        *)
EXTENDS Integers, Sequences, FiniteSets, SequencesExt

------------------------------------------------------------------------------
(* Escapes: /n, /t and /p, in small letters or capitals, and doubled forms    *)
(* that stand for themselves.                                                 *)

\* Every occurrence of pattern, from the left, replaced by text.
Replace(s, pattern, text) ==
    LET k == Len(pattern)
        f[i \in 1 .. Len(s) + 1] ==
            IF i > Len(s) THEN <<>>
            ELSE IF i + k - 1 <= Len(s) /\ SubSeq(s, i, i + k - 1) = pattern THEN text \o f[i + k]
            ELSE <<s[i]>> \o f[i + 1]
    IN  f[1]

Cases(c) == CASE c = "n" -> {"n", "N"} [] c = "t" -> {"t", "T"} [] c = "p" -> {"p", "P"}
Held(x)  == <<"held " \o x>>    \* what stands for a doubled form meanwhile
ShownAs(c, player) == CASE c = "n" -> <<"newline">> [] c = "t" -> <<"tab">> [] c = "p" -> <<"player">> \o player

\* The doubled forms are put aside and the single ones expanded.
Expand(s, c, player) ==
    LET doubled(t, x) == Replace(t, <<"/", "/", x>>, Held(x))
        single(t, x)  == Replace(t, <<"/", x>>, ShownAs(c, player))
    IN  FoldLeft(single, FoldLeft(doubled, s, SetToSeq(Cases(c))), SetToSeq(Cases(c)))

\* replaceText: the forms in turn, and then what was put aside comes back.
ReplaceText(s, player) ==
    LET expand(t, c)  == Expand(t, c, player)
        restore(t, x) == Replace(t, Held(x), <<"/", x>>)
    IN  FoldLeft(restore, FoldLeft(expand, s, <<"n", "t", "p">>), <<"n", "N", "t", "T", "p", "P">>)

------------------------------------------------------------------------------
(* Fonts and words. A font has the width of each character, what is between   *)
(* them, the height of its glyphs and what is between lines.                  *)

\* The glyphs of a text are apart, and there is nothing after the last one.
Measure(font, text) ==
    LET w == FoldLeft(LAMBDA n, c : n + font.width[c] + font.spacing, 0, text)
    IN  IF w > 0 THEN w - font.spacing ELSE 0

TrimRight(s) ==
    LET kept == {i \in DOMAIN s : s[i] # " "}
    IN  SubSeq(s, 1, IF kept = {} THEN 0 ELSE CHOOSE i \in kept : \A j \in kept : j <= i)

\* Where the word that begins at i ends: after spaces that follow a space or a
\* hyphen; a newline is a word of its own.
WordEnd(text, i) ==
    LET spaces(j) == CHOOSE k \in j .. Len(text) :
                        /\ \A x \in j + 1 .. k : text[x] = " "
                        /\ k < Len(text) => text[k + 1] # " "
        f[j \in i .. Len(text)] ==
            IF text[j] \in {" ", "-"} THEN spaces(j)
            ELSE IF j = Len(text) \/ text[j + 1] = "newline" THEN j
            ELSE f[j + 1]
    IN  IF text[i] = "newline" THEN i ELSE f[i]

Tokenise(text) ==
    LET f[i \in 1 .. Len(text) + 1] ==
            IF i > Len(text) THEN <<>>
            ELSE <<SubSeq(text, i, WordEnd(text, i))>> \o f[WordEnd(text, i) + 1]
    IN  f[1]

------------------------------------------------------------------------------
(* Wrapping *)

Fits(font, s, width) == Measure(font, TrimRight(s)) <= width
Line(font, s) == [text |-> s, width |-> Measure(font, TrimRight(s))]

\* A bug: the word that does not fit any more is lost.
WrapWordDropped(font, width, st, w) ==
    LET cur == st.cur \o w IN
    CASE w = <<"newline">> -> IF st.ignore THEN [st EXCEPT !.cur = <<>>, !.ignore = FALSE]
                              ELSE [lines |-> Append(st.lines, Line(font, st.cur)), cur |-> <<>>, ignore |-> FALSE]
      [] OTHER -> IF Fits(font, cur, width) THEN [st EXCEPT !.cur = cur, !.ignore = FALSE]
                  ELSE [lines |-> Append(st.lines, Line(font, st.cur)), cur |-> <<>>, ignore |-> FALSE]

\* One word more. One that is too long for a line has a line to itself, and a
\* newline after it makes no empty line.
WrapWord(font, width, st, w) ==
    LET cur == st.cur \o w IN
    CASE w = <<"newline">> -> IF st.ignore THEN [st EXCEPT !.cur = <<>>, !.ignore = FALSE]
                              ELSE [lines |-> Append(st.lines, Line(font, st.cur)), cur |-> <<>>, ignore |-> FALSE]
      [] w # <<"newline">> /\ Fits(font, cur, width) -> [st EXCEPT !.cur = cur, !.ignore = FALSE]
      [] OTHER -> IF st.cur = <<>> THEN [lines |-> Append(st.lines, Line(font, w)), cur |-> <<>>, ignore |-> TRUE]
                  ELSE [lines |-> Append(st.lines, Line(font, st.cur)), cur |-> w, ignore |-> FALSE]

Wrap(font, text, width) ==
    IF text = <<>> \/ width <= 2 THEN <<>>
    ELSE IF Measure(font, text) <= width /\ ~Contains(text, "newline")
    THEN <<[text |-> text, width |-> Measure(font, text)]>>
    ELSE LET st == FoldLeft(LAMBDA s, w : WrapWord(font, width, s, w),
                            [lines |-> <<>>, cur |-> <<>>, ignore |-> FALSE], Tokenise(text))
         IN  IF TrimRight(st.cur) = <<>> THEN st.lines ELSE Append(st.lines, Line(font, st.cur))

------------------------------------------------------------------------------
(* Glyphs *)

TextHeight(font, n) ==
    n * (font.ch + font.lineheight) - (IF font.lineheight < 0 THEN font.lineheight ELSE 0)

\* The top of line i: the first one is moved down by a positive gap only.
LineTop(font, i) == (i - 1) * font.ch + (IF font.lineheight > 0 THEN i ELSE i - 1) * font.lineheight

InBox(x, w, boxW) == x + w <= boxW

\* The left ends of the glyphs of a line that are painted, in half pixels: up
\* to the first one that does not fit. align is 0, 1 or 2.
GlyphsOf(font, line, boxW, align) ==
    LET f[i \in 1 .. Len(line.text) + 1, x \in Int] ==
            IF i > Len(line.text) THEN <<>>
            ELSE LET w == 2 * font.width[line.text[i]] IN
                 IF ~InBox(x, w, 2 * boxW) THEN <<>>
                 ELSE <<[ch |-> line.text[i], x |-> x]>> \o f[i + 1, x + w + 2 * font.spacing]
    IN  f[1, align * (IF boxW > line.width THEN boxW - line.width ELSE 0)]

------------------------------------------------------------------------------
(* Links. A link leads out, to a page, to a height of this page or nowhere.   *)

\* The height an in-page link leads to, or -1; heights are in half pixels.
Round(h) == (h + 1) \div 2
LinkTarget(link) ==
    IF ~link.url /\ ~link.page /\ link.anchor >= 0 THEN Round(link.anchor) ELSE -1

\* anchors: the ids that are put into the page, in the order of the elements.
Anchors(links) ==
    LET wanted == SelectSeq(links, LAMBDA l : l.anchor >= 0 /\ ~l.page)
        first  == {i \in DOMAIN wanted : \A j \in 1 .. i - 1 : Round(wanted[j].anchor) # Round(wanted[i].anchor)}
    IN  [k \in 1 .. Cardinality(first) |-> Round(wanted[SetToSortSeq(first, <)[k]].anchor)]
=============================================================================
