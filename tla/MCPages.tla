------------------------------- MODULE MCPages -------------------------------
(* Instances of the pages of the site for TLC, and the properties of their    *)
(* pure parts.                                                                *)
EXTENDS Pages

------------------------------------------------------------------------------
(* The game: four words, two of which are one to the game; links of every     *)
(* kind; two challenges of one day.                                           *)

L(w, s) == [to |-> w, site |-> s, wikipedia |-> FALSE, external |-> FALSE]
MCWord  == {"a", "A", "b", "c"}
MCLower == [w \in MCWord |-> IF w = "A" THEN "a" ELSE w]
MCLinks == [w \in MCWord |->
    CASE w = "a" -> {L("b", "internal"), [L("c", "elsewhere") EXCEPT !.wikipedia = TRUE]}
      [] w = "b" -> {L("c", "wiktionary"), L("A", "internal")}
      [] w = "c" -> {L("A", "internal"), L("b", "internal")}
      [] w = "A" -> {[L("b", "internal") EXCEPT !.external = TRUE]}]
MCDaily == <<[date |-> 1, start |-> "a", target |-> "c"], [date |-> 1, start |-> "b", target |-> "c"],
             [date |-> 2, start |-> "c", target |-> "a"]>>
MCPractised == {<<"a", "c">>, <<"c", "A">>}

\* A Hypnospace page of four elements, two of them gifs that share an image.
El(words, is, row, x) == [text |-> words, images |-> is, row |-> row, x |-> x]
MCElements == <<El(FALSE, {"i", "j"}, 2, 0), El(TRUE, {"f"}, 1, 5), El(TRUE, {"g"}, 1, 5), El(FALSE, {"j"}, 1, 0)>>

------------------------------------------------------------------------------
(* What the game offers *)

Offers == {None} \cup MCWord
Distinct(v, w) == v # None /\ w # None /\ MCLower[v] # MCLower[w]

\* What the random challenge offers: words that were fetched and differ in more
\* than capitals, and something whenever one attempt brought such a pair; a
\* word comes of the first attempt that brings one that is wanted.
WordsOffered == live = "laws" =>
    /\ \A pairs \in UNION {[1 .. n -> Offers \X Offers] : n \in 0 .. 2} :
        LET r == RandomChallenge(pairs) IN
        /\ r # <<>> => /\ Distinct(r[1], r[2])
                       /\ \A k \in {1, 2} : \E i \in DOMAIN pairs : r[k] = pairs[i][k]
        /\ r = <<>> => ~ \E i \in DOMAIN pairs : Distinct(pairs[i][1], pairs[i][2])
    /\ \A at \in UNION {[1 .. n -> Fetch] : n \in 0 .. 2}, english \in BOOLEAN :
        LET i == RandomWord(at, english) IN
        /\ i # 0 => IsWord(at[i], english)
        /\ \A j \in DOMAIN at : IsWord(at[j], english) => i # 0 /\ i <= j

------------------------------------------------------------------------------
(* Text of Hypnospace pages: characters a, b, hyphen and space. *)

Font == [width |-> [c \in {"a", "-", " ", "newline"} |-> IF c = "a" THEN 2 ELSE 1],
         spacing |-> 1, ch |-> 4, lineheight |-> 1]
Fonts == {[Font EXCEPT !.spacing = s, !.lineheight = h] : s \in {0, 1}, h \in {-1, 0, 2}}
Texts(chars, n) == UNION {[1 .. k -> chars] : k \in 0 .. n}
Joined(ss) == LET f[i \in 0 .. Len(ss)] == IF i = 0 THEN <<>> ELSE f[i - 1] \o ss[i] IN f[Len(ss)]

Units == {<<"a">>, <<"n">>, <<"/", "n">>, <<"/", "N">>, <<"/", "/", "n">>, <<"/", "t">>, <<"/", "/", "T">>,
          <<"/", "p">>, <<"/", "/", "p">>}
Meaning(u) ==
    CASE u \in {<<"/", "n">>, <<"/", "N">>} -> <<"newline">>
      [] u = <<"/", "t">>      -> <<"tab">>
      [] u = <<"/", "p">>      -> <<"player", "/", "t">>
      [] u = <<"/", "/", "n">> -> <<"/", "n">>
      [] u = <<"/", "/", "T">> -> <<"/", "T">>
      [] u = <<"/", "/", "p">> -> <<"/", "p">>
      [] OTHER                 -> u

\* Every escape means the same whatever it stands between, a doubled form is
\* the form itself, and the name of the player, which is put in last, is not
\* read for escapes.
EscapesUndone == live = "laws" =>
    \A us \in Texts(Units, 3) :
        HT!ReplaceText(Joined(us), <<"/", "t">>) = Joined([i \in DOMAIN us |-> Meaning(us[i])])

Ink(s) == SelectSeq(s, LAMBDA c : c \notin {" ", "newline"})

\* Wrapping loses no letter and changes no order, and a line is wider than the
\* box only where it is one word.
LinesKeepText == live = "laws" =>
    \A t \in Texts({"a", "-", " ", "newline"}, 5), w \in {3, 5, 7} :
        LET ls == HT!Wrap(Font, t, w) IN
        /\ Ink(Joined([i \in DOMAIN ls |-> ls[i].text])) = Ink(t)
        /\ \A i \in DOMAIN ls : ls[i].width <= w \/ \E k \in DOMAIN HT!Tokenise(t) : HT!Tokenise(t)[k] = ls[i].text

\* The glyphs of a line are within the box, all of them where the line fits,
\* and the lines fill the height that is reserved for them exactly.
GlyphsInside == live = "laws" =>
    \A f \in Fonts :
        /\ \A t \in Texts({"a", " ", "-"}, 4), w \in {3, 6}, al \in 0 .. 2 :
            \A i \in DOMAIN HT!Wrap(f, t, w) :
                LET l == HT!Wrap(f, t, w)[i]
                    g == HT!GlyphsOf(f, l, w, al)
                    s == HT!TrimRight(l.text)
                IN  /\ \A k \in DOMAIN g : 0 <= g[k].x /\ g[k].x + 2 * f.width[g[k].ch] <= 2 * w
                    /\ l.width <= w => /\ Len(s) <= Len(g)
                                       /\ \A k \in DOMAIN s : g[k].ch = s[k]
        /\ \A n \in 1 .. 3 : HT!LineTop(f, n) + f.ch = HT!TextHeight(f, n)

\* Every link within the page leads to an anchor there is, and no anchor is
\* there twice.
AnchorsResolve == live = "laws" =>
    \A ls \in Texts([url : BOOLEAN, page : BOOLEAN, anchor : {-1, 3, 4, 7}], 3) :
        LET a == HT!Anchors(ls) IN
        /\ \A i \in DOMAIN ls : HT!LinkTarget(ls[i]) # -1 => \E k \in DOMAIN a : a[k] = HT!LinkTarget(ls[i])
        /\ \A i, j \in DOMAIN a : a[i] = a[j] => i = j

\* The pure parts: words that are fetched, escapes, lines, glyphs and anchors.
TextLaws == WordsOffered /\ EscapesUndone /\ LinesKeepText /\ GlyphsInside /\ AnchorsResolve
==============================================================================
