----------------------------- MODULE RoomProofs -----------------------------
(* Whatever users, channels and timers do in a shared race, the host's roster *)
(* is right, nobody starts early, the host knows who has finished, and a      *)
(* guest that nothing is on its way to or from has the host's lobby; for any  *)
(* number of guests, fake players, clicks, starts and messages. The inductive *)
(* invariant is Inv, of six parts. The first five are about types, the roster,*)
(* the hush before a race, the lobbies that messages carry, and reports. The  *)
(* last one, Chained, follows the host's lobby through the messages that are  *)
(* on their way to a guest, one after the other.                              *)
EXTENDS Room, SequenceTheorems, WellFoundedInduction, TLAPS

------------------------------------------------------------------------------
(* Naturals *)

\* The order of the naturals, as a relation: what WFMin needs to find a least one.
LEMMA LessIsWellFounded == \E R : IsWellFoundedOn(R, Nat) /\ \A x, y \in Nat : x < y => <<x, y>> \in R
<1>1. IsWellFoundedOn(OpToRel(<, Nat), Nat)
  BY NatLessThanWellFounded, Zenon
<1>2. \A x, y \in Nat : x < y => <<x, y>> \in OpToRel(<, Nat)
  BY Zenon DEF OpToRel
<1> QED
  BY <1>1, <1>2, Zenon

\* A set of naturals that is not empty has a least member.
LEMMA LeastOf ==
    ASSUME NEW S \in SUBSET Nat, S # {}
    PROVE  \E i \in S : \A j \in S : i <= j
<1>1. PICK R : IsWellFoundedOn(R, Nat) /\ \A x, y \in Nat : x < y => <<x, y>> \in R
  BY LessIsWellFounded
<1>2. S \subseteq Nat /\ IsWellFoundedOn(R, Nat)
  BY <1>1
<1>3. \E i \in S : \A j \in S : ~ (<<j, i>> \in R)
  BY <1>2, WFMin, Zenon
<1>4. PICK i \in S : \A j \in S : ~ (<<j, i>> \in R)
  BY <1>3
<1>5. ASSUME NEW j \in S PROVE i <= j
  <2>1. ~ (j < i)
    BY <1>1, <1>4
  <2> QED
    BY <1>2, <2>1
<1> QED
  BY <1>5

------------------------------------------------------------------------------
(* The invariant *)

\* What a page shows.
GameType == [screen : {"home", "lobby", "game"}, playing : BOOLEAN, clicks : Nat, timer : BOOLEAN, modal : BOOLEAN]

\* The messages on a channel, those to a guest, and those to the host.
Messages(q) == {q[i] : i \in DOMAIN q}
ForGuest ==
    [k : {"lobby-state"}, lobby : LobbyType]
    \cup [k : {"game-start"}, challenge : Challenge \cup {None}, countdown : 0 .. 3]
    \cup [k : {"countdown-tick"}, countdown : 0 .. 3]
    \cup [k : {"player-move", "player-finish"}, id : Browser, clicks : Nat]
    \cup [k : {"game-begin", "player-disconnect"}]
ForHost ==
    [k : {"ready-toggle"}, ready : BOOLEAN]
    \cup [k : {"player-move", "player-finish"}, id : Guest, clicks : Nat]
    \cup [k : {"player-info", "player-disconnect"}]

\* How far a connection has come.
Conns == {"none", "offered", "accepting", "accepted", "completed", "open", "closed"}

\* What there is has its type, on the channels and in the codes as well,
\* and a guest reports of itself only.
Carried ==
    /\ lobby \in [Browser -> LobbyType] /\ game \in [Browser -> GameType] /\ code \in [Guest -> LobbyType]
    /\ gone \subseteq Browser /\ peers \subseteq Guest /\ bots \subseteq Fake
    /\ conn \in [Guest -> Conns]
    /\ toGuest \in [Guest -> Seq(ForGuest)] /\ toHost \in [Guest -> Seq(ForHost)]
    /\ \A g \in Guest : \A m \in Messages(toHost[g]) : m.k \in {"player-move", "player-finish"} => m.id = g
    /\ ticks \in Seq(1 .. 3) /\ starts \in Nat /\ Len(ticks) <= starts
    /\ strays \in [Guest -> Nat]

\* No id but those of S is twice in a lobby.
Apart(L, S) == \A i, j \in DOMAIN L.players : L.players[i].id = L.players[j].id => i = j \/ L.players[i].id \in S

\* The guests to whom the host has a connection whose code was not written.
Strayed == {g \in Guest : strays[g] > 0}

\* The connections that the host does not count yet.
Early == {"none", "offered", "accepting"}

\* The host's lobby is of itself, of the guests it holds a connection to
\* and of fake players, or there is no room yet. Who is not counted yet has no
\* lobby, and is a peer only by a connection that went astray; a host that has left starts nothing.
Roster ==
    /\ \A g \in Guest : conn[g] \in Early => (g \in peers => strays[g] > 0) /\ code[g] = Empty /\ lobby[g] = Empty
    /\ \A g \in Guest : conn[g] = "none" => strays[g] = 0
    /\ bots \subseteq Ids(lobby[Host])
    /\ Host \in gone => ~ lobby[Host].started
    /\ Host \notin gone =>
         \/ lobby[Host] = Empty /\ peers = {} /\ ticks = <<>> /\ \A g \in Guest : conn[g] = "none"
         \/ Apart(lobby[Host], Strayed) /\ Ids(lobby[Host]) \ Fake = {Host} \cup peers

\* A lobby that starts no race in the page that is told of it, and a message that
\* makes none.
Calm(L) == L.started => L.countdown # Null
CalmMsg(m) == m.k # "game-begin" /\ (m.k = "lobby-state" => Calm(m.lobby))

\* No race has been started, or the first one is counted down.
Waiting == starts = 0 \/ (starts = 1 /\ ticks # <<>>)

\* Until then nobody races, and nothing on its way or in a code begins a race.
Hush ==
    Waiting =>
        /\ \A b \in Browser : ~ game[b].playing /\ Calm(lobby[b])
        /\ \A g \in Guest : Calm(code[g]) /\ \A m \in Messages(toGuest[g]) : CalmMsg(m)

\* A lobby that is sent, taken from a code or used over a connection has
\* players, so that the guest takes the messages; and a guest that is not connected
\* is in no race.
Peopled ==
    \A g \in Guest :
        /\ conn[g] \in {"completed", "open"} => lobby[g].players # <<>>
        /\ code[g] = Empty \/ code[g].players # <<>>
        /\ \A m \in Messages(toGuest[g]) : m.k = "lobby-state" => m.lobby.players # <<>>
        /\ toGuest[g] # <<>> => conn[g] \in {"open", "closed"}
        /\ conn[g] \notin {"open", "closed"} => game[g].screen # "game" /\ (game[g].playing => game[g].timer)

\* The entry that is found of p has finished.
Done(L, p) == \A i \in DOMAIN L.players : L.players[i].id = p /\ Found(L, i) => L.players[i].finished

\* In the first race, a guest that has come to the target is finished for
\* the host, or its report is on its way.
Reported ==
    \A g \in Guest : (starts = 1 /\ conn[g] = "open" /\ g \in peers /\ Host \notin gone /\ game[g].playing /\ ~game[g].timer)
         => \/ \E m \in Messages(toHost[g]) : m.k = "player-finish"
            \/ Done(lobby[Host], g)

\* Guest g, with the lobby G, is shown the lobby H: the players it has are those of H
\* but for fake ones at the end; and of fake players, and of what it has come to
\* itself, it may know other things.
Shown(g, G, H) ==
    /\ G.challenge = H.challenge /\ G.started = H.started /\ G.countdown = H.countdown
    /\ Len(G.players) <= Len(H.players)
    /\ \A i \in DOMAIN H.players :
          IF i \in DOMAIN G.players
          THEN /\ G.players[i].id = H.players[i].id
               /\ H.players[i].id \in Fake \cup {g} \/ G.players[i] = H.players[i]
               /\ H.players[i].id = g => G.players[i].ready = H.players[i].ready
          ELSE H.players[i].id \in Fake

\* The host is going to send the whole lobby to all, since g has written to it.
Pending(g) == \E m \in Messages(toHost[g]) : m.k \in {"player-info", "ready-toggle"}

\* s are the lobbies of guest g, that has the lobby G, after the messages of q
\* from the k-th on, which is a whole lobby unless it is the first; and the last
\* one is the host's, H, as far as g is shown.
Chain(g, q, G, H, k, s) ==
    /\ k \in 0 .. Len(q) /\ s \in [k .. Len(q) -> LobbyType]
    /\ k = 0 => Shown(g, G, s[0])
    /\ k > 0 => q[k].k = "lobby-state" /\ Shown(g, q[k].lobby, s[k])
    /\ \A i \in k + 1 .. Len(q) : Shown(g, Applied(s[i - 1], q[i]), s[i])
    /\ Shown(g, s[Len(q)], H)

Linked(g, q, G, H) == \E k, s : Chain(g, q, G, H, k, s)

\* Unless the whole lobby is going to be sent, what is on its way to a
\* guest makes of its lobby the host's, as far as it is shown.
Chained ==
    /\ Host \notin gone => \A g \in Guest : \A m \in Messages(toGuest[g]) : m.k # "player-disconnect"
    /\ \A g \in Guest : conn[g] = "open" /\ g \in peers /\ Host \notin gone =>
         Pending(g) \/ Linked(g, toGuest[g], lobby[g], lobby[Host])

------------------------------------------------------------------------------
(* The players of a list that are in a set *)

\* Among(ps, P, m, f): f is what Those(ps, P) has collected of the first m.
Among(ps, P, m, f) ==
    f = [n \in 0 .. m |->
            IF n = 0 THEN <<>>
            ELSE IF ps[n].id \in P THEN Append(f[n - 1], ps[n]) ELSE f[n - 1]]

\* There is such a collection, for a list of any length.
LEMMA AmongExists ==
    ASSUME NEW ps, NEW P, NEW m \in Nat
    PROVE  \E f : Among(ps, P, m, f)
<1> DEFINE Bad == {n \in 0 .. m : ~ \E f : Among(ps, P, n, f)}
<1> SUFFICES ASSUME Bad # {} PROVE FALSE
  OBVIOUS
<1>1. Bad \in SUBSET Nat
  OBVIOUS
<1>2. PICK n \in Bad : \A j \in Bad : n <= j
  BY <1>1, LeastOf
<1>3. n # 0
  <2>1. Among(ps, P, 0, [i \in 0 .. 0 |-> <<>>])
    BY DEF Among
  <2> QED
    BY <1>2, <2>1
<1>4. n - 1 \in 0 .. m /\ n - 1 \notin Bad /\ n \in Nat
  BY <1>2, <1>3
<1>5. PICK f : Among(ps, P, n - 1, f)
  BY <1>4
<1> DEFINE g == [i \in 0 .. n |->
                   IF i < n THEN f[i]
                   ELSE IF ps[n].id \in P THEN Append(f[n - 1], ps[n]) ELSE f[n - 1]]
<1>6. Among(ps, P, n, g)
  <2>1. \A i \in 0 .. n - 1 : f[i] = IF i = 0 THEN <<>>
                                ELSE IF ps[i].id \in P THEN Append(f[i - 1], ps[i]) ELSE f[i - 1]
    BY <1>5, <1>4 DEF Among
  <2>2. \A i \in 0 .. n : g[i] = IF i = 0 THEN <<>>
                                ELSE IF ps[i].id \in P THEN Append(g[i - 1], ps[i]) ELSE g[i - 1]
    <3>1. \A i \in 0 .. n - 1 : g[i] = f[i]
      BY <1>4
    <3>2. g[n] = IF ps[n].id \in P THEN Append(g[n - 1], ps[n]) ELSE g[n - 1]
      BY <1>4, <1>3, <3>1
    <3> HIDE DEF g
    <3>3. ASSUME NEW i \in 0 .. n - 1, i # 0 PROVE g[i] = IF ps[i].id \in P THEN Append(g[i - 1], ps[i]) ELSE g[i - 1]
      <4>1. i - 1 \in 0 .. n - 1
        BY <1>4, <3>3
      <4> QED
        BY <2>1, <3>1, <3>3, <4>1
    <3>4. g[0] = <<>>
      BY <1>3, <1>4, <2>1, <3>1
    <3> QED
      BY <1>3, <1>4, <3>2, <3>3, <3>4
  <2>3. g = [i \in 0 .. n |-> g[i]]
    OBVIOUS
  <2> HIDE DEF g
  <2> QED
    BY <2>2, <2>3 DEF Among
<1> QED
  BY <1>2, <1>6

\* What is collected of the first m, by m.
LEMMA ThoseIs ==
    ASSUME NEW ps, Len(ps) \in Nat, NEW P
    PROVE  \E f : /\ Those(ps, P) = f[Len(ps)]
                  /\ f[0] = <<>>
                  /\ \A n \in 1 .. Len(ps) :
                        f[n] = IF ps[n].id \in P THEN Append(f[n - 1], ps[n]) ELSE f[n - 1]
<1> DEFINE f == CHOOSE h : Among(ps, P, Len(ps), h)
<1>1. Among(ps, P, Len(ps), f)
  BY AmongExists
<1>2. Those(ps, P) = f[Len(ps)]
  BY DEF Those, Among
<1> HIDE DEF f
<1>3. \A n \in 0 .. Len(ps) : f[n] = IF n = 0 THEN <<>>
                                ELSE IF ps[n].id \in P THEN Append(f[n - 1], ps[n]) ELSE f[n - 1]
  BY <1>1 DEF Among
<1>4. f[0] = <<>>
  BY <1>3
<1>5. \A n \in 1 .. Len(ps) : f[n] = IF ps[n].id \in P THEN Append(f[n - 1], ps[n]) ELSE f[n - 1]
  BY <1>3
<1> QED
  BY <1>2, <1>4, <1>5

\* Where what is collected comes from: rs are ps at the places h, in their order.
Picks(h, ps, P, m, rs) ==
    /\ h \in [1 .. Len(rs) -> 1 .. m]
    /\ \A i \in 1 .. Len(rs) : rs[i] = ps[h[i]] /\ ps[h[i]].id \in P
    /\ \A i, j \in 1 .. Len(rs) : i < j => h[i] < h[j]
    /\ \A k \in 1 .. m : ps[k].id \in P => \E i \in 1 .. Len(rs) : h[i] = k

\* The place m after the n places h.
Longer(h, n, m) == [i \in 1 .. n + 1 |-> IF i = n + 1 THEN m ELSE h[i]]

\* The next player is collected.
LEMMA PicksMore ==
    ASSUME NEW S, NEW ps \in Seq(S), NEW P, NEW m \in 1 .. Len(ps), NEW l, l = m - 1,
           NEW rs \in Seq(S), NEW h, Picks(h, ps, P, l, rs), ps[m].id \in P, NEW ss, ss = Append(rs, ps[m])
    PROVE  Picks(Longer(h, Len(rs), m), ps, P, m, ss)
<1> DEFINE g == Longer(h, Len(rs), m)
<1>1. /\ ss \in Seq(S) /\ Len(ss) = Len(rs) + 1 /\ Len(rs) \in Nat /\ m \in Nat
      /\ ss[Len(rs) + 1] = ps[m] /\ \A i \in 1 .. Len(rs) : ss[i] = rs[i]
  OBVIOUS
<1>2. /\ h \in [1 .. Len(rs) -> 1 .. m - 1]
      /\ \A i \in 1 .. Len(rs) : rs[i] = ps[h[i]] /\ ps[h[i]].id \in P
      /\ \A i, j \in 1 .. Len(rs) : i < j => h[i] < h[j]
      /\ \A k \in 1 .. m - 1 : ps[k].id \in P => \E i \in 1 .. Len(rs) : h[i] = k
  BY DEF Picks
<1>3. /\ g \in [1 .. Len(rs) + 1 -> 1 .. m] /\ g[Len(rs) + 1] = m
      /\ \A i \in 1 .. Len(rs) : g[i] = h[i]
  BY <1>1, <1>2 DEF Longer
<1> HIDE DEF g
<1>4. \A i \in 1 .. Len(rs) + 1 : ss[i] = ps[g[i]] /\ ps[g[i]].id \in P
  <2>1. \A i \in 1 .. Len(rs) + 1 : i \in 1 .. Len(rs) \/ i = Len(rs) + 1
    BY <1>1
  <2>2. ss[Len(rs) + 1] = ps[g[Len(rs) + 1]] /\ ps[g[Len(rs) + 1]].id \in P
    BY <1>1, <1>3
  <2>3. \A i \in 1 .. Len(rs) : ss[i] = ps[g[i]] /\ ps[g[i]].id \in P
    BY <1>1, <1>2, <1>3
  <2> QED
    BY <2>1, <2>2, <2>3
<1>5. \A i, j \in 1 .. Len(rs) + 1 : i < j => g[i] < g[j]
  <2> SUFFICES ASSUME NEW i \in 1 .. Len(rs) + 1, NEW j \in 1 .. Len(rs) + 1, i < j PROVE g[i] < g[j]
    OBVIOUS
  <2>1. i \in 1 .. Len(rs)
    BY <1>1
  <2>0. h[i] \in 1 .. m - 1
    BY <1>2, <2>1
  <2>2. CASE j \in 1 .. Len(rs)
    BY <1>2, <1>3, <2>1, <2>2
  <2>3. CASE j = Len(rs) + 1
    BY <1>1, <1>3, <2>0, <2>1, <2>3
  <2> QED
    BY <1>1, <2>2, <2>3
<1>6. \A k \in 1 .. m : ps[k].id \in P => \E i \in 1 .. Len(rs) + 1 : g[i] = k
  <2> SUFFICES ASSUME NEW k \in 1 .. m, ps[k].id \in P PROVE \E i \in 1 .. Len(rs) + 1 : g[i] = k
    OBVIOUS
  <2>1. CASE k = m
    BY <1>1, <1>3, <2>1
  <2>2. CASE k # m
    <3>1. k \in 1 .. m - 1
      BY <1>1, <2>2
    <3>2. PICK i \in 1 .. Len(rs) : h[i] = k
      BY <1>2, <3>1
    <3> QED
      BY <1>1, <1>3, <3>2
  <2> QED
    BY <2>1, <2>2
<1>7. Picks(g, ps, P, m, ss)
  BY <1>1, <1>3, <1>4, <1>5, <1>6 DEF Picks
<1> QED
  BY <1>7 DEF g

\* The next player is not.
LEMMA PicksSkip ==
    ASSUME NEW ps, NEW P, NEW m \in Nat \ {0}, NEW l, l = m - 1, NEW rs, Len(rs) \in Nat, NEW h, Picks(h, ps, P, l, rs), ps[m].id \notin P
    PROVE  Picks(h, ps, P, m, rs)
<1>1. /\ h \in [1 .. Len(rs) -> 1 .. m - 1]
      /\ \A k \in 1 .. m - 1 : ps[k].id \in P => \E i \in 1 .. Len(rs) : h[i] = k
  BY DEF Picks
<1>2. \A k \in 1 .. m : k = m \/ k \in 1 .. m - 1
  OBVIOUS
<1>3. \A k \in 1 .. m : ps[k].id \in P => \E i \in 1 .. Len(rs) : h[i] = k
  BY <1>1, <1>2
<1>4. h \in [1 .. Len(rs) -> 1 .. m]
  BY <1>1
<1> QED
  BY <1>3, <1>4 DEF Picks

\* Of two lists that agree on the ids, but for some at the end of the second
\* that are not in P, the same places are collected.
LEMMA ThoseAlike ==
    ASSUME NEW S, NEW ps \in Seq(S), NEW qs \in Seq(S), NEW P, Len(ps) <= Len(qs),
           \A i \in 1 .. Len(ps) : ps[i].id = qs[i].id,
           \A i \in Len(ps) + 1 .. Len(qs) : qs[i].id \notin P
    PROVE  /\ Those(ps, P) \in Seq(S) /\ Those(qs, P) \in Seq(S) /\ Len(Those(ps, P)) = Len(Those(qs, P))
           /\ \E h : Picks(h, ps, P, Len(ps), Those(ps, P)) /\ Picks(h, qs, P, Len(ps), Those(qs, P))
<1>0. Len(ps) \in Nat /\ Len(qs) \in Nat
  OBVIOUS
<1>1. PICK f : /\ Those(ps, P) = f[Len(ps)] /\ f[0] = <<>>
               /\ \A n \in 1 .. Len(ps) : f[n] = IF ps[n].id \in P THEN Append(f[n - 1], ps[n]) ELSE f[n - 1]
  BY <1>0, ThoseIs
<1>2. PICK g : /\ Those(qs, P) = g[Len(qs)] /\ g[0] = <<>>
               /\ \A n \in 1 .. Len(qs) : g[n] = IF qs[n].id \in P THEN Append(g[n - 1], qs[n]) ELSE g[n - 1]
  BY <1>0, ThoseIs
<1> DEFINE Good(n) == /\ f[n] \in Seq(S) /\ g[n] \in Seq(S) /\ Len(f[n]) = Len(g[n])
                      /\ \E h : Picks(h, ps, P, n, f[n]) /\ Picks(h, qs, P, n, g[n])
           Bad == {n \in 0 .. Len(ps) : ~ Good(n)}
<1>3. Good(0)
  <2>1. Picks([i \in 1 .. 0 |-> 0], ps, P, 0, <<>>) /\ Picks([i \in 1 .. 0 |-> 0], qs, P, 0, <<>>)
    BY DEF Picks
  <2> QED
    BY <1>1, <1>2, <2>1
<1>4. ASSUME NEW n \in 1 .. Len(ps), Good(n - 1) PROVE Good(n)
  <2>1. PICK h : Picks(h, ps, P, n - 1, f[n - 1]) /\ Picks(h, qs, P, n - 1, g[n - 1])
    BY <1>4
  <2>2. f[n - 1] \in Seq(S) /\ g[n - 1] \in Seq(S) /\ Len(f[n - 1]) = Len(g[n - 1])
    BY <1>4
  <2>3. n \in 1 .. Len(qs) /\ n \in Nat \ {0} /\ ps[n].id = qs[n].id /\ ps[n] \in S /\ qs[n] \in S
    BY <1>0
  <2>4. CASE ps[n].id \in P
    <3>1. f[n] = Append(f[n - 1], ps[n]) /\ g[n] = Append(g[n - 1], qs[n])
      BY <1>1, <1>2, <2>3, <2>4
    <3>2. f[n] \in Seq(S) /\ Picks(Longer(h, Len(f[n - 1]), n), ps, P, n, f[n])
      <4>1. PICK l \in 0 .. n - 1, rs \in Seq(S), ss \in {f[n]} : l = n - 1 /\ rs = f[l] /\ ss = f[n]
        BY <2>2, <2>3
      <4>2. ss = Append(rs, ps[n]) /\ Picks(h, ps, P, l, rs) /\ ps[n].id \in P /\ n \in 1 .. Len(ps)
        BY <2>1, <2>3, <2>4, <3>1, <4>1
      <4>3. Picks(Longer(h, Len(rs), n), ps, P, n, ss)
        BY <4>1, <4>2, PicksMore
      <4>4. ss \in Seq(S)
        BY <2>3, <4>1, <4>2
      <4> QED
        BY <2>2, <4>1, <4>3, <4>4
    <3>3. g[n] \in Seq(S) /\ Picks(Longer(h, Len(f[n - 1]), n), qs, P, n, g[n])
      <4>1. PICK l \in 0 .. n - 1, rs \in Seq(S), ss \in {g[n]} : l = n - 1 /\ rs = g[l] /\ ss = g[n]
        BY <2>2, <2>3
      <4>2. ss = Append(rs, qs[n]) /\ Picks(h, qs, P, l, rs) /\ qs[n].id \in P /\ n \in 1 .. Len(qs)
        BY <2>1, <2>3, <2>4, <3>1, <4>1
      <4>3. Picks(Longer(h, Len(rs), n), qs, P, n, ss)
        BY <4>1, <4>2, PicksMore
      <4>4. ss \in Seq(S)
        BY <2>3, <4>1, <4>2
      <4> QED
        BY <2>2, <4>1, <4>3, <4>4
    <3>4. Len(f[n]) = Len(g[n])
      BY <2>2, <2>3, <3>1
    <3> QED
      BY <3>2, <3>3, <3>4
  <2>5. CASE ps[n].id \notin P
    <3>1. f[n] = f[n - 1] /\ g[n] = g[n - 1]
      BY <1>1, <1>2, <2>3, <2>5
    <3>2. PICK l, rs, ss : l = n - 1 /\ rs = f[n - 1] /\ ss = g[n - 1]
      OBVIOUS
    <3>3. /\ n \in Nat \ {0} /\ l = n - 1 /\ Len(rs) \in Nat /\ Len(ss) \in Nat
          /\ ps[n].id \notin P /\ qs[n].id \notin P
      BY <2>2, <2>3, <2>5, <3>2
    <3>4. Picks(h, ps, P, l, rs) /\ Picks(h, qs, P, l, ss)
      BY <2>1, <3>2
    <3>5. Picks(h, ps, P, n, rs)
      BY <3>3, <3>4, PicksSkip
    <3>6. Picks(h, qs, P, n, ss)
      BY <3>3, <3>4, PicksSkip
    <3>7. Picks(h, ps, P, n, f[n]) /\ Picks(h, qs, P, n, g[n])
      BY <3>1, <3>2, <3>5, <3>6
    <3> QED
      BY <2>2, <3>1, <3>7
  <2> QED
    BY <2>4, <2>5
<1> HIDE DEF Good
<1>5. Good(Len(ps))
  <2>1. Bad = {}
    <3> SUFFICES ASSUME Bad # {} PROVE FALSE
      OBVIOUS
    <3>1. Bad \in SUBSET Nat
      BY <1>0
    <3>2. PICK n \in Bad : \A j \in Bad : n <= j
      BY <3>1, LeastOf
    <3>3. n \in 1 .. Len(ps)
      BY <1>0, <1>3, <3>2
    <3>4. n - 1 \in 0 .. Len(ps) /\ ~ (n <= n - 1)
      BY <3>3, <1>0
    <3>5. Good(n - 1)
      BY <3>2, <3>4
    <3> QED
      BY <1>4, <3>2, <3>3, <3>5
  <2> QED
    BY <1>0, <2>1
<1> DEFINE Off == {n \in Len(ps) .. Len(qs) : g[n] # g[Len(ps)]}
<1>6. Off = {}
  <2> SUFFICES ASSUME Off # {} PROVE FALSE
    OBVIOUS
  <2>1. Off \in SUBSET Nat
    BY <1>0
  <2>2. PICK n \in Off : \A j \in Off : n <= j
    BY <2>1, LeastOf
  <2>3. n \in Len(ps) + 1 .. Len(qs) /\ n \in 1 .. Len(qs) /\ n - 1 \in Len(ps) .. Len(qs) /\ ~ (n <= n - 1)
    BY <1>0, <2>2
  <2>4. g[n - 1] = g[Len(ps)]
    BY <2>2, <2>3
  <2>5. g[n] = g[n - 1]
    BY <1>2, <2>3
  <2> QED
    BY <2>2, <2>4, <2>5
<1>7. g[Len(qs)] = g[Len(ps)]
  BY <1>0, <1>6
<1> QED
  BY <1>1, <1>2, <1>5, <1>7 DEF Good

\* What is collected of one list.
LEMMA ThosePick ==
    ASSUME NEW S, NEW ps \in Seq(S), NEW P
    PROVE  Those(ps, P) \in Seq(S) /\ \E h : Picks(h, ps, P, Len(ps), Those(ps, P))
<1>1. Len(ps) <= Len(ps) /\ Len(ps) + 1 .. Len(ps) = {}
  OBVIOUS
<1> QED
  BY <1>1, ThoseAlike

------------------------------------------------------------------------------
(* Lobbies *)

\* The parts of a lobby.
LEMMA TypeFacts ==
    ASSUME NEW L \in LobbyType
    PROVE  /\ L.players \in Seq(PlayerType) /\ Len(L.players) \in Nat /\ DOMAIN L.players = 1 .. Len(L.players)
           /\ L.challenge \in Challenge \cup {None} /\ L.started \in BOOLEAN /\ L.countdown \in Null .. 3
           /\ \A i \in DOMAIN L.players : L.players[i] \in PlayerType
BY DEF LobbyType

\* The parts of a player.
LEMMA EntryType ==
    ASSUME NEW x \in PlayerType
    PROVE  /\ x.id \in Browser \cup Fake /\ x.ready \in BOOLEAN /\ x.clicks \in Nat /\ x.finished \in BOOLEAN
BY DEF PlayerType

\* A lobby that somebody is taken out of.
LEMMA WithoutFacts ==
    ASSUME NEW L \in LobbyType, NEW p
    PROVE  /\ Without(L, p) \in LobbyType
           /\ Without(L, p).challenge = L.challenge /\ Without(L, p).started = L.started
           /\ Without(L, p).countdown = L.countdown
           /\ Ids(Without(L, p)) = Ids(L) \ {p}
           /\ \A S : Apart(L, S) => Apart(Without(L, p), S) /\ Apart(Without(L, p), S \ {p})
           /\ \A q : Done(L, q) => Done(Without(L, p), q)
<1> DEFINE P == Ids(L) \ {p}
           W == Without(L, p)
<1>1. L.players \in Seq(PlayerType) /\ Len(L.players) \in Nat /\ DOMAIN L.players = 1 .. Len(L.players)
  BY TypeFacts
<1>2. /\ Those(L.players, P) \in Seq(PlayerType)
      /\ \E h : Picks(h, L.players, P, Len(L.players), Those(L.players, P))
  BY <1>1, ThosePick
<1>3. PICK h : Picks(h, L.players, P, Len(L.players), Those(L.players, P))
  BY <1>2
<1>4. /\ W.players = Those(L.players, P) /\ W \in LobbyType
      /\ W.challenge = L.challenge /\ W.started = L.started /\ W.countdown = L.countdown
  BY <1>2 DEF Without, LobbyType
<1> DEFINE w == W.players
<1>5. w \in Seq(PlayerType) /\ DOMAIN w = 1 .. Len(w) /\ Len(w) \in Nat
  BY <1>2, <1>4
<1>6. /\ h \in [1 .. Len(w) -> 1 .. Len(L.players)]
      /\ \A i \in 1 .. Len(w) : w[i] = L.players[h[i]] /\ L.players[h[i]].id \in P
      /\ \A i, j \in 1 .. Len(w) : i < j => h[i] < h[j]
      /\ \A k \in 1 .. Len(L.players) : L.players[k].id \in P => \E i \in 1 .. Len(w) : h[i] = k
  BY <1>3, <1>4 DEF Picks
<1> HIDE DEF W
<1>7. ASSUME NEW q, Done(L, q) PROVE Done(W, q)
  <2> SUFFICES ASSUME NEW i \in DOMAIN w, w[i].id = q, Found(W, i) PROVE w[i].finished
    BY DEF Done
  <2>1. i \in 1 .. Len(w) /\ i \in Nat /\ h[i] \in DOMAIN L.players /\ h[i] \in Nat /\ w[i] = L.players[h[i]] /\ q \in P
    BY <1>1, <1>5, <1>6
  <2>2. ASSUME NEW k \in 1 .. h[i] - 1, L.players[k].id = q PROVE FALSE
    <3>1. k \in 1 .. Len(L.players) /\ k < h[i] /\ k \in Nat
      BY <1>1, <2>1
    <3>2. PICK j \in 1 .. Len(w) : h[j] = k
      BY <1>6, <2>1, <2>2, <3>1
    <3>3. ~ (i < j) /\ i # j /\ j \in Nat
      BY <1>5, <1>6, <2>1, <3>1, <3>2
    <3>4. j \in 1 .. i - 1
      BY <2>1, <3>3
    <3>5. w[j].id = q
      BY <1>6, <2>2, <3>2
    <3> QED
      BY <3>4, <3>5 DEF Found
  <2>3. Found(L, h[i])
    BY <2>1, <2>2 DEF Found
  <2> QED
    BY <1>7, <2>1, <2>3 DEF Done
<1>8. Ids(W) = P
  <2>1. ASSUME NEW x \in Ids(W) PROVE x \in P
    <3>1. PICK i \in DOMAIN w : x = w[i].id
      BY <2>1 DEF Ids
    <3> QED
      BY <1>5, <1>6, <3>1
  <2>2. ASSUME NEW x \in P PROVE x \in Ids(W)
    <3>1. PICK k \in 1 .. Len(L.players) : x = L.players[k].id
      BY <1>1, <2>2 DEF Ids
    <3>2. PICK i \in 1 .. Len(w) : h[i] = k
      BY <1>6, <2>2, <3>1
    <3> QED
      BY <1>5, <1>6, <3>1, <3>2 DEF Ids
  <2> HIDE DEF P
  <2> QED
    BY <2>1, <2>2
<1>9. ASSUME NEW S, Apart(L, S) PROVE Apart(W, S) /\ Apart(W, S \ {p})
  <2> SUFFICES ASSUME NEW i \in DOMAIN w, NEW j \in DOMAIN w, w[i].id = w[j].id, i # j PROVE w[i].id \in S /\ w[i].id # p
    BY DEF Apart
  <2>1. i \in Nat /\ j \in Nat /\ i \in 1 .. Len(w) /\ j \in 1 .. Len(w)
    BY <1>5
  <2>2. h[i] \in DOMAIN L.players /\ h[j] \in DOMAIN L.players /\ h[i] \in Nat /\ h[j] \in Nat
    BY <1>1, <1>6, <2>1
  <2>3. i < j \/ j < i
    BY <2>1
  <2>4. h[i] # h[j]
    BY <1>6, <2>1, <2>2, <2>3
  <2> QED
    BY <1>6, <1>9, <2>1, <2>2, <2>4 DEF Apart
<1> QED
  BY <1>4, <1>7, <1>8, <1>9 DEF W

\* A lobby that somebody is added to.
LEMMA JoinFacts ==
    ASSUME NEW L \in LobbyType, NEW x \in PlayerType
    PROVE  /\ Join(L, x) \in LobbyType
           /\ Join(L, x).challenge = L.challenge /\ Join(L, x).started = L.started
           /\ Join(L, x).countdown = L.countdown
           /\ Len(Join(L, x).players) = Len(L.players) + 1
           /\ Join(L, x).players[Len(L.players) + 1] = x
           /\ \A i \in 1 .. Len(L.players) : Join(L, x).players[i] = L.players[i]
           /\ Join(L, x).players # <<>>
           /\ Ids(Join(L, x)) = Ids(L) \cup {x.id}
           /\ \A S : Apart(L, S) /\ (x.id \in S \/ x.id \notin Ids(L)) => Apart(Join(L, x), S)
           /\ \A q : Done(L, q) /\ (q # x.id \/ q \in Ids(L)) => Done(Join(L, x), q)
<1> DEFINE J == Join(L, x)
<1>1. L.players \in Seq(PlayerType) /\ Len(L.players) \in Nat /\ DOMAIN L.players = 1 .. Len(L.players)
  BY TypeFacts
<1>2. /\ J.players = Append(L.players, x) /\ J \in LobbyType
      /\ J.challenge = L.challenge /\ J.started = L.started /\ J.countdown = L.countdown
  BY <1>1 DEF Join, LobbyType
<1> HIDE DEF J
<1>3. /\ Len(J.players) = Len(L.players) + 1 /\ J.players[Len(L.players) + 1] = x
      /\ \A i \in 1 .. Len(L.players) : J.players[i] = L.players[i]
      /\ DOMAIN J.players = 1 .. Len(L.players) + 1
  BY <1>1, <1>2
<1>4. J.players # <<>>
  BY <1>1, <1>3
<1>5. Ids(J) = Ids(L) \cup {x.id}
  <2>1. \A i \in DOMAIN J.players : i \in DOMAIN L.players \/ i = Len(L.players) + 1
    BY <1>1, <1>3
  <2>2. DOMAIN L.players \subseteq DOMAIN J.players /\ Len(L.players) + 1 \in DOMAIN J.players
    BY <1>1, <1>3
  <2> QED
    BY <1>1, <1>3, <2>1, <2>2 DEF Ids
<1>6. ASSUME NEW S, Apart(L, S), x.id \in S \/ x.id \notin Ids(L) PROVE Apart(J, S)
  <2>1. \A i \in DOMAIN J.players : i \in DOMAIN L.players \/ i = Len(L.players) + 1
    BY <1>1, <1>3
  <2>2. \A i \in DOMAIN L.players : (L.players[i].id # x.id \/ x.id \in S) /\ J.players[i] = L.players[i]
    BY <1>1, <1>3, <1>6 DEF Ids
  <2> QED
    BY <1>3, <1>6, <2>1, <2>2 DEF Apart
<1>7. ASSUME NEW q, Done(L, q), q # x.id \/ q \in Ids(L) PROVE Done(J, q)
  <2> SUFFICES ASSUME NEW i \in DOMAIN J.players, J.players[i].id = q, Found(J, i) PROVE J.players[i].finished
    BY DEF Done
  <2>1. CASE i \in DOMAIN L.players
    <3>1. Found(L, i)
      <4>1. \A j \in 1 .. i - 1 : j \in 1 .. Len(L.players)
        BY <1>1, <2>1
      <4> QED
        BY <1>1, <1>3, <2>1, <4>1 DEF Found
    <3> QED
      BY <1>1, <1>3, <1>7, <2>1, <3>1 DEF Done
  <2>2. CASE i = Len(L.players) + 1
    <3>1. q \in Ids(L)
      BY <1>3, <1>7, <2>2
    <3>2. PICK j \in DOMAIN L.players : L.players[j].id = q
      BY <3>1 DEF Ids
    <3>3. j \in 1 .. i - 1 /\ J.players[j].id = q
      BY <1>1, <1>3, <2>2, <3>2
    <3> QED
      BY <3>3 DEF Found
  <2> QED
    BY <1>1, <1>3, <2>1, <2>2
<1> QED
  BY <1>2, <1>3, <1>4, <1>5, <1>6, <1>7 DEF J

\* The same players, whatever they have done.
SameIds(L, M) ==
    /\ DOMAIN M.players = DOMAIN L.players /\ Len(M.players) = Len(L.players)
    /\ \A i \in DOMAIN L.players : M.players[i].id = L.players[i].id

\* Lobbies of the same players.
LEMMA SameIdsFacts ==
    ASSUME NEW L \in LobbyType, NEW M \in LobbyType, SameIds(L, M)
    PROVE  /\ Ids(M) = Ids(L)
           /\ \A S : Apart(L, S) => Apart(M, S)
           /\ \A i \in DOMAIN L.players : Found(M, i) <=> Found(L, i)
           /\ L.players # <<>> => M.players # <<>>
<1>1. Ids(M) = Ids(L)
  BY DEF SameIds, Ids
<1>2. \A S : Apart(L, S) => Apart(M, S)
  BY DEF SameIds, Apart
<1>3. L.players # <<>> => M.players # <<>>
  BY TypeFacts DEF SameIds
<1>4. ASSUME NEW i \in DOMAIN L.players PROVE Found(M, i) <=> Found(L, i)
  <2>1. DOMAIN L.players = 1 .. Len(L.players) /\ Len(L.players) \in Nat
    BY TypeFacts
  <2>2. \A j \in 1 .. i - 1 : j \in DOMAIN L.players
    BY <2>1
  <2> QED
    BY <2>2 DEF SameIds, Found
<1> QED
  BY <1>1, <1>2, <1>3, <1>4

\* Who has finished has finished, when the same players go on.
LEMMA DoneKept ==
    ASSUME NEW L \in LobbyType, NEW M \in LobbyType, SameIds(L, M), NEW q,
           \A i \in DOMAIN L.players : L.players[i].id = q /\ L.players[i].finished => M.players[i].finished
    PROVE  Done(L, q) => Done(M, q)
<1>1. \A i \in DOMAIN L.players : Found(M, i) <=> Found(L, i)
  BY SameIdsFacts
<1> QED
  BY <1>1 DEF Done, SameIds

\* The entry of somebody who is in the lobby.
LEMMA EntryFacts ==
    ASSUME NEW L \in LobbyType, NEW p \in Ids(L)
    PROVE  \E i \in DOMAIN L.players : Entry(L, p) = L.players[i] /\ L.players[i].id = p /\ Found(L, i)
<1> DEFINE S == {i \in DOMAIN L.players : L.players[i].id = p}
<1>1. DOMAIN L.players = 1 .. Len(L.players) /\ Len(L.players) \in Nat
  BY TypeFacts
<1>2. S \in SUBSET Nat /\ S # {}
  BY <1>1 DEF Ids
<1>3. PICK i \in S : \A j \in S : i <= j
  BY <1>2, LeastOf
<1>4. Found(L, i)
  <2>1. ASSUME NEW j \in 1 .. i - 1 PROVE L.players[j].id # L.players[i].id
    <3>1. j \in DOMAIN L.players /\ ~ (i <= j)
      BY <1>1, <1>3
    <3> QED
      BY <1>3, <3>1
  <2> QED
    BY <2>1 DEF Found
<1>5. i \in DOMAIN L.players /\ L.players[i].id = p
  BY <1>3
<1> QED
  BY <1>4, <1>5 DEF Entry

\* What a change of p's entry is.
Marks(L, M, p) ==
    /\ M \in LobbyType
    /\ M.challenge = L.challenge /\ M.started = L.started /\ M.countdown = L.countdown
    /\ SameIds(L, M)
    /\ \A i \in DOMAIN L.players : L.players[i].id # p => M.players[i] = L.players[i]

\* Other players in a lobby.
LEMMA PlayersFacts ==
    ASSUME NEW L \in LobbyType, NEW xs \in [DOMAIN L.players -> PlayerType], NEW M, M = [L EXCEPT !.players = xs],
           \A i \in DOMAIN L.players : xs[i].id = L.players[i].id
    PROVE  /\ M \in LobbyType /\ M.players = xs
           /\ M.challenge = L.challenge /\ M.started = L.started /\ M.countdown = L.countdown
           /\ SameIds(L, M)
<1>1. /\ L.players \in Seq(PlayerType) /\ Len(L.players) \in Nat /\ DOMAIN L.players = 1 .. Len(L.players)
  BY TypeFacts
<1>2. xs \in Seq(PlayerType) /\ Len(xs) = Len(L.players) /\ DOMAIN xs = 1 .. Len(L.players)
  BY <1>1
<1>3. M \in LobbyType /\ M.players = xs
  BY <1>2 DEF LobbyType
<1>4. M.challenge = L.challenge /\ M.started = L.started /\ M.countdown = L.countdown
  BY DEF LobbyType
<1> QED
  BY <1>1, <1>2, <1>3, <1>4 DEF SameIds

\* A player is ready or not.
LEMMA ReadyFacts ==
    ASSUME NEW L \in LobbyType, NEW p, NEW r \in BOOLEAN
    PROVE  /\ Marks(L, Ready(L, p, r), p)
           /\ \A i \in DOMAIN L.players :
                 Ready(L, p, r).players[i].finished = L.players[i].finished
<1> DEFINE M == Ready(L, p, r)
           x(i) == IF L.players[i].id = p /\ Found(L, i) THEN [L.players[i] EXCEPT !.ready = r] ELSE L.players[i]
           xs == [i \in DOMAIN L.players |-> x(i)]
<1>1. \A i \in DOMAIN L.players : L.players[i] \in PlayerType
  BY TypeFacts
<1>2. \A i \in DOMAIN L.players :
          /\ x(i) \in PlayerType /\ x(i).id = L.players[i].id
          /\ L.players[i].id # p => x(i) = L.players[i]
  BY <1>1 DEF PlayerType
<1>3. \A i \in DOMAIN L.players : x(i).finished = L.players[i].finished
  BY <1>1 DEF PlayerType
<1>4. M = [L EXCEPT !.players = xs]
  BY DEF Ready, Update, LobbyType
<1> HIDE DEF M, x
<1>5. xs \in [DOMAIN L.players -> PlayerType] /\ \A i \in DOMAIN L.players : xs[i] = x(i)
  BY <1>2
<1>6. \A i \in DOMAIN L.players : xs[i].id = L.players[i].id
  BY <1>2, <1>5
<1> HIDE DEF xs
<1>7. /\ M \in LobbyType /\ M.players = xs
      /\ M.challenge = L.challenge /\ M.started = L.started /\ M.countdown = L.countdown
      /\ SameIds(L, M)
  BY <1>4, <1>5, <1>6, PlayersFacts
<1>8. Marks(L, M, p)
  BY <1>2, <1>5, <1>7 DEF Marks
<1>9. \A i \in DOMAIN L.players : M.players[i] = x(i)
  BY <1>5, <1>7
<1> HIDE DEF x
<1> QED
  BY <1>3, <1>8, <1>9 DEF M

\* A player has moved.
LEMMA MovedFacts ==
    ASSUME NEW L \in LobbyType, NEW p, NEW n \in Nat
    PROVE  /\ Marks(L, Moved(L, p, n), p)
           /\ \A i \in DOMAIN L.players :
                 Moved(L, p, n).players[i].finished = L.players[i].finished /\ Moved(L, p, n).players[i].ready = L.players[i].ready
<1> DEFINE M == Moved(L, p, n)
           x(i) == IF L.players[i].id = p /\ Found(L, i) THEN [L.players[i] EXCEPT !.clicks = n] ELSE L.players[i]
           xs == [i \in DOMAIN L.players |-> x(i)]
<1>1. \A i \in DOMAIN L.players : L.players[i] \in PlayerType
  BY TypeFacts
<1>2. \A i \in DOMAIN L.players :
          /\ x(i) \in PlayerType /\ x(i).id = L.players[i].id
          /\ L.players[i].id # p => x(i) = L.players[i]
  BY <1>1 DEF PlayerType
<1>3. \A i \in DOMAIN L.players : x(i).finished = L.players[i].finished /\ x(i).ready = L.players[i].ready
  BY <1>1 DEF PlayerType
<1>4. M = [L EXCEPT !.players = xs]
  BY DEF Moved, Update, LobbyType
<1> HIDE DEF M, x
<1>5. xs \in [DOMAIN L.players -> PlayerType] /\ \A i \in DOMAIN L.players : xs[i] = x(i)
  BY <1>2
<1>6. \A i \in DOMAIN L.players : xs[i].id = L.players[i].id
  BY <1>2, <1>5
<1> HIDE DEF xs
<1>7. /\ M \in LobbyType /\ M.players = xs
      /\ M.challenge = L.challenge /\ M.started = L.started /\ M.countdown = L.countdown
      /\ SameIds(L, M)
  BY <1>4, <1>5, <1>6, PlayersFacts
<1>8. Marks(L, M, p)
  BY <1>2, <1>5, <1>7 DEF Marks
<1>9. \A i \in DOMAIN L.players : M.players[i] = x(i)
  BY <1>5, <1>7
<1> HIDE DEF x
<1> QED
  BY <1>3, <1>8, <1>9 DEF M

\* A player has finished.
LEMMA FinishedFacts ==
    ASSUME NEW L \in LobbyType, NEW p, NEW n \in Nat
    PROVE  /\ Marks(L, Finished(L, p, n), p)
           /\ \A i \in DOMAIN L.players :
                 /\ (L.players[i].id = p /\ Found(L, i)) \/ L.players[i].finished => Finished(L, p, n).players[i].finished
                 /\ Finished(L, p, n).players[i].ready = L.players[i].ready
<1> DEFINE M == Finished(L, p, n)
           x(i) == IF L.players[i].id = p /\ Found(L, i) THEN [L.players[i] EXCEPT !.clicks = n, !.finished = TRUE] ELSE L.players[i]
           xs == [i \in DOMAIN L.players |-> x(i)]
<1>1. \A i \in DOMAIN L.players : L.players[i] \in PlayerType
  BY TypeFacts
<1>2. \A i \in DOMAIN L.players :
          /\ x(i) \in PlayerType /\ x(i).id = L.players[i].id
          /\ L.players[i].id # p => x(i) = L.players[i]
  BY <1>1 DEF PlayerType
<1>3. \A i \in DOMAIN L.players : /\ (L.players[i].id = p /\ Found(L, i)) \/ L.players[i].finished => x(i).finished
                 /\ x(i).ready = L.players[i].ready
  BY <1>1 DEF PlayerType
<1>4. M = [L EXCEPT !.players = xs]
  BY DEF Finished, Update, LobbyType
<1> HIDE DEF M, x
<1>5. xs \in [DOMAIN L.players -> PlayerType] /\ \A i \in DOMAIN L.players : xs[i] = x(i)
  BY <1>2
<1>6. \A i \in DOMAIN L.players : xs[i].id = L.players[i].id
  BY <1>2, <1>5
<1> HIDE DEF xs
<1>7. /\ M \in LobbyType /\ M.players = xs
      /\ M.challenge = L.challenge /\ M.started = L.started /\ M.countdown = L.countdown
      /\ SameIds(L, M)
  BY <1>4, <1>5, <1>6, PlayersFacts
<1>8. Marks(L, M, p)
  BY <1>2, <1>5, <1>7 DEF Marks
<1>9. \A i \in DOMAIN L.players : M.players[i] = x(i)
  BY <1>5, <1>7
<1> HIDE DEF x
<1> QED
  BY <1>3, <1>8, <1>9 DEF M

\* The race begins.
LEMMA BegunFacts ==
    ASSUME NEW L \in LobbyType
    PROVE  /\ Begun(L) \in LobbyType
           /\ Begun(L).challenge = L.challenge /\ Begun(L).started = L.started /\ Begun(L).countdown = Null
           /\ SameIds(L, Begun(L))
           /\ \A i \in DOMAIN L.players : Begun(L).players[i] = AtStart(L.players[i])
<1> DEFINE xs == [i \in DOMAIN L.players |-> AtStart(L.players[i])]
           K == [L EXCEPT !.countdown = Null]
<1>1. \A i \in DOMAIN L.players : AtStart(L.players[i]) \in PlayerType /\ AtStart(L.players[i]).id = L.players[i].id
  BY TypeFacts DEF PlayerType, AtStart
<1>2. K \in LobbyType /\ K.players = L.players /\ K.countdown = Null /\ K.challenge = L.challenge /\ K.started = L.started
  BY DEF LobbyType, Null
<1>3. Begun(L) = [K EXCEPT !.players = xs]
  BY DEF Begun, LobbyType
<1>4. xs \in [DOMAIN K.players -> PlayerType] /\ \A i \in DOMAIN L.players : xs[i] = AtStart(L.players[i])
  BY <1>1, <1>2
<1>5. \A i \in DOMAIN K.players : xs[i].id = K.players[i].id
  BY <1>1, <1>2, <1>4
<1> HIDE DEF xs, K
<1>6. PICK M : M = Begun(L)
  OBVIOUS
<1>7. /\ M \in LobbyType /\ M.players = xs
      /\ M.challenge = K.challenge /\ M.started = K.started /\ M.countdown = K.countdown
      /\ SameIds(K, M)
  BY <1>2, <1>3, <1>4, <1>5, <1>6, PlayersFacts
<1> QED
  BY <1>2, <1>4, <1>6, <1>7 DEF SameIds

\* The countdown goes on.
LEMMA CountdownFacts ==
    ASSUME NEW L \in LobbyType, NEW n \in Null .. 3
    PROVE  /\ Countdown(L, n) \in LobbyType
           /\ Countdown(L, n).challenge = L.challenge /\ Countdown(L, n).started = L.started
           /\ Countdown(L, n).countdown = n /\ Countdown(L, n).players = L.players
BY DEF Countdown, LobbyType

------------------------------------------------------------------------------
(* Messages and pages *)

\* The messages on a channel, when one is sent or taken.
LEMMA QueueFacts ==
    ASSUME NEW S, NEW q \in Seq(S)
    PROVE  /\ Messages(q) \subseteq S
           /\ \A m \in S : /\ Append(q, m) \in Seq(S) /\ Messages(Append(q, m)) = Messages(q) \cup {m}
                           /\ Append(q, m) # <<>>
           /\ q # <<>> => /\ Head(q) \in Messages(q) /\ Head(q) \in S /\ Tail(q) \in Seq(S)
                          /\ Messages(Tail(q)) \subseteq Messages(q)
                          /\ \A x \in Messages(q) : x = Head(q) \/ x \in Messages(Tail(q))
           /\ Messages(<<>>) = {}
<1>1. Len(q) \in Nat /\ DOMAIN q = 1 .. Len(q) /\ \A i \in 1 .. Len(q) : q[i] \in S
  OBVIOUS
<1>2. ASSUME NEW m \in S
      PROVE  Append(q, m) \in Seq(S) /\ Messages(Append(q, m)) = Messages(q) \cup {m} /\ Append(q, m) # <<>>
  <2> DEFINE r == Append(q, m)
  <2>1. r \in Seq(S) /\ DOMAIN r = 1 .. Len(q) + 1 /\ r[Len(q) + 1] = m /\ \A i \in 1 .. Len(q) : r[i] = q[i]
    BY <1>2
  <2>2. r # <<>>
    <3>1. Len(r) = Len(q) + 1 /\ Len(<<>>) = 0
      BY <1>2
    <3> QED
      BY <1>1, <3>1
  <2> HIDE DEF r
  <2>3. 1 .. Len(q) + 1 = (1 .. Len(q)) \cup {Len(q) + 1}
    BY <1>1
  <2>4. Messages(r) = Messages(q) \cup {m}
    BY <1>1, <2>1, <2>3 DEF Messages
  <2> QED
    BY <2>1, <2>2, <2>4 DEF r
<1>3. ASSUME q # <<>>
      PROVE  /\ Head(q) \in Messages(q) /\ Head(q) \in S /\ Tail(q) \in Seq(S)
             /\ Messages(Tail(q)) \subseteq Messages(q)
             /\ \A x \in Messages(q) : x = Head(q) \/ x \in Messages(Tail(q))
  <2>1. Len(q) \in Nat \ {0} /\ Head(q) = q[1]
    BY <1>1, <1>3
  <2> DEFINE t == Tail(q)
  <2>2. t \in Seq(S) /\ DOMAIN t = 1 .. Len(q) - 1 /\ \A i \in 1 .. Len(q) - 1 : t[i] = q[i + 1]
    BY <1>3, <2>1
  <2> HIDE DEF t
  <2>3. Messages(t) \subseteq Messages(q)
    <3>1. \A i \in 1 .. Len(q) - 1 : i + 1 \in DOMAIN q
      BY <1>1, <2>1
    <3> QED
      BY <2>2, <3>1 DEF Messages
  <2>4. ASSUME NEW x \in Messages(q) PROVE x = Head(q) \/ x \in Messages(t)
    <3>1. PICK i \in 1 .. Len(q) : x = q[i]
      BY <1>1, <2>4 DEF Messages
    <3>2. CASE i = 1
      BY <2>1, <3>1, <3>2
    <3>3. CASE i # 1
      <4>1. i - 1 \in 1 .. Len(q) - 1 /\ (i - 1) + 1 = i
        BY <2>1, <3>1, <3>3
      <4>2. t[i - 1] = x
        BY <2>2, <3>1, <4>1
      <4> QED
        BY <2>2, <4>1, <4>2 DEF Messages
    <3> QED
      BY <3>2, <3>3
  <2>5. Head(q) \in Messages(q) /\ Head(q) \in S
    BY <1>1, <2>1 DEF Messages
  <2> QED
    BY <2>2, <2>3, <2>4, <2>5 DEF t
<1>4. Messages(q) \subseteq S /\ Messages(<<>>) = {}
  BY <1>1 DEF Messages
<1> QED
  BY <1>2, <1>3, <1>4

\* One message or two at the end of others.
LEMMA TwoFacts ==
    ASSUME NEW S, NEW q \in Seq(S), NEW m \in S, NEW n \in S
    PROVE  /\ q \o <<>> = q /\ q \o <<m>> = Append(q, m) /\ q \o <<m, n>> = Append(Append(q, m), n)
           /\ <<>> \in Seq(S) /\ <<m>> \in Seq(S) /\ <<m, n>> \in Seq(S)
           /\ Messages(<<>>) = {} /\ Messages(<<m>>) = {m} /\ Messages(<<m, n>>) = {m, n}
<1>1. q \o <<>> = q
  BY ConcatEmptySeq
<1>2. q \o <<m>> = Append(q, m)
  OBVIOUS
<1>3. q \o <<m, n>> = Append(Append(q, m), n)
  OBVIOUS
<1>4. Messages(<<>>) = {} /\ Messages(<<m>>) = {m} /\ Messages(<<m, n>>) = {m, n}
  BY DEF Messages
<1> QED
  BY <1>1, <1>2, <1>3, <1>4

\* What is on the channels when something is sent.
LEMMA SentFacts ==
    ASSUME NEW S, NEW q \in [Guest -> Seq(S)], NEW to, NEW ms \in Seq(S), NEW r, r = Sent(q, to, ms)
    PROVE  /\ r \in [Guest -> Seq(S)]
           /\ \A g \in Guest : /\ r[g] = IF g \in to /\ conn[g] = "open" THEN q[g] \o ms ELSE q[g]
                               /\ Messages(q[g]) \subseteq Messages(r[g])
                               /\ Messages(r[g]) \subseteq Messages(q[g]) \cup Messages(ms)
<1>1. r = [g \in Guest |-> IF g \in to /\ conn[g] = "open" THEN q[g] \o ms ELSE q[g]]
  BY DEF Sent
<1>2. ASSUME NEW g \in Guest
      PROVE  /\ q[g] \o ms \in Seq(S)
             /\ Messages(q[g]) \subseteq Messages(q[g] \o ms)
             /\ Messages(q[g] \o ms) \subseteq Messages(q[g]) \cup Messages(ms)
  <2> DEFINE t == q[g] \o ms
             m == Len(q[g])
  <2>1. /\ t \in Seq(S) /\ DOMAIN t = 1 .. m + Len(ms) /\ m \in Nat /\ Len(ms) \in Nat /\ DOMAIN q[g] = 1 .. m
        /\ DOMAIN ms = 1 .. Len(ms)
        /\ \A i \in 1 .. m : t[i] = q[g][i]
        /\ \A i \in 1 .. m + Len(ms) : i > m => t[i] = ms[i - m]
    BY <1>2
  <2> HIDE DEF t, m
  <2>2. Messages(q[g]) \subseteq Messages(t)
    <3>1. 1 .. m \subseteq 1 .. m + Len(ms)
      BY <2>1
    <3> QED
      BY <2>1, <3>1 DEF Messages
  <2>3. ASSUME NEW x \in Messages(t) PROVE x \in Messages(q[g]) \cup Messages(ms)
    <3>1. PICK i \in 1 .. m + Len(ms) : x = t[i]
      BY <2>1, <2>3 DEF Messages
    <3>2. CASE i \in 1 .. m
      BY <2>1, <3>1, <3>2 DEF Messages
    <3>3. CASE i > m
      <4>1. i - m \in 1 .. Len(ms)
        BY <2>1, <3>1, <3>3
      <4>2. x = ms[i - m]
        BY <2>1, <3>1, <3>3
      <4> QED
        BY <2>1, <4>1, <4>2 DEF Messages
    <3> QED
      BY <2>1, <3>1, <3>2, <3>3
  <2> QED
    BY <2>1, <2>2, <2>3 DEF t
<1>3. \A g \in Guest : r[g] = IF g \in to /\ conn[g] = "open" THEN q[g] \o ms ELSE q[g]
  BY <1>1
<1>4. r \in [Guest -> Seq(S)]
  BY <1>1, <1>2
<1> QED
  BY <1>2, <1>3, <1>4

\* The page that is told of a lobby starts no race before its time and takes no finish back.
LEMMA NotifiedFacts ==
    ASSUME NEW s \in GameType, NEW L \in LobbyType
    PROVE  /\ Notified(s, L) \in GameType
           /\ ~ s.playing /\ Calm(L) => Notified(s, L) = s
           /\ Notified(s, L).playing /\ ~ Notified(s, L).timer => s.playing /\ ~ s.timer
<1> DEFINE t == IF L.started /\ L.countdown = Null /\ ~s.playing THEN Racing(s) ELSE s
<1>1. t \in GameType /\ (t.playing /\ ~ t.timer => s.playing /\ ~ s.timer) /\ (~ s.playing /\ Calm(L) => t = s)
  BY DEF GameType, Racing, Calm
<1>2. Won(t) \in GameType /\ ~ Won(t).playing
  BY <1>1 DEF GameType, Won
<1>3. Notified(s, L) = IF t.playing /\ AllFinished(L) THEN Won(t) ELSE t
  BY DEF Notified
<1> HIDE DEF t
<1> QED
  BY <1>1, <1>2, <1>3

------------------------------------------------------------------------------
(* What a guest is shown *)

\* A lobby is shown as itself.
LEMMA ShownRefl == ASSUME NEW g, NEW L \in LobbyType PROVE Shown(g, L, L)
BY TypeFacts DEF Shown

\* What is shown of what is shown is shown.
LEMMA ShownTrans ==
    ASSUME NEW g, NEW G \in LobbyType, NEW L \in LobbyType, NEW H \in LobbyType, Shown(g, G, L), Shown(g, L, H)
    PROVE  Shown(g, G, H)
<1>1. /\ Len(G.players) \in Nat /\ Len(L.players) \in Nat /\ Len(H.players) \in Nat
      /\ DOMAIN G.players = 1 .. Len(G.players) /\ DOMAIN L.players = 1 .. Len(L.players)
      /\ DOMAIN H.players = 1 .. Len(H.players)
  BY TypeFacts
<1>2. Len(G.players) <= Len(L.players) /\ Len(L.players) <= Len(H.players)
  BY DEF Shown
<1>3. ASSUME NEW i \in DOMAIN H.players
      PROVE  IF i \in DOMAIN G.players
             THEN /\ G.players[i].id = H.players[i].id
                  /\ H.players[i].id \in Fake \cup {g} \/ G.players[i] = H.players[i]
                  /\ H.players[i].id = g => G.players[i].ready = H.players[i].ready
             ELSE H.players[i].id \in Fake
  <2>1. CASE i \in DOMAIN G.players
    <3>1. i \in DOMAIN L.players
      BY <1>1, <1>2, <2>1
    <3> QED
      BY <1>3, <2>1, <3>1 DEF Shown
  <2>2. CASE i \notin DOMAIN G.players
    <3>1. CASE i \in DOMAIN L.players
      BY <1>3, <2>2, <3>1 DEF Shown
    <3>2. CASE i \notin DOMAIN L.players
      BY <1>3, <2>2, <3>2 DEF Shown
    <3> QED
      BY <3>1, <3>2
  <2> QED
    BY <2>1, <2>2
<1>4. Len(G.players) <= Len(H.players)
  BY <1>1, <1>2
<1>5. G.challenge = H.challenge /\ G.started = H.started /\ G.countdown = H.countdown
  BY DEF Shown
<1> QED
  BY <1>3, <1>4, <1>5 DEF Shown

\* What g is not shown: how fake players do, and what it has come to itself.
LEMMA ShownMarks ==
    ASSUME NEW g, NEW L \in LobbyType, NEW M \in LobbyType, SameIds(L, M),
           M.challenge = L.challenge, M.started = L.started, M.countdown = L.countdown,
           \A i \in DOMAIN L.players :
              /\ L.players[i].id \notin Fake \cup {g} => M.players[i] = L.players[i]
              /\ L.players[i].id = g => M.players[i].ready = L.players[i].ready
    PROVE  Shown(g, L, M) /\ Shown(g, M, L)
<1>1. Len(L.players) \in Nat /\ Len(M.players) = Len(L.players) /\ DOMAIN L.players = DOMAIN M.players
  BY TypeFacts DEF SameIds
<1>2. \A i \in DOMAIN L.players : L.players[i].id = M.players[i].id
  BY DEF SameIds
<1> QED
  BY <1>1, <1>2 DEF Shown

\* A fake player joins, unseen.
LEMMA ShownJoin ==
    ASSUME NEW g, NEW L \in LobbyType, NEW x \in PlayerType, x.id \in Fake
    PROVE  Shown(g, L, Join(L, x))
<1>1. /\ Len(L.players) \in Nat /\ DOMAIN L.players = 1 .. Len(L.players)
      /\ Join(L, x) \in LobbyType
  BY TypeFacts, JoinFacts
<1> DEFINE J == Join(L, x)
<1>2. /\ J.challenge = L.challenge /\ J.started = L.started /\ J.countdown = L.countdown
      /\ Len(J.players) = Len(L.players) + 1 /\ J.players[Len(L.players) + 1] = x
      /\ \A i \in 1 .. Len(L.players) : J.players[i] = L.players[i]
  BY JoinFacts
<1>3. DOMAIN J.players = 1 .. Len(L.players) + 1
  BY <1>1, <1>2, TypeFacts
<1> HIDE DEF J
<1>4. \A i \in DOMAIN J.players : i \in DOMAIN L.players \/ i = Len(L.players) + 1
  BY <1>1, <1>3
<1>5. Len(L.players) <= Len(J.players) /\ Len(L.players) + 1 \notin DOMAIN L.players
  BY <1>1, <1>2
<1>6. \A i \in DOMAIN J.players :
         IF i \in DOMAIN L.players THEN L.players[i] = J.players[i] ELSE J.players[i].id \in Fake
  BY <1>1, <1>2, <1>4, <1>5
<1> QED
  BY <1>2, <1>5, <1>6 DEF Shown, J

\* The message kinds.
LEMMA MessageFacts ==
    ASSUME NEW m \in ForGuest
    PROVE  /\ m.k \in {"lobby-state", "game-start", "countdown-tick", "player-move", "player-finish",
                       "game-begin", "player-disconnect"}
           /\ m.k = "lobby-state" => m.lobby \in LobbyType
           /\ m.k = "game-start" => m.challenge \in Challenge \cup {None} /\ m.countdown \in 0 .. 3
           /\ m.k = "countdown-tick" => m.countdown \in 0 .. 3
           /\ m.k \in {"player-move", "player-finish"} => m.id \in Browser /\ m.clicks \in Nat
BY DEF ForGuest

Started(L, c, n) == [L EXCEPT !.started = TRUE, !.challenge = c, !.countdown = n]

\* The start of a race, from the host and from the message of it.
LEMMA StartedFacts ==
    ASSUME NEW L \in LobbyType, NEW c \in Challenge \cup {None}, NEW n \in Null .. 3
    PROVE  /\ Started(L, c, n) \in LobbyType /\ Started(L, c, n).players = L.players
           /\ Started(L, c, n).started = TRUE /\ Started(L, c, n).challenge = c /\ Started(L, c, n).countdown = n
BY DEF Started, LobbyType

\* What each message makes of a lobby.
LEMMA AppliedIs ==
    ASSUME NEW L, NEW m
    PROVE  /\ m.k = "lobby-state" => Applied(L, m) = m.lobby
           /\ m.k = "game-start" => Applied(L, m) = Started(L, m.challenge, m.countdown)
           /\ m.k = "countdown-tick" => Applied(L, m) = Countdown(L, m.countdown)
           /\ m.k = "game-begin" => Applied(L, m) = Begun(L)
           /\ m.k = "player-move" => Applied(L, m) = Moved(L, m.id, m.clicks)
           /\ m.k = "player-finish" => Applied(L, m) = Finished(L, m.id, m.clicks)
BY DEF Applied, Started

\* It makes a lobby.
LEMMA AppliedType ==
    ASSUME NEW L \in LobbyType, NEW m \in ForGuest, m.k # "player-disconnect"
    PROVE  Applied(L, m) \in LobbyType
<1>1. CASE m.k = "lobby-state"
  BY <1>1, AppliedIs, MessageFacts
<1>2. CASE m.k = "game-start"
  <2>1. m.countdown \in Null .. 3
    BY <1>2, MessageFacts DEF Null
  <2>2. m.challenge \in Challenge \cup {None}
    BY <1>2, MessageFacts
  <2>3. Applied(L, m) = Started(L, m.challenge, m.countdown)
    BY <1>2, AppliedIs
  <2> QED
    BY <2>1, <2>2, <2>3, StartedFacts
<1>3. CASE m.k = "countdown-tick"
  <2>1. m.countdown \in Null .. 3
    BY <1>3, MessageFacts DEF Null
  <2> QED
    BY <1>3, <2>1, AppliedIs, CountdownFacts
<1>4. CASE m.k = "game-begin"
  BY <1>4, AppliedIs, BegunFacts
<1>5. CASE m.k = "player-move"
  BY <1>5, AppliedIs, MessageFacts, MovedFacts DEF Marks
<1>6. CASE m.k = "player-finish"
  BY <1>6, AppliedIs, MessageFacts, FinishedFacts DEF Marks
<1> QED
  BY <1>1, <1>2, <1>3, <1>4, <1>5, <1>6, MessageFacts

\* A change of p's entry here and there.
LEMMA ShownBoth ==
    ASSUME NEW g, NEW p, NEW G \in LobbyType, NEW H \in LobbyType, Shown(g, G, H),
           NEW A, NEW B, Marks(G, A, p), Marks(H, B, p),
           \A i \in DOMAIN G.players : A.players[i].ready = G.players[i].ready,
           \A i \in DOMAIN H.players : B.players[i].ready = H.players[i].ready,
           \A i \in DOMAIN G.players : i \in DOMAIN H.players /\ G.players[i] = H.players[i] => A.players[i] = B.players[i]
    PROVE  Shown(g, A, B)
<1>1. /\ DOMAIN A.players = DOMAIN G.players /\ Len(A.players) = Len(G.players)
      /\ DOMAIN B.players = DOMAIN H.players /\ Len(B.players) = Len(H.players)
      /\ \A i \in DOMAIN G.players : A.players[i].id = G.players[i].id
      /\ \A i \in DOMAIN H.players : B.players[i].id = H.players[i].id
      /\ A.challenge = G.challenge /\ A.started = G.started /\ A.countdown = G.countdown
      /\ B.challenge = H.challenge /\ B.started = H.started /\ B.countdown = H.countdown
  BY DEF Marks, SameIds
<1>2. ASSUME NEW i \in DOMAIN B.players
      PROVE  IF i \in DOMAIN A.players
             THEN /\ A.players[i].id = B.players[i].id
                  /\ B.players[i].id \in Fake \cup {g} \/ A.players[i] = B.players[i]
                  /\ B.players[i].id = g => A.players[i].ready = B.players[i].ready
             ELSE B.players[i].id \in Fake
  <2>1. i \in DOMAIN H.players
    BY <1>1, <1>2
  <2>2. CASE i \in DOMAIN G.players
    <3>1. /\ G.players[i].id = H.players[i].id
          /\ H.players[i].id \in Fake \cup {g} \/ G.players[i] = H.players[i]
          /\ H.players[i].id = g => G.players[i].ready = H.players[i].ready
      BY <2>1, <2>2 DEF Shown
    <3>2. A.players[i].ready = G.players[i].ready /\ B.players[i].ready = H.players[i].ready
      BY <2>1, <2>2
    <3>3. G.players[i] = H.players[i] => A.players[i] = B.players[i]
      BY <2>1, <2>2
    <3>4. A.players[i].id = G.players[i].id /\ B.players[i].id = H.players[i].id /\ i \in DOMAIN A.players
      BY <1>1, <2>1, <2>2
    <3> QED
      BY <3>1, <3>2, <3>3, <3>4
  <2>3. CASE i \notin DOMAIN G.players
    BY <1>1, <2>1, <2>3 DEF Shown
  <2> QED
    BY <2>2, <2>3
<1>3. /\ A.challenge = B.challenge /\ A.started = B.started /\ A.countdown = B.countdown
      /\ Len(A.players) <= Len(B.players)
  BY <1>1 DEF Shown
<1> QED
  BY <1>2, <1>3 DEF Shown

\* The same entries are found in both.
LEMMA FoundBoth ==
    ASSUME NEW g, NEW G \in LobbyType, NEW H \in LobbyType, Shown(g, G, H)
    PROVE  \A i \in DOMAIN G.players : Found(G, i) <=> Found(H, i)
<1>1. /\ DOMAIN G.players = 1 .. Len(G.players) /\ Len(G.players) \in Nat
      /\ DOMAIN H.players = 1 .. Len(H.players) /\ Len(H.players) \in Nat
  BY TypeFacts
<1>2. \A i \in DOMAIN G.players : i \in DOMAIN H.players /\ G.players[i].id = H.players[i].id
  BY <1>1 DEF Shown
<1>3. \A i \in DOMAIN G.players : \A j \in 1 .. i - 1 : j \in DOMAIN G.players
  BY <1>1
<1> QED
  BY <1>2, <1>3 DEF Found

\* A message of the host makes the same of both.
LEMMA ShownApplied ==
    ASSUME NEW g, NEW G \in LobbyType, NEW H \in LobbyType, Shown(g, G, H), NEW m \in ForGuest,
           m.k \notin {"lobby-state", "player-disconnect"}
    PROVE  Shown(g, Applied(G, m), Applied(H, m))
<1>1. CASE m.k = "game-start"
  <2>1. m.countdown \in Null .. 3 /\ m.challenge \in Challenge \cup {None}
    BY <1>1, MessageFacts DEF Null
  <2>2. /\ Applied(G, m) = Started(G, m.challenge, m.countdown)
        /\ Applied(H, m) = Started(H, m.challenge, m.countdown)
    BY <1>1, AppliedIs
  <2>a. PICK c \in Challenge \cup {None}, n \in Null .. 3 : c = m.challenge /\ n = m.countdown
    BY <2>1
  <2>3. PICK A, B : A = Started(G, c, n) /\ B = Started(H, c, n)
    OBVIOUS
  <2>4. /\ A.players = G.players /\ B.players = H.players
        /\ A.challenge = B.challenge /\ A.started = B.started /\ A.countdown = B.countdown
    BY <2>3 DEF Started, LobbyType
  <2>5. Shown(g, A, B)
    BY <2>4 DEF Shown
  <2> QED
    BY <2>2, <2>a, <2>3, <2>5
<1>2. CASE m.k = "countdown-tick"
  <2>1. m.countdown \in Null .. 3
    BY <1>2, MessageFacts DEF Null
  <2>2. PICK A, B : A = Countdown(G, m.countdown) /\ B = Countdown(H, m.countdown)
    OBVIOUS
  <2>3. /\ A.players = G.players /\ B.players = H.players
        /\ A.challenge = G.challenge /\ A.started = G.started /\ A.countdown = m.countdown
        /\ B.challenge = H.challenge /\ B.started = H.started /\ B.countdown = m.countdown
    BY <2>1, <2>2, CountdownFacts
  <2>4. Shown(g, A, B)
    BY <2>3 DEF Shown
  <2> QED
    BY <1>2, <2>2, <2>4, AppliedIs
<1>3. CASE m.k = "game-begin"
  <2>1. PICK A, B : A = Begun(G) /\ B = Begun(H)
    OBVIOUS
  <2>2. /\ A.challenge = G.challenge /\ A.started = G.started /\ A.countdown = Null
        /\ B.challenge = H.challenge /\ B.started = H.started /\ B.countdown = Null
        /\ DOMAIN A.players = DOMAIN G.players /\ Len(A.players) = Len(G.players)
        /\ DOMAIN B.players = DOMAIN H.players /\ Len(B.players) = Len(H.players)
        /\ \A i \in DOMAIN G.players : A.players[i] = AtStart(G.players[i])
        /\ \A i \in DOMAIN H.players : B.players[i] = AtStart(H.players[i])
    BY <2>1, BegunFacts DEF SameIds
  <2>3. /\ \A i \in DOMAIN G.players : A.players[i].id = G.players[i].id /\ A.players[i].ready = G.players[i].ready
        /\ \A i \in DOMAIN H.players : B.players[i].id = H.players[i].id /\ B.players[i].ready = H.players[i].ready
    BY <2>2, TypeFacts DEF AtStart, PlayerType
  <2>4. \A i \in DOMAIN H.players :
           IF i \in DOMAIN G.players
           THEN /\ G.players[i].id = H.players[i].id
                /\ H.players[i].id \in Fake \cup {g} \/ G.players[i] = H.players[i]
                /\ H.players[i].id = g => G.players[i].ready = H.players[i].ready
           ELSE H.players[i].id \in Fake
    BY DEF Shown
  <2>5. \A i \in DOMAIN B.players :
           IF i \in DOMAIN A.players
           THEN /\ A.players[i].id = B.players[i].id
                /\ B.players[i].id \in Fake \cup {g} \/ A.players[i] = B.players[i]
                /\ B.players[i].id = g => A.players[i].ready = B.players[i].ready
           ELSE B.players[i].id \in Fake
    BY <2>2, <2>3, <2>4
  <2>6. /\ A.challenge = B.challenge /\ A.started = B.started /\ A.countdown = B.countdown
        /\ Len(A.players) <= Len(B.players)
    BY <2>2 DEF Shown
  <2>7. Shown(g, A, B)
    BY <2>5, <2>6 DEF Shown
  <2> QED
    BY <1>3, <2>1, <2>7, AppliedIs
<1>4. CASE m.k = "player-move"
  <2>1. m.clicks \in Nat /\ m.id \in Browser
    BY <1>4, MessageFacts
  <2>2. PICK p \in Browser, n \in Nat : p = m.id /\ n = m.clicks
    BY <2>1
  <2>3. PICK A, B : A = Moved(G, p, n) /\ B = Moved(H, p, n)
    OBVIOUS
  <2>4. /\ Marks(G, A, p) /\ Marks(H, B, p)
        /\ \A i \in DOMAIN G.players : A.players[i].ready = G.players[i].ready
        /\ \A i \in DOMAIN H.players : B.players[i].ready = H.players[i].ready
    BY <2>2, <2>3, MovedFacts
  <2>5. /\ \A i \in DOMAIN G.players : A.players[i] = IF G.players[i].id = p /\ Found(G, i) THEN [G.players[i] EXCEPT !.clicks = n] ELSE G.players[i]
        /\ \A i \in DOMAIN H.players : B.players[i] = IF H.players[i].id = p /\ Found(H, i) THEN [H.players[i] EXCEPT !.clicks = n] ELSE H.players[i]
    BY <2>3 DEF Moved, Update, LobbyType
  <2>6. \A i \in DOMAIN G.players : i \in DOMAIN H.players /\ G.players[i] = H.players[i] => A.players[i] = B.players[i]
    BY <2>5, FoundBoth
  <2>7. Shown(g, A, B)
    BY <2>4, <2>6, ShownBoth
  <2> QED
    BY <1>4, <2>2, <2>3, <2>7, AppliedIs
<1>5. CASE m.k = "player-finish"
  <2>1. m.clicks \in Nat /\ m.id \in Browser
    BY <1>5, MessageFacts
  <2>2. PICK p \in Browser, n \in Nat : p = m.id /\ n = m.clicks
    BY <2>1
  <2>3. PICK A, B : A = Finished(G, p, n) /\ B = Finished(H, p, n)
    OBVIOUS
  <2>4. /\ Marks(G, A, p) /\ Marks(H, B, p)
        /\ \A i \in DOMAIN G.players : A.players[i].ready = G.players[i].ready
        /\ \A i \in DOMAIN H.players : B.players[i].ready = H.players[i].ready
    BY <2>2, <2>3, FinishedFacts
  <2>5. /\ \A i \in DOMAIN G.players : A.players[i] = IF G.players[i].id = p /\ Found(G, i) THEN [G.players[i] EXCEPT !.clicks = n, !.finished = TRUE] ELSE G.players[i]
        /\ \A i \in DOMAIN H.players : B.players[i] = IF H.players[i].id = p /\ Found(H, i) THEN [H.players[i] EXCEPT !.clicks = n, !.finished = TRUE] ELSE H.players[i]
    BY <2>3 DEF Finished, Update, LobbyType
  <2>6. \A i \in DOMAIN G.players : i \in DOMAIN H.players /\ G.players[i] = H.players[i] => A.players[i] = B.players[i]
    BY <2>5, FoundBoth
  <2>7. Shown(g, A, B)
    BY <2>4, <2>6, ShownBoth
  <2> QED
    BY <1>5, <2>2, <2>3, <2>7, AppliedIs
<1> QED
  BY <1>1, <1>2, <1>3, <1>4, <1>5, MessageFacts

------------------------------------------------------------------------------
(* What is on its way to a guest *)

\* Where a chain begins and ends.
LEMMA ChainFacts ==
    ASSUME NEW g, NEW q, NEW G, NEW H, NEW k, NEW s, Chain(g, q, G, H, k, s)
    PROVE  /\ k \in 0 .. Len(q) /\ s \in [k .. Len(q) -> LobbyType]
           /\ k = 0 => Shown(g, G, s[0])
           /\ k > 0 => q[k].k = "lobby-state" /\ Shown(g, q[k].lobby, s[k])
           /\ \A i \in k + 1 .. Len(q) : Shown(g, Applied(s[i - 1], q[i]), s[i])
           /\ Shown(g, s[Len(q)], H)
BY DEF Chain

\* Nothing is sent, and what g is shown stays.
LEMMA LinkedSame ==
    ASSUME NEW g, NEW q \in Seq(ForGuest), NEW G \in LobbyType, NEW H \in LobbyType, Linked(g, q, G, H),
           NEW A \in LobbyType, NEW B \in LobbyType, Shown(g, A, G), Shown(g, H, B)
    PROVE  Linked(g, q, A, B)
<1>1. PICK k, s : Chain(g, q, G, H, k, s)
  BY DEF Linked
<1>2. Len(q) \in Nat
  OBVIOUS
<1>3. /\ k \in 0 .. Len(q) /\ s \in [k .. Len(q) -> LobbyType]
      /\ k = 0 => Shown(g, G, s[0])
      /\ k > 0 => q[k].k = "lobby-state" /\ Shown(g, q[k].lobby, s[k])
      /\ \A i \in k + 1 .. Len(q) : Shown(g, Applied(s[i - 1], q[i]), s[i])
      /\ Shown(g, s[Len(q)], H)
  BY <1>1, ChainFacts
<1>4. k = 0 => Shown(g, A, s[0])
  <2> SUFFICES ASSUME k = 0 PROVE Shown(g, A, s[0])
    OBVIOUS
  <2>1. s[0] \in LobbyType /\ Shown(g, G, s[0])
    BY <1>2, <1>3
  <2> QED
    BY <2>1, ShownTrans
<1>5. Shown(g, s[Len(q)], B)
  <2>1. s[Len(q)] \in LobbyType
    BY <1>2, <1>3
  <2> QED
    BY <1>3, <2>1, ShownTrans
<1>6. Chain(g, q, A, B, k, s)
  BY <1>3, <1>4, <1>5 DEF Chain
<1> QED
  BY <1>6 DEF Linked

\* The host tells what it has done.
LEMMA LinkedTold ==
    ASSUME NEW g, NEW q \in Seq(ForGuest), NEW G \in LobbyType, NEW H \in LobbyType, Linked(g, q, G, H),
           NEW m \in ForGuest, m.k \notin {"lobby-state", "player-disconnect"},
           NEW r, r = Append(q, m), NEW B \in LobbyType, B = Applied(H, m)
    PROVE  Linked(g, r, G, B)
<1>1. PICK k, s : Chain(g, q, G, H, k, s)
  BY DEF Linked
<1>2. /\ Len(q) \in Nat /\ Len(r) = Len(q) + 1 /\ r[Len(q) + 1] = m /\ \A i \in 1 .. Len(q) : r[i] = q[i]
  OBVIOUS
<1>3. /\ k \in 0 .. Len(q) /\ s \in [k .. Len(q) -> LobbyType]
      /\ k = 0 => Shown(g, G, s[0])
      /\ k > 0 => q[k].k = "lobby-state" /\ Shown(g, q[k].lobby, s[k])
      /\ \A i \in k + 1 .. Len(q) : Shown(g, Applied(s[i - 1], q[i]), s[i])
      /\ Shown(g, s[Len(q)], H)
  BY <1>1, ChainFacts
<1> DEFINE t == [i \in k .. Len(q) + 1 |-> IF i = Len(q) + 1 THEN B ELSE s[i]]
<1>4. t \in [k .. Len(q) + 1 -> LobbyType] /\ t[Len(q) + 1] = B /\ \A i \in k .. Len(q) : t[i] = s[i]
  BY <1>2, <1>3
<1> HIDE DEF t
<1>5. k = 0 => Shown(g, G, t[0])
  BY <1>2, <1>3, <1>4
<1>6. k > 0 => r[k].k = "lobby-state" /\ Shown(g, r[k].lobby, t[k])
  BY <1>2, <1>3, <1>4
<1>7. ASSUME NEW i \in k + 1 .. Len(r) PROVE Shown(g, Applied(t[i - 1], r[i]), t[i])
  <2>1. CASE i \in k + 1 .. Len(q)
    <3>1. i - 1 \in k .. Len(q) /\ i \in k .. Len(q) /\ i \in 1 .. Len(q)
      BY <1>2, <1>3, <2>1
    <3>2. t[i - 1] = s[i - 1] /\ t[i] = s[i] /\ r[i] = q[i]
      BY <1>2, <1>4, <3>1
    <3> QED
      BY <1>3, <2>1, <3>2
  <2>2. CASE i = Len(q) + 1
    <3>1. t[i - 1] = s[Len(q)] /\ r[i] = m /\ t[i] = B /\ s[Len(q)] \in LobbyType
      BY <1>2, <1>3, <1>4, <2>2
    <3>2. Shown(g, Applied(s[Len(q)], m), Applied(H, m))
      BY <1>3, <3>1, ShownApplied
    <3> QED
      BY <3>1, <3>2
  <2> QED
    BY <1>2, <1>3, <1>7, <2>1, <2>2
<1>8. Shown(g, t[Len(r)], B)
  BY <1>2, <1>4, ShownRefl
<1>9. k \in 0 .. Len(r) /\ t \in [k .. Len(r) -> LobbyType]
  BY <1>2, <1>3, <1>4
<1>10. Chain(g, r, G, B, k, t)
  BY <1>5, <1>6, <1>7, <1>8, <1>9 DEF Chain
<1> QED
  BY <1>10 DEF Linked

\* The host sends the whole lobby: what came before does not matter.
LEMMA LinkedWhole ==
    ASSUME NEW g, NEW q \in Seq(ForGuest), NEW G, NEW B \in LobbyType,
           NEW m \in ForGuest, m.k = "lobby-state", m.lobby = B, NEW r, r = Append(q, m)
    PROVE  Linked(g, r, G, B)
<1>1. Len(q) \in Nat /\ Len(r) = Len(q) + 1 /\ r[Len(q) + 1] = m
  OBVIOUS
<1> DEFINE k == Len(q) + 1
           s == [i \in k .. k |-> B]
<1>2. s \in [k .. Len(r) -> LobbyType] /\ s[k] = B /\ k \in 0 .. Len(r) /\ k > 0 /\ k + 1 .. Len(r) = {} /\ k = Len(r)
  BY <1>1
<1>3. r[k].k = "lobby-state" /\ r[k].lobby = B
  BY <1>1
<1> HIDE DEF k, s
<1>4. Chain(g, r, G, B, k, s)
  BY <1>2, <1>3, ShownRefl DEF Chain
<1> QED
  BY <1>4 DEF Linked

\* The guest takes a message.
LEMMA LinkedRead ==
    ASSUME NEW g, NEW q \in Seq(ForGuest), NEW G \in LobbyType, NEW H \in LobbyType, Linked(g, q, G, H),
           q # <<>>, NEW m, m = Head(q), m.k # "player-disconnect",
           NEW r, r = Tail(q), NEW A \in LobbyType, A = Applied(G, m)
    PROVE  Linked(g, r, A, H)
<1>1. PICK k, s : Chain(g, q, G, H, k, s)
  BY DEF Linked
<1>2. /\ Len(q) \in Nat \ {0} /\ Len(r) = Len(q) - 1 /\ m = q[1] /\ m \in ForGuest
      /\ \A i \in 1 .. Len(q) - 1 : r[i] = q[i + 1]
  <2>1. Len(q) \in Nat \ {0}
    OBVIOUS
  <2> QED
    BY <2>1
<1>3. /\ k \in 0 .. Len(q) /\ s \in [k .. Len(q) -> LobbyType]
      /\ k = 0 => Shown(g, G, s[0])
      /\ k > 0 => q[k].k = "lobby-state" /\ Shown(g, q[k].lobby, s[k])
      /\ \A i \in k + 1 .. Len(q) : Shown(g, Applied(s[i - 1], q[i]), s[i])
      /\ Shown(g, s[Len(q)], H)
  BY <1>1, ChainFacts
<1> DEFINE l == IF k = 0 THEN 0 ELSE k - 1
           t == [i \in l .. Len(r) |-> s[i + 1]]
<1>4. /\ l \in 0 .. Len(r) /\ t \in [l .. Len(r) -> LobbyType] /\ \A i \in l .. Len(r) : t[i] = s[i + 1]
      /\ ((k = 0 /\ l = 0) \/ (k > 0 /\ l = k - 1)) /\ k \in Nat
  <2>1. /\ l \in 0 .. Len(r) /\ ((k = 0 /\ l = 0) \/ (k > 0 /\ l = k - 1)) /\ k \in Nat
    BY <1>2, <1>3
  <2>2. \A i \in l .. Len(r) : i + 1 \in k .. Len(q)
    BY <1>2, <1>3, <2>1
  <2> HIDE DEF l
  <2>3. t \in [l .. Len(r) -> LobbyType] /\ \A i \in l .. Len(r) : t[i] = s[i + 1]
    BY <1>3, <2>2
  <2> QED
    BY <2>1, <2>3
<1> HIDE DEF l, t
<1>5. l = 0 => Shown(g, A, t[0])
  <2>1. CASE k = 0
    <3>1. 1 \in k + 1 .. Len(q) /\ s[0] \in LobbyType /\ s[1] \in LobbyType /\ t[0] = s[1]
      BY <1>2, <1>3, <1>4, <2>1
    <3>2. Shown(g, Applied(s[1 - 1], q[1]), s[1])
      BY <1>3, <3>1
    <3>3. Shown(g, Applied(s[0], m), s[1])
      BY <1>2, <3>2
    <3>4. PICK K : K = Applied(s[0], m)
      OBVIOUS
    <3>5. K \in LobbyType /\ Shown(g, A, K)
      <4>1. CASE m.k = "lobby-state"
        <5>1. A = m.lobby /\ K = m.lobby
          BY <4>1, <3>4, AppliedIs
        <5> QED
          BY <5>1, ShownRefl
      <4>2. CASE m.k # "lobby-state"
        BY <1>2, <1>3, <2>1, <3>1, <3>4, <4>2, ShownApplied, AppliedType
      <4> QED
        BY <4>1, <4>2
    <3> QED
      BY <3>1, <3>3, <3>4, <3>5, ShownTrans
  <2>2. CASE k = 1
    <3>1. A = q[1].lobby /\ t[0] = s[1]
      BY <1>2, <1>3, <1>4, <2>2, AppliedIs
    <3> QED
      BY <1>3, <2>2, <3>1
  <2> QED
    BY <1>3, <1>4, <2>1, <2>2
<1>6. l > 0 => r[l].k = "lobby-state" /\ Shown(g, r[l].lobby, t[l])
  <2> SUFFICES ASSUME l > 0 PROVE r[l].k = "lobby-state" /\ Shown(g, r[l].lobby, t[l])
    OBVIOUS
  <2>1. k > 0 /\ l = k - 1 /\ l \in 1 .. Len(q) - 1 /\ l \in l .. Len(r) /\ l + 1 = k
    BY <1>2, <1>3, <1>4
  <2>2. r[l] = q[k] /\ t[l] = s[k]
    BY <1>2, <1>4, <2>1
  <2> QED
    BY <1>3, <2>1, <2>2
<1>7. ASSUME NEW i \in l + 1 .. Len(r) PROVE Shown(g, Applied(t[i - 1], r[i]), t[i])
  <2>1. /\ i + 1 \in k + 1 .. Len(q) /\ i - 1 \in l .. Len(r) /\ i \in l .. Len(r) /\ i \in 1 .. Len(q) - 1
        /\ (i + 1) - 1 = i /\ (i - 1) + 1 = i
    BY <1>2, <1>3, <1>4, <1>7
  <2>2. t[i - 1] = s[i] /\ t[i] = s[i + 1] /\ r[i] = q[i + 1]
    BY <1>2, <1>4, <2>1
  <2>3. Shown(g, Applied(s[(i + 1) - 1], q[i + 1]), s[i + 1])
    BY <1>3, <2>1
  <2> QED
    BY <2>1, <2>2, <2>3
<1>8. Shown(g, t[Len(r)], H)
  <2>1. Len(r) \in l .. Len(r) /\ Len(r) + 1 = Len(q)
    BY <1>2, <1>4
  <2> QED
    BY <1>3, <1>4, <2>1
<1>9. Chain(g, r, A, H, l, t)
  BY <1>4, <1>5, <1>6, <1>7, <1>8 DEF Chain
<1> QED
  BY <1>9 DEF Linked

\* Nothing is under way.
LEMMA LinkedIdle ==
    ASSUME NEW g, NEW G \in LobbyType, NEW H \in LobbyType, Linked(g, <<>>, G, H)
    PROVE  Shown(g, G, H)
<1>1. PICK k, s : Chain(g, <<>>, G, H, k, s)
  BY DEF Linked
<1>2. /\ k = 0 /\ s[0] \in LobbyType /\ Shown(g, G, s[0]) /\ Shown(g, s[0], H)
  BY <1>1, ChainFacts
<1> QED
  BY <1>2, ShownTrans

------------------------------------------------------------------------------
(* What the steps have in common *)

\* A message.
LEMMA OneFacts ==
    ASSUME NEW S, NEW m \in S
    PROVE  /\ <<m>> \in Seq(S) /\ Messages(<<m>>) = {m}
           /\ \A q \in Seq(S) : q \o <<m>> = Append(q, m)
<1>1. ASSUME NEW q \in Seq(S) PROVE q \o <<m>> = Append(q, m)
  BY TwoFacts
<1>2. <<>> \in Seq(S)
  OBVIOUS
<1>3. <<m>> \in Seq(S) /\ Messages(<<m>>) = {m}
  BY <1>2, TwoFacts
<1> QED
  BY <1>1, <1>3

\* Two messages.
LEMMA PairFacts ==
    ASSUME NEW S, NEW m \in S, NEW n \in S
    PROVE  /\ <<m, n>> \in Seq(S) /\ Messages(<<m, n>>) = {m, n}
           /\ \A q \in Seq(S) : q \o <<m, n>> = Append(Append(q, m), n)
<1>1. ASSUME NEW q \in Seq(S) PROVE q \o <<m, n>> = Append(Append(q, m), n)
  BY TwoFacts
<1>2. <<m, n>> \in Seq(S)
  OBVIOUS
<1>3. Messages(<<m, n>>) = {m, n}
  BY DEF Messages
<1> QED
  BY <1>1, <1>3

\* The inductive invariant.
Inv == Carried /\ Roster /\ Hush /\ Peopled /\ Reported /\ Chained

\* Who is who.
LEMMA People ==
    /\ Host \in Browser /\ Host \notin Guest /\ Host \notin Fake /\ Guest \subseteq Browser /\ Guest \cap Fake = {}
    /\ \A b \in Browser : b = Host \/ b \in Guest
    /\ \A g \in Guest : g \in Browser /\ g # Host /\ g \notin Fake
BY RoomAssumption DEF Browser

\* The lobby that nobody is in.
LEMMA EmptyFacts ==
    Empty \in LobbyType /\ Empty.players = <<>> /\ ~ Empty.started /\ Calm(Empty) /\ Ids(Empty) = {}
BY DEF Empty, LobbyType, Calm, Ids, Null

\* Who joins.
LEMMA PlayerFacts ==
    ASSUME NEW p \in Browser \cup Fake
    PROVE  /\ Player(p) \in PlayerType /\ Player(p).id = p
           /\ [Player(p) EXCEPT !.ready = TRUE] \in PlayerType /\ [Player(p) EXCEPT !.ready = TRUE].id = p
BY DEF Player, PlayerType

\* The ids of a lobby.
LEMMA IdsFacts ==
    ASSUME NEW L \in LobbyType
    PROVE  (L.players # <<>> <=> Ids(L) # {}) /\ \A i \in DOMAIN L.players : L.players[i].id \in Ids(L)
<1> DEFINE q == L.players
<1>1. q \in Seq(PlayerType) /\ Len(q) \in Nat /\ DOMAIN q = 1 .. Len(q)
  BY TypeFacts
<1>2. q = <<>> <=> Len(q) = 0
  BY <1>1
<1>3. Len(q) # 0 <=> 1 \in DOMAIN q
  BY <1>1
<1>4. Ids(L) = {q[i].id : i \in DOMAIN q}
  BY DEF Ids
<1>5. Len(q) = 0 => DOMAIN q = {}
  BY <1>1
<1> HIDE DEF q
<1>6. q # <<>> <=> Ids(L) # {}
  BY <1>2, <1>3, <1>4, <1>5
<1> QED
  BY <1>4, <1>6 DEF q

\* What a page can show.
LEMMA GameFacts ==
    ASSUME NEW s \in GameType
    PROVE  /\ s.screen \in {"home", "lobby", "game"} /\ s.playing \in BOOLEAN /\ s.clicks \in Nat
           /\ s.timer \in BOOLEAN /\ s.modal \in BOOLEAN
           /\ \A n \in Nat : [s EXCEPT !.clicks = n] \in GameType
           /\ \A n \in Nat : [s EXCEPT !.clicks = n, !.timer = FALSE] \in GameType
           /\ \A x \in {"home", "lobby", "game"} : [s EXCEPT !.screen = x] \in GameType
           /\ \A x \in {"home", "lobby", "game"} : [s EXCEPT !.screen = x, !.modal = FALSE] \in GameType
           /\ \A x \in {"home", "lobby", "game"} : [s EXCEPT !.modal = FALSE, !.screen = x] \in GameType
           /\ AtHome \in GameType
BY DEF GameType, AtHome

\* Browser b has come to the target, and races on.
Reports(b) == game[b].playing /\ ~ game[b].timer

\* A browser's lobby and page when its page is told of the lobby.
LEMMA NotifyFacts ==
    ASSUME Carried, NEW b \in Browser, NEW L \in LobbyType, Notify(b, L)
    PROVE  /\ lobby' \in [Browser -> LobbyType] /\ game' \in [Browser -> GameType]
           /\ lobby'[b] = L /\ \A x \in Browser : x # b => lobby'[x] = lobby[x] /\ game'[x] = game[x]
           /\ ~ game[b].playing /\ Calm(L) => game'[b] = game[b]
           /\ Reports(b)' => Reports(b)
<1>1. lobby \in [Browser -> LobbyType] /\ game \in [Browser -> GameType] /\ game[b] \in GameType
  BY DEF Carried
<1>2. game'[b] = Notified(game[b], L) /\ lobby'[b] = L
  BY <1>1 DEF Notify
<1>3. /\ Notified(game[b], L) \in GameType
      /\ ~ game[b].playing /\ Calm(L) => Notified(game[b], L) = game[b]
      /\ Notified(game[b], L).playing /\ ~ Notified(game[b], L).timer => game[b].playing /\ ~ game[b].timer
  BY <1>1, NotifiedFacts
<1> QED
  BY <1>1, <1>2, <1>3 DEF Notify, Reports

------------------------------------------------------------------------------

\* The host has not created a room.
Vacant == lobby[Host] = Empty /\ peers = {} /\ ticks = <<>> /\ \A g \in Guest : conn[g] = "none"

\* A host that has a room is in it, with the guests it is connected to.
LEMMA Hosted ==
    ASSUME Carried, Roster, Host \notin gone, ~ Vacant
    PROVE  /\ Apart(lobby[Host], Strayed) /\ Ids(lobby[Host]) \ Fake = {Host} \cup peers
           /\ lobby[Host].players # <<>> /\ lobby[Host] # Empty
<1>1. Apart(lobby[Host], Strayed) /\ Ids(lobby[Host]) \ Fake = {Host} \cup peers
  BY DEF Roster, Vacant
<1> QED
  BY <1>1, People, EmptyFacts, IdsFacts DEF Carried

\* Roster stays when the host's lobby keeps its players.
LEMMA RosterKept ==
    ASSUME Carried, Roster, peers' = peers, strays' = strays, Host \in gone' <=> Host \in gone, lobby' \in [Browser -> LobbyType],
           \A g \in Guest : conn'[g] = "none" => conn[g] = "none",
           \A g \in Guest : conn'[g] \in Early => conn[g] \in Early /\ code'[g] = code[g] /\ lobby'[g] = lobby[g],
           SameIds(lobby[Host], lobby'[Host]), Host \in gone => lobby'[Host].started = lobby[Host].started,
           bots' \subseteq Ids(lobby[Host]),
           Host \in gone \/ ~ Vacant \/ (lobby'[Host] = lobby[Host] /\ ticks' = ticks /\ conn' = conn)
    PROVE  Roster'
<1>1. /\ lobby[Host] \in LobbyType /\ lobby'[Host] \in LobbyType
      /\ Ids(lobby'[Host]) = Ids(lobby[Host]) /\ (Apart(lobby[Host], Strayed) => Apart(lobby'[Host], Strayed'))
  BY People, SameIdsFacts DEF Carried, Strayed
<1>2. /\ \A g \in Guest : conn'[g] \in Early => (g \in peers' => strays'[g] > 0) /\ code'[g] = Empty /\ lobby'[g] = Empty
      /\ \A g \in Guest : conn'[g] = "none" => strays'[g] = 0
  BY DEF Roster
<1>3. bots' \subseteq Ids(lobby'[Host]) /\ (Host \in gone' => ~ lobby'[Host].started)
  BY <1>1 DEF Roster
<1>4. ASSUME Host \notin gone' PROVE Vacant' \/ (Apart(lobby'[Host], Strayed') /\ Ids(lobby'[Host]) \ Fake = {Host} \cup peers')
  <2>1. CASE ~ Vacant
    BY <1>1, <1>4, <2>1, Hosted
  <2>2. CASE Vacant
    BY <1>4, <2>2 DEF Vacant
  <2> QED
    BY <2>1, <2>2
<1> QED
  BY <1>2, <1>3, <1>4 DEF Roster, Vacant

\* A report of g is on its way to the host.
Arrived(g) == \E m \in Messages(toHost[g]) : m.k = "player-finish"

\* Reported stays when no report is lost and no finish taken back.
LEMMA ReportedKept ==
    ASSUME Reported, starts' = starts, Host \in gone => Host \in gone',
           \A g \in Guest : (conn'[g] = "open" /\ g \in peers' /\ Host \notin gone') =>
               /\ conn[g] = "open" /\ g \in peers /\ (Reports(g)' => Reports(g))
               /\ Arrived(g) => Arrived(g)'
               /\ Done(lobby[Host], g) => Done(lobby'[Host], g)
    PROVE  Reported'
<1> SUFFICES ASSUME NEW g \in Guest, starts' = 1, conn'[g] = "open", g \in peers', Host \notin gone', Reports(g)'
             PROVE  \/ Arrived(g)'
                    \/ Done(lobby'[Host], g)
  BY DEF Reported, Reports, Arrived
<1>1. /\ conn[g] = "open" /\ g \in peers /\ Host \notin gone /\ Reports(g) /\ starts = 1
  OBVIOUS
<1>2. \/ Arrived(g)
      \/ Done(lobby[Host], g)
  BY <1>1 DEF Reported, Reports, Arrived
<1>3. CASE Arrived(g)
  BY <1>3
<1>4. CASE Done(lobby[Host], g)
  BY <1>4
<1> QED
  BY <1>2, <1>3, <1>4

\* No goodbye of the host is on its way.
Untold == \A g \in Guest : \A m \in Messages(toGuest[g]) : m.k # "player-disconnect"

\* Chained stays when it does for each guest.
LEMMA ChainedKept ==
    ASSUME Chained, Host \in gone => Host \in gone', Host \notin gone' /\ Untold => Untold',
           \A g \in Guest : (conn'[g] = "open" /\ g \in peers' /\ Host \notin gone') =>
               /\ conn[g] = "open" /\ g \in peers
               /\ Pending(g) => Pending(g)' \/ Linked(g, toGuest'[g], lobby'[g], lobby'[Host])
               /\ Linked(g, toGuest[g], lobby[g], lobby[Host])
                     => Pending(g)' \/ Linked(g, toGuest'[g], lobby'[g], lobby'[Host])
    PROVE  Chained'
<1>1. Host \notin gone' => Untold'
  BY DEF Chained, Untold
<1>2. ASSUME NEW g \in Guest, conn'[g] = "open", g \in peers', Host \notin gone'
      PROVE  Pending(g)' \/ Linked(g, toGuest'[g], lobby'[g], lobby'[Host])
  BY <1>2 DEF Chained
<1> QED
  BY <1>1, <1>2 DEF Chained, Untold

\* A lobby has the players that it has.
LEMMA Stays ==
    ASSUME NEW L \in LobbyType PROVE SameIds(L, L)
BY DEF SameIds

------------------------------------------------------------------------------
(* Connections and pages change *)

\* A connection comes further or ends, and nothing else changes.
LEMMA WireStep ==
    ASSUME Inv, NEW g \in Guest, NEW k \in Conns, conn' = [conn EXCEPT ![g] = k],
           UNCHANGED <<lobby, game, gone, peers, code, toHost, toGuest, strays, sim>>,
           \/ k \in Early \ {"none"} /\ conn[g] \in Early /\ ~ (Host \notin gone /\ Vacant)
           \/ k = "closed" /\ conn[g] \in {"accepted", "completed", "open"}
    PROVE  Inv'
<1> USE DEF Inv
<1>1. /\ conn' \in [Guest -> Conns] /\ conn'[g] = k /\ \A x \in Guest : x # g => conn'[x] = conn[x]
      /\ ticks' = ticks /\ starts' = starts /\ bots' = bots /\ k # "open" /\ (k = "completed" => FALSE)
  BY DEF Carried, sim, Early
<1>2. Carried'
  BY <1>1 DEF Carried
<1>3. Roster'
  <2>1. lobby[Host] \in LobbyType
    BY People DEF Carried
  <2>2. \A x \in Guest : (conn'[x] \in Early => conn[x] \in Early) /\ (conn'[x] = "none" => conn[x] = "none")
    BY <1>1 DEF Early
  <2>3. Host \in gone \/ ~ Vacant
    BY DEF Vacant
  <2> QED
    BY <1>1, <2>1, <2>2, <2>3, Stays, RosterKept DEF Carried, Roster
<1>4. Hush'
  BY <1>1 DEF Hush, Waiting
<1>5. Peopled'
  <2> SUFFICES ASSUME NEW x \in Guest
               PROVE  /\ conn'[x] \in {"completed", "open"} => lobby[x].players # <<>>
                      /\ code[x] = Empty \/ code[x].players # <<>>
                      /\ \A m \in Messages(toGuest[x]) : m.k = "lobby-state" => m.lobby.players # <<>>
                      /\ toGuest[x] # <<>> => conn'[x] \in {"open", "closed"}
                      /\ conn'[x] \notin {"open", "closed"} => game[x].screen # "game" /\ (game[x].playing => game[x].timer)
    BY DEF Peopled
  <2> QED
    BY <1>1 DEF Peopled, Early
<1>6. Reported'
  BY <1>1, ReportedKept DEF Reports, Arrived
<1>7. Chained'
  BY <1>1, ChainedKept DEF Pending, Untold
<1> QED
  BY <1>2, <1>3, <1>4, <1>5, <1>6, <1>7

LEMMA JoinRoomStep == ASSUME Inv, NEW g \in Guest, JoinRoom(g) PROVE Inv'
<1>1. Host \in gone \/ ~ Vacant
  BY DEF JoinRoom, Vacant
<1> QED
  BY <1>1, WireStep DEF JoinRoom, Conns, Early

LEMMA AcceptJoinStep == ASSUME Inv, NEW g \in Guest, AcceptJoin(g) PROVE Inv'
<1>1. ~ Vacant
  BY EmptyFacts DEF AcceptJoin, Vacant, On, InRoom
<1> QED
  BY <1>1, WireStep DEF AcceptJoin, Conns, Early

LEMMA BreakStep == ASSUME Inv, NEW g \in Guest, Break(g) PROVE Inv'
BY WireStep DEF Break, Conns

LEMMA OpenStep == ASSUME Inv, NEW g \in Guest, Open(g) PROVE Inv'
<1> USE DEF Inv
<1> DEFINE m == Msg("player-info")
<1>1. /\ conn' \in [Guest -> Conns] /\ conn'[g] = "open" /\ \A x \in Guest : x # g => conn'[x] = conn[x]
      /\ conn[g] = "completed"
      /\ toHost \in [Guest -> Seq(ForHost)] /\ toHost[g] \in Seq(ForHost)
      /\ UNCHANGED <<lobby, game, gone, peers, code, toGuest, noticed, strays, ticks, starts, bots>>
  BY DEF Carried, Open, sim, Conns
<1>2. m \in ForHost /\ m.k = "player-info"
  BY DEF Msg, ForHost
<1>3. /\ toHost' = [toHost EXCEPT ![g] = Append(@, m)]
  BY DEF Open
<1> HIDE DEF m
<1>4. /\ Append(toHost[g], m) \in Seq(ForHost) /\ Messages(Append(toHost[g], m)) = Messages(toHost[g]) \cup {m}
  BY <1>1, <1>2, QueueFacts
<1>5. /\ toHost' \in [Guest -> Seq(ForHost)] /\ Messages(toHost'[g]) = Messages(toHost[g]) \cup {m}
      /\ \A x \in Guest : x # g => toHost'[x] = toHost[x]
  BY <1>1, <1>3, <1>4
<1>6. Carried'
  BY <1>1, <1>2, <1>5 DEF Carried
<1>7. Roster'
  <2>1. lobby[Host] \in LobbyType
    BY People DEF Carried
  <2>2. \A x \in Guest : (conn'[x] \in Early => conn[x] \in Early) /\ (conn'[x] = "none" => conn[x] = "none")
    BY <1>1 DEF Early
  <2>3. ~ Vacant
    BY <1>1 DEF Vacant
  <2> QED
    BY <1>1, <2>1, <2>2, <2>3, Stays, RosterKept DEF Carried, Roster
<1>8. Hush'
  BY <1>1 DEF Hush, Waiting
<1>9. Peopled'
  BY <1>1 DEF Peopled
<1>10. Reported'
  <2>1. ~ Reports(g)
    BY <1>1 DEF Peopled, Reports
  <2>2. \A x \in Guest : Arrived(x) => Arrived(x)'
    BY <1>5 DEF Arrived
  <2> SUFFICES ASSUME NEW x \in Guest, starts' = 1, conn'[x] = "open", x \in peers', Host \notin gone', Reports(x)'
             PROVE  \/ Arrived(x)'
                    \/ Done(lobby'[Host], x)
    BY DEF Reported, Reports, Arrived
  <2>3. x # g /\ conn[x] = "open" /\ Reports(x)
    BY <1>1, <2>1 DEF Reports
  <2> QED
    BY <1>1, <2>2, <2>3 DEF Reported, Reports, Arrived
<1>11. Chained'
  <2>1. ASSUME NEW x \in Guest, conn'[x] = "open", x \in peers', Host \notin gone'
        PROVE  Pending(x)' \/ Linked(x, toGuest'[x], lobby'[x], lobby'[Host])
    <3>1. CASE x = g
      BY <1>2, <1>5, <3>1 DEF Pending
    <3>2. CASE x # g
      BY <1>1, <1>5, <2>1, <3>2 DEF Chained, Pending
    <3> QED
      BY <3>1, <3>2
  <2> QED
    BY <1>1, <2>1 DEF Chained
<1> QED
  BY <1>6, <1>7, <1>8, <1>9, <1>10, <1>11

\* Only what the pages show changes.
LEMMA PageStep ==
    ASSUME Inv, NEW b \in Browser, NEW s \in GameType, game' = [game EXCEPT ![b] = s],
           s.playing = game[b].playing, s.timer = game[b].timer,
           s.screen = game[b].screen \/ s.screen # "game",
           UNCHANGED <<lobby, gone, peers, net, sim>>
    PROVE  Inv'
<1> USE DEF Inv
<1>1. /\ game' \in [Browser -> GameType] /\ game'[b] = s /\ \A x \in Browser : x # b => game'[x] = game[x]
      /\ UNCHANGED <<conn, code, toHost, toGuest, noticed, strays, ticks, starts, bots>>
  BY DEF Carried, sim, net
<1>2. Carried'
  BY <1>1 DEF Carried
<1>3. Roster'
  BY <1>1 DEF Roster, Strayed
<1>4. Hush'
  BY <1>1 DEF Hush, Waiting
<1>5. Peopled'
  BY <1>1, People DEF Peopled
<1>6. Reported'
  BY <1>1, People DEF Reported
<1>7. Chained'
  BY <1>1 DEF Chained, Pending
<1> QED
  BY <1>2, <1>3, <1>4, <1>5, <1>6, <1>7

LEMMA ClickBreadcrumbStep == ASSUME Inv, NEW b \in Browser, ClickBreadcrumb(b) PROVE Inv'
<1>1. game \in [Browser -> GameType] /\ game[b] \in GameType
  BY DEF Inv, Carried
<1>2. PICK n \in 0 .. game[b].clicks - 1 : game' = [game EXCEPT ![b].clicks = n]
  BY DEF ClickBreadcrumb
<1> DEFINE s == [game[b] EXCEPT !.clicks = n]
<1>3. n \in Nat
  OBVIOUS
<1>4. s \in GameType /\ s.playing = game[b].playing /\ s.timer = game[b].timer /\ s.screen = game[b].screen
  BY <1>1, <1>3 DEF GameType
<1>5. game' = [game EXCEPT ![b] = s]
  BY <1>1, <1>2
<1> HIDE DEF s
<1> QED
  BY <1>4, <1>5, PageStep DEF ClickBreadcrumb

LEMMA PlayAgainStep == ASSUME Inv, NEW b \in Browser, PlayAgain(b) PROVE Inv'
<1>1. game \in [Browser -> GameType] /\ game[b] \in GameType
  BY DEF Inv, Carried
<1> DEFINE s == [game[b] EXCEPT !.modal = FALSE, !.screen = "lobby"]
<1>2. s \in GameType /\ s.playing = game[b].playing /\ s.timer = game[b].timer /\ s.screen # "game"
  BY <1>1 DEF GameType
<1>3. game' = [game EXCEPT ![b] = s]
  BY <1>1 DEF PlayAgain
<1> HIDE DEF s
<1> QED
  BY <1>2, <1>3, PageStep DEF PlayAgain

------------------------------------------------------------------------------
(* The host and its guests *)

\* The host has the lobby L now and sends ms.
LEMMA HostQuiet ==
    ASSUME Inv, NEW L \in LobbyType, NEW to, NEW ms \in Seq(ForGuest), toGuest' = Sent(toGuest, to, ms),
           lobby'[Host] = L, \A g \in Guest : lobby'[g] = lobby[g] /\ game'[g] = game[g],
           Waiting' => /\ Waiting /\ Calm(L) /\ ~ game'[Host].playing
                       /\ \A m \in Messages(ms) : CalmMsg(m),
           \A m \in Messages(ms) : m.k = "lobby-state" => m.lobby.players # <<>>,
           \A g \in Guest : \/ code'[g] = code[g]
                            \/ code'[g] = L /\ L.players # <<>>,
           \A g \in Guest : \/ conn'[g] = conn[g] \/ conn'[g] = "closed"
                            \/ conn[g] = "accepting" /\ conn'[g] \in {"accepted", "offered"}
    PROVE  Hush' /\ Peopled'
<1> USE DEF Inv
<1>1. toGuest \in [Guest -> Seq(ForGuest)]
  BY DEF Carried
<1>2. \A g \in Guest : /\ toGuest'[g] = IF g \in to /\ conn[g] = "open" THEN toGuest[g] \o ms ELSE toGuest[g]
                       /\ Messages(toGuest'[g]) \subseteq Messages(toGuest[g]) \cup Messages(ms)
  BY <1>1, SentFacts
<1>3. Hush'
  <2> SUFFICES ASSUME Waiting'
               PROVE  /\ \A b \in Browser : ~ game'[b].playing /\ Calm(lobby'[b])
                      /\ \A g \in Guest : Calm(code'[g]) /\ \A m \in Messages(toGuest'[g]) : CalmMsg(m)
    BY DEF Hush
  <2>1. Waiting /\ Calm(L) /\ ~ game'[Host].playing /\ \A m \in Messages(ms) : CalmMsg(m)
    OBVIOUS
  <2>2. /\ \A b \in Browser : ~ game[b].playing /\ Calm(lobby[b])
        /\ \A g \in Guest : Calm(code[g]) /\ \A m \in Messages(toGuest[g]) : CalmMsg(m)
    BY <2>1 DEF Hush
  <2>3. ASSUME NEW b \in Browser PROVE ~ game'[b].playing /\ Calm(lobby'[b])
    <3>1. CASE b = Host
      BY <2>1, <3>1
    <3>2. CASE b \in Guest
      BY <2>2, <3>2, People
    <3> QED
      BY <3>1, <3>2, People
  <2>4. ASSUME NEW g \in Guest PROVE Calm(code'[g]) /\ \A m \in Messages(toGuest'[g]) : CalmMsg(m)
    <3>1. Calm(code'[g])
      BY <2>1, <2>2
    <3>2. \A m \in Messages(toGuest'[g]) : CalmMsg(m)
      BY <1>2, <2>1, <2>2
    <3> QED
      BY <3>1, <3>2
  <2> QED
    BY <2>3, <2>4
<1>4. ASSUME NEW g \in Guest
      PROVE  /\ conn'[g] \in {"completed", "open"} => lobby'[g].players # <<>>
             /\ code'[g] = Empty \/ code'[g].players # <<>>
             /\ \A m \in Messages(toGuest'[g]) : m.k = "lobby-state" => m.lobby.players # <<>>
             /\ toGuest'[g] # <<>> => conn'[g] \in {"open", "closed"}
             /\ conn'[g] \notin {"open", "closed"} => game'[g].screen # "game" /\ (game'[g].playing => game'[g].timer)
  <2>1. /\ conn[g] \in {"completed", "open"} => lobby[g].players # <<>>
        /\ code[g] = Empty \/ code[g].players # <<>>
        /\ \A m \in Messages(toGuest[g]) : m.k = "lobby-state" => m.lobby.players # <<>>
        /\ toGuest[g] # <<>> => conn[g] \in {"open", "closed"}
        /\ conn[g] \notin {"open", "closed"} => game[g].screen # "game" /\ (game[g].playing => game[g].timer)
    BY DEF Peopled
  <2>2. conn'[g] \in {"completed", "open"} => lobby'[g].players # <<>>
    BY <2>1
  <2>3. code'[g] = Empty \/ code'[g].players # <<>>
    BY <2>1
  <2>4. \A m \in Messages(toGuest'[g]) : m.k = "lobby-state" => m.lobby.players # <<>>
    BY <1>2, <2>1
  <2>5. toGuest'[g] # <<>> => conn'[g] \in {"open", "closed"}
    <3>1. toGuest'[g] # <<>> => conn[g] \in {"open", "closed"}
      BY <1>2, <2>1
    <3> QED
      BY <3>1
  <2>6. conn'[g] \notin {"open", "closed"} => game'[g].screen # "game" /\ (game'[g].playing => game'[g].timer)
    BY <2>1
  <2> QED
    BY <2>2, <2>3, <2>4, <2>5, <2>6
<1> QED
  BY <1>3, <1>4 DEF Peopled

\* The host sends its lobby to all that it is connected to.
LEMMA ChainWhole ==
    ASSUME Inv, NEW L \in LobbyType, NEW to, NEW m \in ForGuest, m.k = "lobby-state", m.lobby = L,
           toGuest' = Sent(toGuest, to, <<m>>), lobby'[Host] = L, \A g \in Guest : lobby'[g] = lobby[g],
           gone' = gone,
           \A g \in Guest : conn'[g] = "open" /\ g \in peers' => conn[g] = "open" /\ g \in peers /\ g \in to
    PROVE  Chained'
<1>1. toGuest \in [Guest -> Seq(ForGuest)] /\ lobby \in [Browser -> LobbyType]
  BY DEF Inv, Carried
<1>2. PICK ms : ms = <<m>>
  OBVIOUS
<1>3. \A g \in Guest : /\ toGuest'[g] = IF g \in to /\ conn[g] = "open" THEN Append(toGuest[g], m) ELSE toGuest[g]
                       /\ Messages(toGuest'[g]) \subseteq Messages(toGuest[g]) \cup {m}
  <2>1. ms \in Seq(ForGuest)
    BY <1>2, OneFacts
  <2>4. Messages(ms) = {m} /\ \A q \in Seq(ForGuest) : q \o ms = Append(q, m)
    BY <1>2, OneFacts
  <2>2. toGuest' = Sent(toGuest, to, ms)
    BY <1>2
  <2>3. \A g \in Guest : /\ toGuest'[g] = IF g \in to /\ conn[g] = "open" THEN toGuest[g] \o ms ELSE toGuest[g]
                         /\ Messages(toGuest'[g]) \subseteq Messages(toGuest[g]) \cup Messages(ms)
    <3>1. PICK r : r = Sent(toGuest, to, ms)
      OBVIOUS
    <3>2. toGuest \in [Guest -> Seq(ForGuest)]
      BY <1>1
    <3>3. \A g \in Guest : /\ r[g] = IF g \in to /\ conn[g] = "open" THEN toGuest[g] \o ms ELSE toGuest[g]
                           /\ Messages(r[g]) \subseteq Messages(toGuest[g]) \cup Messages(ms)
      BY <2>1, <3>1, <3>2, SentFacts
    <3> QED
      BY <2>2, <3>1, <3>3
  <2> QED
    BY <1>1, <2>3, <2>4
<1>4. Untold => Untold'
  BY <1>3 DEF Untold
<1>5. ASSUME NEW g \in Guest, conn'[g] = "open", g \in peers'
      PROVE  Linked(g, toGuest'[g], lobby'[g], lobby'[Host])
  <2>1. toGuest[g] \in Seq(ForGuest) /\ toGuest'[g] = Append(toGuest[g], m) /\ lobby[g] \in LobbyType
    BY <1>1, <1>3, <1>5, People
  <2>2. Linked(g, toGuest'[g], lobby[g], L)
    BY <2>1, LinkedWhole
  <2> QED
    BY <2>2
<1> QED
  BY <1>4, <1>5, ChainedKept DEF Inv

\* The host tells what it has done to those whom it concerns.
LEMMA ChainTold ==
    ASSUME Inv, NEW L \in LobbyType, NEW to, NEW m \in ForGuest, m.k \notin {"lobby-state", "player-disconnect"},
           toGuest' = Sent(toGuest, to, <<m>>), lobby'[Host] = L, \A g \in Guest : lobby'[g] = lobby[g],
           gone' = gone, conn' = conn, peers' = peers, \A g \in Guest : Pending(g) => Pending(g)',
           Host \notin gone => L = Applied(lobby[Host], m),
           \A g \in peers : g \notin to => Shown(g, lobby[Host], L)
    PROVE  Chained'
<1>1. toGuest \in [Guest -> Seq(ForGuest)] /\ lobby \in [Browser -> LobbyType] /\ lobby[Host] \in LobbyType
  BY People DEF Inv, Carried
<1>2. PICK ms : ms = <<m>>
  OBVIOUS
<1>3. \A g \in Guest : /\ toGuest'[g] = IF g \in to /\ conn[g] = "open" THEN Append(toGuest[g], m) ELSE toGuest[g]
                       /\ Messages(toGuest'[g]) \subseteq Messages(toGuest[g]) \cup {m}
  <2>1. ms \in Seq(ForGuest)
    BY <1>2, OneFacts
  <2>4. Messages(ms) = {m} /\ \A q \in Seq(ForGuest) : q \o ms = Append(q, m)
    BY <1>2, OneFacts
  <2>2. toGuest' = Sent(toGuest, to, ms)
    BY <1>2
  <2>3. \A g \in Guest : /\ toGuest'[g] = IF g \in to /\ conn[g] = "open" THEN toGuest[g] \o ms ELSE toGuest[g]
                         /\ Messages(toGuest'[g]) \subseteq Messages(toGuest[g]) \cup Messages(ms)
    <3>1. PICK r : r = Sent(toGuest, to, ms)
      OBVIOUS
    <3>2. toGuest \in [Guest -> Seq(ForGuest)]
      BY <1>1
    <3>3. \A g \in Guest : /\ r[g] = IF g \in to /\ conn[g] = "open" THEN toGuest[g] \o ms ELSE toGuest[g]
                           /\ Messages(r[g]) \subseteq Messages(toGuest[g]) \cup Messages(ms)
      BY <2>1, <3>1, <3>2, SentFacts
    <3> QED
      BY <2>2, <3>1, <3>3
  <2> QED
    BY <1>1, <2>3, <2>4
<1>4. Untold => Untold'
  BY <1>3 DEF Untold
<1>5. ASSUME NEW g \in Guest, conn'[g] = "open", g \in peers', Host \notin gone,
             Linked(g, toGuest[g], lobby[g], lobby[Host])
      PROVE  Linked(g, toGuest'[g], lobby'[g], lobby'[Host])
  <2>1. toGuest[g] \in Seq(ForGuest) /\ lobby[g] \in LobbyType
    BY <1>1, People
  <2>2. CASE g \in to
    <3>1. toGuest'[g] = Append(toGuest[g], m) /\ L = Applied(lobby[Host], m)
      BY <1>3, <1>5, <2>2
    <3>2. Linked(g, toGuest'[g], lobby[g], L)
      BY <1>1, <1>5, <2>1, <3>1, LinkedTold
    <3> QED
      BY <3>2
  <2>3. CASE g \notin to
    <3>1. toGuest'[g] = toGuest[g] /\ Shown(g, lobby[Host], L)
      BY <1>3, <1>5, <2>3
    <3>2. Linked(g, toGuest[g], lobby[g], L)
      BY <1>1, <1>5, <2>1, <3>1, LinkedSame, ShownRefl
    <3> QED
      BY <3>1, <3>2
  <2> QED
    BY <2>2, <2>3
<1> QED
  BY <1>4, <1>5, ChainedKept DEF Inv

\* A change of the host's lobby that leaves connections alone.
LEMMA HostStep ==
    ASSUME Inv, NEW L \in LobbyType, NEW to, NEW ms \in Seq(ForGuest), toGuest' = Sent(toGuest, to, ms),
           lobby' = [lobby EXCEPT ![Host] = L], game' \in [Browser -> GameType],
           \A g \in Guest : game'[g] = game[g],
           UNCHANGED <<gone, peers, conn, code, strays, toHost>>,
           ticks' \in Seq(1 .. 3), starts' \in Nat, Len(ticks') <= starts', bots' \subseteq Fake,
           Waiting' => /\ Waiting /\ Calm(L) /\ ~ game'[Host].playing
                       /\ \A m \in Messages(ms) : CalmMsg(m),
           \A m \in Messages(ms) : m.k = "lobby-state" => m.lobby.players # <<>>,
           Roster', Chained',
           starts' = 1 => \/ \A g \in Guest : ~ Reports(g)
                          \/ /\ starts = 1
                             /\ \A g \in Guest : Done(lobby[Host], g) => Done(L, g)
    PROVE  Inv'
<1>1. toGuest \in [Guest -> Seq(ForGuest)] /\ lobby \in [Browser -> LobbyType]
  BY DEF Inv, Carried
<1>2. toGuest' \in [Guest -> Seq(ForGuest)]
  BY <1>1, SentFacts
<1>3. /\ lobby' \in [Browser -> LobbyType] /\ lobby'[Host] = L /\ \A g \in Guest : lobby'[g] = lobby[g]
  BY <1>1, People
<1>4. Carried'
  BY <1>2, <1>3 DEF Inv, Carried
<1>5. Hush' /\ Peopled'
  BY <1>3, HostQuiet
<1>6. Reported'
  <2> SUFFICES ASSUME NEW g \in Guest, starts' = 1, conn'[g] = "open", g \in peers', Host \notin gone', Reports(g)'
             PROVE  \/ Arrived(g)'
                    \/ Done(L, g)
    BY <1>3 DEF Reported, Reports, Arrived
  <2>1. Reports(g) /\ conn[g] = "open" /\ g \in peers /\ Host \notin gone
    BY DEF Reports
  <2>2. /\ starts = 1
        /\ \A y \in Guest : Done(lobby[Host], y) => Done(L, y)
    BY <2>1
  <2>3. \/ Arrived(g)
        \/ Done(lobby[Host], g)
    BY <2>1, <2>2 DEF Inv, Reported, Reports, Arrived
  <2>4. Arrived(g) => Arrived(g)'
    BY DEF Arrived
  <2> QED
    BY <2>2, <2>3, <2>4
<1> QED
  BY <1>4, <1>5, <1>6 DEF Inv

\* Nothing is sent.
LEMMA SilentFacts ==
    ASSUME Carried, toGuest' = toGuest
    PROVE  toGuest' = Sent(toGuest, {}, <<>>) /\ <<>> \in Seq(ForGuest) /\ Messages(<<>>) = {}
<1>1. toGuest \in [Guest -> Seq(ForGuest)]
  BY DEF Carried
<1>2. toGuest = Sent(toGuest, {}, <<>>)
  BY <1>1 DEF Sent
<1> QED
  BY <1>2 DEF Messages

\* Such a change keeps the invariant.
LEMMA HostSilentStep ==
    ASSUME Inv, NEW L \in LobbyType, toGuest' = toGuest,
           lobby' = [lobby EXCEPT ![Host] = L], game' \in [Browser -> GameType],
           \A g \in Guest : game'[g] = game[g],
           UNCHANGED <<gone, peers, conn, code, strays, toHost, ticks, starts>>, bots' \subseteq Fake,
           Waiting => Calm(L) /\ ~ game'[Host].playing,
           Roster', Chained',
           \A g \in Guest : Done(lobby[Host], g) => Done(L, g)
    PROVE  Inv'
<1>1. PICK to, ms : to = {} /\ ms = <<>>
  OBVIOUS
<1>2. toGuest' = Sent(toGuest, to, ms) /\ ms \in Seq(ForGuest) /\ Messages(ms) = {}
  BY <1>1, SilentFacts DEF Inv
<1>3. ticks' \in Seq(1 .. 3) /\ starts' \in Nat /\ Len(ticks') <= starts'
  BY DEF Inv, Carried
<1>4. Waiting' => Waiting
  BY DEF Waiting
<1>5. starts' = 1 => starts = 1
  OBVIOUS
<1> QED
  BY <1>2, <1>3, <1>4, <1>5, HostStep

\* The host's lobby changes and the guests are not told, or need not be.
LEMMA ChainSilent ==
    ASSUME Inv, NEW L \in LobbyType, toGuest' = toGuest, lobby'[Host] = L, \A g \in Guest : lobby'[g] = lobby[g],
           gone' = gone, conn' = conn, peers' = peers, toHost' = toHost,
           \A g \in peers : Shown(g, lobby[Host], L)
    PROVE  Chained'
<1>1. toGuest \in [Guest -> Seq(ForGuest)] /\ lobby \in [Browser -> LobbyType] /\ lobby[Host] \in LobbyType
  BY People DEF Inv, Carried
<1>2. ASSUME NEW g \in peers, g \in Guest, Linked(g, toGuest[g], lobby[g], lobby[Host])
      PROVE  Linked(g, toGuest[g], lobby[g], L)
  BY <1>1, <1>2, People, LinkedSame, ShownRefl
<1>3. \A g \in Guest : Pending(g) => Pending(g)'
  BY DEF Pending
<1> QED
  BY <1>2, <1>3, ChainedKept DEF Inv, Untold

LEMMA CreateRoomStep == ASSUME Inv, CreateRoom PROVE Inv'
<1> USE DEF Inv
<1> DEFINE L == Join(Empty, Player(Host))
<1>1. /\ L \in LobbyType /\ ~ L.started /\ Ids(L) = {Host} /\ Apart(L, {}) /\ L.players # <<>>
  <2>1. PICK x : x = Player(Host)
    OBVIOUS
  <2>2. x \in PlayerType /\ x.id = Host /\ L = Join(Empty, x)
    BY <2>1, PlayerFacts, People
  <2>3. Apart(Empty, {})
    BY EmptyFacts DEF Apart
  <2> QED
    BY <2>2, <2>3, EmptyFacts, JoinFacts
<1> HIDE DEF L
<1>2. /\ lobby' = [lobby EXCEPT ![Host] = L] /\ game' = [game EXCEPT ![Host].screen = "lobby"]
      /\ Host \notin gone /\ lobby[Host] = Empty
      /\ UNCHANGED <<gone, peers, conn, code, strays, toHost, toGuest, ticks, starts, bots>>
  BY DEF CreateRoom, net, sim, L
<1>3. Vacant
  BY <1>2, Hosted
<1>4. game \in [Browser -> GameType] /\ game[Host] \in GameType /\ lobby \in [Browser -> LobbyType]
  BY People DEF Carried
<1>5. /\ game' \in [Browser -> GameType] /\ game'[Host].playing = game[Host].playing
      /\ \A g \in Guest : game'[g] = game[g]
  <2>1. [game[Host] EXCEPT !.screen = "lobby"] \in GameType
    BY <1>4, GameFacts
  <2>2. [game[Host] EXCEPT !.screen = "lobby"].playing = game[Host].playing
    BY <1>4 DEF GameType
  <2>3. game' = [game EXCEPT ![Host] = [game[Host] EXCEPT !.screen = "lobby"]]
    BY <1>2, <1>4
  <2> QED
    BY <1>4, <2>1, <2>2, <2>3, People
<1>6. lobby'[Host] = L /\ \A g \in Guest : lobby'[g] = lobby[g]
  BY <1>2, <1>4, People
<1>7. Roster'
  <2>1. /\ \A g \in Guest : conn'[g] \in Early => (g \in peers' => strays'[g] > 0) /\ code'[g] = Empty /\ lobby'[g] = Empty
        /\ \A g \in Guest : conn'[g] = "none" => strays'[g] = 0
    BY <1>2, <1>6 DEF Roster
  <2>2. bots' \subseteq Ids(lobby'[Host])
    BY <1>2, EmptyFacts DEF Roster
  <2>3. Apart(lobby'[Host], Strayed') /\ Ids(lobby'[Host]) \ Fake = {Host} \cup peers'
    BY <1>1, <1>2, <1>3, <1>6, People DEF Vacant, Apart
  <2> QED
    BY <1>2, <2>1, <2>2, <2>3 DEF Roster
<1>8. Chained'
  BY <1>1, <1>2, <1>3, <1>6, ChainSilent DEF Vacant
<1>9. Waiting' => Waiting /\ Calm(L) /\ ~ game'[Host].playing
  BY <1>1, <1>2, <1>5, People DEF Waiting, Hush, Calm
<1>11. \A g \in Guest : Done(L, g)
  BY <1>1, IdsFacts, People DEF Done
<1> QED
  BY <1>1, <1>2, <1>5, <1>7, <1>8, <1>9, <1>11, HostSilentStep DEF Carried, Waiting

\* Nothing changes but what the host's page is asking for.
LEMMA StillStep == ASSUME Inv, UNCHANGED <<lobby, game, gone, peers, net, sim>> PROVE Inv'
<1>1. UNCHANGED <<lobby, game, gone, peers, conn, code, strays, toHost, toGuest, noticed, ticks, starts, due, bots, debug>>
  BY DEF net, sim
<1>2. Carried'
  BY <1>1 DEF Inv, Carried
<1>3. Roster'
  BY <1>1 DEF Inv, Roster, Strayed
<1>4. Hush'
  BY <1>1 DEF Inv, Hush, Waiting
<1>5. Peopled'
  BY <1>1 DEF Inv, Peopled
<1>6. Reported'
  BY <1>1 DEF Inv, Reported
<1>7. Chained'
  BY <1>1 DEF Inv, Chained, Pending
<1> QED
  BY <1>2, <1>3, <1>4, <1>5, <1>6, <1>7 DEF Inv

------------------------------------------------------------------------------
(* The host's buttons *)

\* The host's page has new words, typed or found, in the lobby or later.
LEMMA WordsStep ==
    ASSUME Inv, NEW c \in Challenge \cup {None}, InRoom(Host),
           Notify(Host, [lobby[Host] EXCEPT !.challenge = c]), Broadcast(<<LobbyState(lobby'[Host])>>),
           UNCHANGED <<gone, peers, conn, code, toHost, noticed, strays, sim>>
    PROVE  Inv'
<1> USE DEF Inv
<1>1. lobby \in [Browser -> LobbyType] /\ lobby[Host] \in LobbyType /\ game \in [Browser -> GameType]
  BY People DEF Carried
<1>2. PICK L : L = [lobby[Host] EXCEPT !.challenge = c]
  OBVIOUS
<1>3. PICK m : m = LobbyState(L)
  OBVIOUS
<1>4. PICK ms : ms = <<m>>
  OBVIOUS
<1>5. /\ L \in LobbyType /\ L.players = lobby[Host].players
      /\ L.started = lobby[Host].started /\ L.countdown = lobby[Host].countdown
  BY <1>1, <1>2 DEF LobbyType
<1>6. /\ Notify(Host, L) /\ UNCHANGED <<gone, peers, conn, code, strays, toHost, noticed, ticks, starts, bots>>
      /\ Host \notin gone /\ lobby[Host].players # <<>>
  BY <1>2 DEF sim, InRoom
<1>7. lobby'[Host] = L /\ lobby' = [lobby EXCEPT ![Host] = L]
  BY <1>1, <1>6, NotifyFacts, People DEF Notify
<1>8. toGuest' = Sent(toGuest, peers, ms)
  BY <1>3, <1>4, <1>7 DEF Broadcast
<1>9. /\ m \in ForGuest /\ m.k = "lobby-state" /\ m.lobby = L
  BY <1>3, <1>5 DEF LobbyState, ForGuest
<1>10. ms \in Seq(ForGuest) /\ Messages(ms) = {m}
  BY <1>4, <1>9, OneFacts
<1>11. /\ game' \in [Browser -> GameType] /\ \A g \in Guest : game'[g] = game[g] /\ lobby'[g] = lobby[g]
       /\ ~ game[Host].playing /\ Calm(L) => game'[Host] = game[Host]
  BY <1>5, <1>6, NotifyFacts, People
<1>12. ~ Vacant
  BY <1>6, EmptyFacts DEF Vacant
<1>13. Roster'
  <2>1. SameIds(lobby[Host], L)
    BY <1>5 DEF SameIds
  <2>2. lobby' \in [Browser -> LobbyType]
    BY <1>1, <1>5, <1>7
  <2> QED
    BY <1>5, <1>6, <1>7, <1>11, <1>12, <2>1, <2>2, RosterKept DEF Roster
<1>14. Chained'
  BY <1>4, <1>5, <1>6, <1>7, <1>8, <1>9, <1>11, ChainWhole
<1>15. Waiting' => Waiting /\ Calm(L) /\ ~ game'[Host].playing /\ \A x \in Messages(ms) : CalmMsg(x)
  BY <1>5, <1>6, <1>9, <1>10, <1>11, People DEF Waiting, Hush, Calm, CalmMsg
<1>16. \A x \in Messages(ms) : x.k = "lobby-state" => x.lobby.players # <<>>
  BY <1>5, <1>6, <1>9, <1>10
<1>17. \A g \in Guest : Done(lobby[Host], g) => Done(L, g)
  BY <1>5 DEF Done, Found
<1> QED
  BY <1>5, <1>6, <1>7, <1>8, <1>10, <1>11, <1>13, <1>14, <1>15, <1>16, <1>17, HostStep DEF Carried

LEMMA SetChallengeWordsStep ==
    ASSUME Inv, NEW c \in Challenge \cup {None}, SetChallengeWords(c)
    PROVE  Inv'
BY WordsStep DEF SetChallengeWords, On

LEMMA AskRandomChallengeStep == ASSUME Inv, AskRandomChallenge PROVE Inv'
BY StillStep DEF AskRandomChallenge

LEMMA RandomChallengeStep ==
    ASSUME Inv, NEW c \in Challenge \cup {None}, RandomChallenge(c)
    PROVE  Inv'
<1>1. UNCHANGED <<gone, peers, conn, code, toHost, noticed, strays, sim>>
  BY DEF RandomChallenge
<1>2. \/ /\ InRoom(Host) /\ Notify(Host, [lobby[Host] EXCEPT !.challenge = c])
         /\ Broadcast(<<LobbyState(lobby'[Host])>>)
      \/ UNCHANGED <<lobby, game, toGuest>>
  BY DEF RandomChallenge
<1>3. CASE UNCHANGED <<lobby, game, toGuest>>
  BY <1>1, <1>3, StillStep DEF net
<1>4. CASE /\ InRoom(Host) /\ Notify(Host, [lobby[Host] EXCEPT !.challenge = c])
           /\ Broadcast(<<LobbyState(lobby'[Host])>>)
  BY <1>1, <1>4, WordsStep
<1> QED
  BY <1>2, <1>3, <1>4

LEMMA AddFakePlayerStep == ASSUME Inv, NEW f \in Fake, AddFakePlayer(f) PROVE Inv'
<1> USE DEF Inv
<1>1. lobby \in [Browser -> LobbyType] /\ lobby[Host] \in LobbyType /\ game \in [Browser -> GameType]
  BY People DEF Carried
<1>2. PICK x : x = [Player(f) EXCEPT !.ready = TRUE]
  OBVIOUS
<1>3. x \in PlayerType /\ x.id = f
  BY <1>2, PlayerFacts
<1>4. PICK L : L = Join(lobby[Host], x)
  OBVIOUS
<1>5. /\ L \in LobbyType /\ L.started = lobby[Host].started /\ L.countdown = lobby[Host].countdown
      /\ Len(L.players) = Len(lobby[Host].players) + 1 /\ L.players[Len(lobby[Host].players) + 1] = x
      /\ \A i \in 1 .. Len(lobby[Host].players) : L.players[i] = lobby[Host].players[i]
      /\ Ids(L) = Ids(lobby[Host]) \cup {f}
      /\ \A S : Apart(lobby[Host], S) /\ f \notin Ids(lobby[Host]) => Apart(L, S)
      /\ \A q : Done(lobby[Host], q) /\ q # f => Done(L, q)
  BY <1>1, <1>3, <1>4, JoinFacts
<1>6. /\ Notify(Host, L) /\ UNCHANGED <<gone, peers, conn, code, strays, toHost, toGuest, noticed, ticks, starts, bots>>
      /\ Host \notin gone /\ lobby[Host].players # <<>> /\ f \notin Ids(lobby[Host])
  BY <1>2, <1>4 DEF AddFakePlayer, net, sim, On, InRoom
<1>7. lobby'[Host] = L /\ lobby' = [lobby EXCEPT ![Host] = L]
  BY <1>1, <1>6, People DEF Notify
<1>8. /\ game' \in [Browser -> GameType] /\ \A g \in Guest : game'[g] = game[g] /\ lobby'[g] = lobby[g]
      /\ ~ game[Host].playing /\ Calm(L) => game'[Host] = game[Host]
  BY <1>5, <1>6, NotifyFacts, People
<1>9. ~ Vacant
  BY <1>6, EmptyFacts DEF Vacant
<1>10. Roster'
  <2>1. /\ \A g \in Guest : conn'[g] \in Early => (g \in peers' => strays'[g] > 0) /\ code'[g] = Empty /\ lobby'[g] = Empty
        /\ \A g \in Guest : conn'[g] = "none" => strays'[g] = 0
    BY <1>6, <1>8 DEF Roster
  <2>2. bots' \subseteq Ids(lobby'[Host])
    BY <1>5, <1>6, <1>7 DEF Roster
  <2>3. Apart(L, Strayed') /\ Ids(L) \ Fake = {Host} \cup peers
    BY <1>5, <1>6, <1>9, Hosted DEF Strayed
  <2> QED
    BY <1>6, <1>7, <2>1, <2>2, <2>3 DEF Roster
<1>11. Chained'
  <2>1. \A g \in peers : Shown(g, lobby[Host], L)
    BY <1>1, <1>3, <1>4, ShownJoin
  <2> QED
    BY <1>5, <1>6, <1>7, <1>8, <2>1, ChainSilent
<1>12. Waiting' => Waiting /\ Calm(L) /\ ~ game'[Host].playing
  BY <1>5, <1>6, <1>8, People DEF Waiting, Hush, Calm
<1>13. \A g \in Guest : Done(lobby[Host], g) => Done(L, g)
  BY <1>5, People
<1> QED
  BY <1>5, <1>6, <1>7, <1>8, <1>10, <1>11, <1>12, <1>13, HostSilentStep DEF Carried, Waiting

LEMMA StartGameStep == ASSUME Inv, StartGame PROVE Inv'
<1> USE DEF Inv
<1>1. lobby \in [Browser -> LobbyType] /\ lobby[Host] \in LobbyType /\ game \in [Browser -> GameType]
  BY People DEF Carried
<1>2. PICK L : L = [lobby[Host] EXCEPT !.started = TRUE, !.countdown = 3]
  OBVIOUS
<1>3. PICK m : m = GameStart(L)
  OBVIOUS
<1>4. PICK ms : ms = <<m>>
  OBVIOUS
<1>5. /\ L \in LobbyType /\ L.players = lobby[Host].players /\ L.challenge = lobby[Host].challenge
      /\ L.started = TRUE /\ L.countdown = 3
  <2>1. L = Started(lobby[Host], lobby[Host].challenge, 3)
    BY <1>1, <1>2 DEF Started, LobbyType
  <2>2. 3 \in Null .. 3
    BY DEF Null
  <2>3. lobby[Host].challenge \in Challenge \cup {None}
    BY <1>1, TypeFacts
  <2>4. PICK c : c = lobby[Host].challenge
    OBVIOUS
  <2>5. c \in Challenge \cup {None} /\ L = Started(lobby[Host], c, 3)
    BY <2>1, <2>3, <2>4
  <2>6. L \in LobbyType /\ L.players = lobby[Host].players
    BY <1>1, <2>2, <2>5, StartedFacts
  <2>7. L.challenge = c /\ L.started = TRUE /\ L.countdown = 3
    BY <1>1, <2>2, <2>5, StartedFacts
  <2> QED
    BY <2>4, <2>6, <2>7
<1>6. /\ Notify(Host, L) /\ UNCHANGED <<gone, peers, conn, code, strays, toHost, noticed, bots>>
      /\ Host \notin gone /\ lobby[Host].players # <<>>
      /\ ticks' = Append(ticks, 3) /\ starts' = starts + 1
  BY <1>2 DEF StartGame, sim, On, InRoom
<1>7. lobby'[Host] = L /\ lobby' = [lobby EXCEPT ![Host] = L]
  BY <1>1, <1>6, People DEF Notify
<1>8. toGuest' = Sent(toGuest, peers, ms)
  BY <1>3, <1>4, <1>7 DEF StartGame, Broadcast
<1>9. /\ m \in ForGuest /\ m.k = "game-start" /\ m.challenge = lobby[Host].challenge /\ m.countdown = 3
  BY <1>1, <1>3, <1>5 DEF GameStart, ForGuest, LobbyType
<1>10. ms \in Seq(ForGuest) /\ Messages(ms) = {m}
  BY <1>4, <1>9, OneFacts
<1>11. /\ game' \in [Browser -> GameType] /\ \A g \in Guest : game'[g] = game[g] /\ lobby'[g] = lobby[g]
       /\ ~ game[Host].playing /\ Calm(L) => game'[Host] = game[Host]
  BY <1>5, <1>6, NotifyFacts, People
<1>12. ~ Vacant
  BY <1>6, EmptyFacts DEF Vacant
<1>13. Roster'
  <2>1. SameIds(lobby[Host], L)
    BY <1>5 DEF SameIds
  <2>2. lobby' \in [Browser -> LobbyType]
    BY <1>1, <1>5, <1>7
  <2> QED
    BY <1>5, <1>6, <1>7, <1>11, <1>12, <2>1, <2>2, RosterKept DEF Roster
<1>14. Chained'
  <2>1. L = Started(lobby[Host], lobby[Host].challenge, 3)
    BY <1>1, <1>2 DEF Started, LobbyType
  <2>2. L = Applied(lobby[Host], m)
    BY <1>9, <2>1, AppliedIs
  <2>3. \A g \in Guest : Pending(g) => Pending(g)'
    BY <1>6 DEF Pending
  <2>4. peers \subseteq Guest
    BY DEF Carried
  <2> QED
    BY <1>4, <1>5, <1>6, <1>7, <1>8, <1>9, <1>11, <2>2, <2>3, ChainTold
<1>15. ticks \in Seq(1 .. 3) /\ starts \in Nat /\ Len(ticks) <= starts
  BY DEF Carried
<1>16. ticks' \in Seq(1 .. 3) /\ Len(ticks') = Len(ticks) + 1 /\ ticks' # <<>>
  BY <1>6, <1>15
<1>17. starts' \in Nat /\ Len(ticks') <= starts' /\ starts' # 0
  BY <1>6, <1>15, <1>16
<1>18. starts' = 1 => Waiting
  BY <1>6, <1>15 DEF Waiting
<1>19. Waiting' => Waiting /\ Calm(L) /\ ~ game'[Host].playing /\ \A x \in Messages(ms) : CalmMsg(x)
  <2>1. Calm(L) /\ CalmMsg(m)
    BY <1>5, <1>9 DEF Calm, CalmMsg, Null
  <2>2. Waiting => ~ game[Host].playing
    BY People DEF Hush
  <2> QED
    BY <1>10, <1>11, <1>17, <1>18, <2>1, <2>2 DEF Waiting
<1>20. starts' = 1 => \A g \in Guest : ~ Reports(g)
  BY <1>18, People DEF Hush, Reports
<1>21. \A x \in Messages(ms) : x.k # "lobby-state"
  BY <1>9, <1>10
<1>22. UNCHANGED <<gone, peers, conn, code, strays, toHost>> /\ bots' \subseteq Fake
  BY <1>6 DEF Carried
<1> QED
  BY <1>5, <1>7, <1>8, <1>10, <1>11, <1>13, <1>14, <1>16, <1>17, <1>19, <1>20, <1>21, <1>22, HostStep

------------------------------------------------------------------------------
(* The countdown *)

\* What the host knows while a countdown runs.
LEMMA TickingFacts ==
    ASSUME Carried, ticks # <<>>
    PROVE  /\ Head(ticks) - 1 \in 0 .. 2 /\ Tail(ticks) \in Seq(1 .. 3) /\ Len(Tail(ticks)) = Len(ticks) - 1
           /\ Len(ticks) \in Nat \ {0} /\ starts \in Nat /\ Len(ticks) <= starts
<1>1. ticks \in Seq(1 .. 3) /\ starts \in Nat /\ Len(ticks) <= starts
  BY DEF Carried
<1>2. Head(ticks) \in 1 .. 3 /\ Tail(ticks) \in Seq(1 .. 3) /\ Len(Tail(ticks)) = Len(ticks) - 1 /\ Len(ticks) \in Nat \ {0}
  BY <1>1
<1> QED
  BY <1>1, <1>2

\* While a first countdown runs nobody has come to anything.
LEMMA NoneReports ==
    ASSUME Inv, ticks # <<>>, starts = 1
    PROVE  \A g \in Guest : ~ Reports(g)
BY People DEF Inv, Hush, Waiting, Reports

\* The countdown goes on.
LEMMA TickOnStep ==
    ASSUME Inv, NEW n \in 1 .. 2, ticks # <<>>, NEW L, L = Countdown(lobby[Host], n),
           Notify(Host, L), NEW m, m = Tick1(n), toGuest' = Sent(toGuest, peers, <<m>>),
           ticks' = Append(Tail(ticks), n),
           UNCHANGED <<gone, peers, conn, code, strays, toHost, noticed, starts, due, bots, debug>>
    PROVE  Inv'
<1> USE DEF Inv
<1>1. lobby \in [Browser -> LobbyType] /\ lobby[Host] \in LobbyType /\ game \in [Browser -> GameType]
  BY People DEF Carried
<1>2. n \in Null .. 3
  BY DEF Null
<1>3. /\ L \in LobbyType /\ L.players = lobby[Host].players
      /\ L.started = lobby[Host].started /\ L.countdown = n
  BY <1>1, <1>2, CountdownFacts
<1>4. PICK ms : ms = <<m>>
  OBVIOUS
<1>5. m \in ForGuest /\ m.k = "countdown-tick" /\ m.countdown = n
  BY DEF Tick1, ForGuest
<1>6. ms \in Seq(ForGuest) /\ Messages(ms) = {m}
  BY <1>4, <1>5, OneFacts
<1>7. lobby'[Host] = L /\ lobby' = [lobby EXCEPT ![Host] = L]
  BY <1>1, People DEF Notify
<1>8. toGuest' = Sent(toGuest, peers, ms)
  BY <1>4
<1>9. /\ game' \in [Browser -> GameType] /\ \A g \in Guest : game'[g] = game[g] /\ lobby'[g] = lobby[g]
      /\ ~ game[Host].playing /\ Calm(L) => game'[Host] = game[Host]
  BY <1>3, NotifyFacts, People
<1>10. ~ Vacant
  BY DEF Vacant
<1>11. Roster'
  <2>1. SameIds(lobby[Host], L)
    BY <1>3 DEF SameIds
  <2>2. lobby' \in [Browser -> LobbyType]
    BY <1>1, <1>3, <1>7
  <2> QED
    BY <1>3, <1>7, <1>9, <1>10, <2>1, <2>2, RosterKept DEF Roster
<1>12. Chained'
  <2>1. L = Applied(lobby[Host], m)
    BY <1>5, AppliedIs
  <2>2. \A g \in Guest : Pending(g) => Pending(g)'
    BY DEF Pending
  <2> QED
    BY <1>3, <1>5, <1>7, <1>9, <2>1, <2>2, ChainTold
<1>13. /\ ticks' \in Seq(1 .. 3) /\ starts' \in Nat /\ Len(ticks') <= starts' /\ starts' = starts
  <2>1. n \in 1 .. 3
    OBVIOUS
  <2>2. ticks' \in Seq(1 .. 3) /\ Len(ticks') = Len(Tail(ticks)) + 1
    BY <2>1, TickingFacts
  <2> QED
    BY <2>2, TickingFacts
<1>14. Waiting' => Waiting /\ Calm(L) /\ ~ game'[Host].playing /\ \A x \in Messages(ms) : CalmMsg(x)
  <2>1. Calm(L) /\ CalmMsg(m)
    BY <1>3, <1>5 DEF Calm, CalmMsg, Null
  <2>2. Waiting' => Waiting
    BY DEF Waiting
  <2>3. Waiting => ~ game[Host].playing
    BY People DEF Hush
  <2> QED
    BY <1>6, <1>9, <2>1, <2>2, <2>3
<1>15. starts' = 1 => \A g \in Guest : ~ Reports(g)
  BY NoneReports
<1>16. \A x \in Messages(ms) : x.k # "lobby-state"
  BY <1>5, <1>6
<1>17. UNCHANGED <<gone, peers, conn, code, strays, toHost>> /\ bots' \subseteq Fake
  BY DEF Carried
<1> QED
  BY <1>3, <1>6, <1>7, <1>8, <1>9, <1>11, <1>12, <1>13, <1>14, <1>15, <1>16, <1>17, HostStep

\* The countdown is over: the race begins.
LEMMA TickOverStep ==
    ASSUME Inv, ticks # <<>>, NEW K, K = Countdown(lobby[Host], 0), NEW L, L = Begun(K),
           lobby' = [lobby EXCEPT ![Host] = L],
           game' = [game EXCEPT ![Host] = Notified(Notified(game[Host], K), L)],
           NEW m, m = Tick1(0), NEW e, e = Msg("game-begin"), toGuest' = Sent(toGuest, peers, <<m, e>>),
           ticks' = Tail(ticks),
           UNCHANGED <<gone, peers, conn, code, strays, toHost, noticed, starts, due, bots, debug>>
    PROVE  Inv'
<1> USE DEF Inv
<1>1. /\ lobby \in [Browser -> LobbyType] /\ lobby[Host] \in LobbyType
      /\ game \in [Browser -> GameType] /\ game[Host] \in GameType /\ toGuest \in [Guest -> Seq(ForGuest)]
  BY People DEF Carried
<1>2. 0 \in Null .. 3
  BY DEF Null
<1>3. /\ K \in LobbyType /\ K.players = lobby[Host].players /\ K.started = lobby[Host].started
  BY <1>1, <1>2, CountdownFacts
<1>4. /\ L \in LobbyType /\ L.started = K.started /\ SameIds(K, L)
  BY <1>3, BegunFacts
<1>5. SameIds(lobby[Host], L)
  BY <1>3, <1>4 DEF SameIds
<1>6. PICK ms : ms = <<m, e>>
  OBVIOUS
<1>7. m \in ForGuest /\ m.k = "countdown-tick" /\ m.countdown = 0 /\ e \in ForGuest /\ e.k = "game-begin"
  BY DEF Tick1, Msg, ForGuest
<1>8. ms \in Seq(ForGuest)
  BY <1>6, <1>7, PairFacts
<1>20. Messages(ms) = {m, e}
  BY <1>6, <1>7, PairFacts
<1>9. lobby'[Host] = L /\ \A g \in Guest : game'[g] = game[g] /\ lobby'[g] = lobby[g]
  BY <1>1, People
<1>10. toGuest' = Sent(toGuest, peers, ms)
  BY <1>6
<1>11. game' \in [Browser -> GameType]
  <2>1. Notified(game[Host], K) \in GameType
    BY <1>1, <1>3, NotifiedFacts
  <2>2. Notified(Notified(game[Host], K), L) \in GameType
    BY <1>4, <2>1, NotifiedFacts
  <2> QED
    BY <1>1, <2>2
<1>12. ~ Vacant
  BY DEF Vacant
<1>13. Roster'
  <2>1. lobby' \in [Browser -> LobbyType]
    BY <1>1, <1>4
  <2> QED
    BY <1>3, <1>4, <1>5, <1>9, <1>12, <2>1, RosterKept DEF Roster
<1>14. Chained'
  <2>1. \A g \in Guest : /\ toGuest'[g] = IF g \in peers /\ conn[g] = "open" THEN toGuest[g] \o ms ELSE toGuest[g]
                         /\ Messages(toGuest'[g]) \subseteq Messages(toGuest[g]) \cup Messages(ms)
    <3>1. PICK r : r = Sent(toGuest, peers, ms)
      OBVIOUS
    <3>2. toGuest \in [Guest -> Seq(ForGuest)]
      BY <1>1
    <3>3. \A g \in Guest : /\ r[g] = IF g \in peers /\ conn[g] = "open" THEN toGuest[g] \o ms ELSE toGuest[g]
                           /\ Messages(r[g]) \subseteq Messages(toGuest[g]) \cup Messages(ms)
      BY <1>8, <3>1, <3>2, SentFacts
    <3> QED
      BY <1>10, <3>1, <3>3
  <2>2. Untold => Untold'
    BY <1>7, <1>20, <2>1 DEF Untold
  <2>3. ASSUME NEW g \in Guest, conn[g] = "open", g \in peers, Linked(g, toGuest[g], lobby[g], lobby[Host])
        PROVE  Linked(g, toGuest'[g], lobby'[g], lobby'[Host])
    <3>1. PICK q, r : q = toGuest[g] /\ r = Append(q, m)
      OBVIOUS
    <3>2. q \in Seq(ForGuest) /\ r \in Seq(ForGuest) /\ lobby[g] \in LobbyType /\ toGuest'[g] = Append(r, e)
      <4>1. q \in Seq(ForGuest) /\ r \in Seq(ForGuest) /\ lobby[g] \in LobbyType
        BY <1>1, <1>7, <3>1, People
      <4>2. toGuest'[g] = q \o ms
        BY <2>1, <2>3, <3>1
      <4>3. q \o ms = Append(Append(q, m), e)
        BY <1>6, <1>7, <4>1, PairFacts
      <4> QED
        BY <3>1, <4>1, <4>2, <4>3
    <3>3. K = Applied(lobby[Host], m) /\ L = Applied(K, e)
      BY <1>7, AppliedIs
    <3>4. Linked(g, r, lobby[g], K)
      BY <1>1, <1>3, <1>7, <2>3, <3>1, <3>2, <3>3, LinkedTold
    <3>5. Linked(g, toGuest'[g], lobby[g], L)
      BY <1>3, <1>4, <1>7, <3>2, <3>3, <3>4, LinkedTold
    <3> QED
      BY <1>9, <3>5
  <2>4. \A g \in Guest : Pending(g) => Pending(g)'
    BY DEF Pending
  <2> QED
    BY <2>2, <2>3, <2>4, ChainedKept
<1>15. /\ ticks' \in Seq(1 .. 3) /\ starts' \in Nat /\ Len(ticks') <= starts' /\ starts' = starts
  BY TickingFacts
<1>16. ~ Waiting'
  <2>1. starts = 1 => Len(ticks') = 0
    BY TickingFacts
  <2>2. starts = 1 => ticks' = <<>>
    BY <1>15, <2>1
  <2>3. starts # 0
    BY TickingFacts
  <2> QED
    BY <2>2, <2>3 DEF Waiting
<1>17. starts' = 1 => \A g \in Guest : ~ Reports(g)
  BY NoneReports
<1>18. \A x \in Messages(ms) : x.k # "lobby-state"
  BY <1>7, <1>20
<1>19. UNCHANGED <<gone, peers, conn, code, strays, toHost>> /\ bots' \subseteq Fake
  BY DEF Carried
<1>21. L \in LobbyType /\ Roster' /\ Chained' /\ \A g \in Guest : game'[g] = game[g]
  BY <1>4, <1>9, <1>13, <1>14
<1> HIDE DEF Inv
<1> QED
  BY <1>8, <1>10, <1>11, <1>15, <1>16, <1>17, <1>18, <1>19, <1>21, HostStep

LEMMA TickStep == ASSUME Inv, Tick PROVE Inv'
<1>1. PICK n : n = Head(ticks) - 1
  OBVIOUS
<1>2. PICK K : K = Countdown(lobby[Host], n)
  OBVIOUS
<1>3. n \in 0 .. 2 /\ ticks # <<>>
  BY <1>1, TickingFacts DEF Tick, Inv
<1>4. CASE n > 0
  <2>1. PICK m : m = Tick1(n)
    OBVIOUS
  <2>2. n \in 1 .. 2
    BY <1>3, <1>4
  <2>3. Notify(Host, K) /\ toGuest' = Sent(toGuest, peers, <<m>>) /\ ticks' = Append(Tail(ticks), n)
    BY <1>1, <1>2, <1>4, <2>1 DEF Tick, Broadcast
  <2> QED
    BY <1>2, <1>3, <2>1, <2>2, <2>3, TickOnStep DEF Tick
<1>5. CASE n = 0
  <2>1. PICK m, e, L : m = Tick1(0) /\ e = Msg("game-begin") /\ L = Begun(K)
    OBVIOUS
  <2>2. /\ lobby' = [lobby EXCEPT ![Host] = L]
        /\ game' = [game EXCEPT ![Host] = Notified(Notified(game[Host], K), L)]
        /\ toGuest' = Sent(toGuest, peers, <<m, e>>) /\ ticks' = Tail(ticks)
    BY <1>1, <1>2, <1>5, <2>1 DEF Tick, Broadcast
  <2>3. K = Countdown(lobby[Host], 0)
    BY <1>2, <1>5
  <2> QED
    BY <1>3, <2>1, <2>2, <2>3, TickOverStep DEF Tick
<1> QED
  BY <1>3, <1>4, <1>5

------------------------------------------------------------------------------
(* Fake players *)

\* Only what the host knows of fake players changes.
LEMMA FakeStep ==
    ASSUME Inv, NEW L \in LobbyType, lobby' = [lobby EXCEPT ![Host] = L], SameIds(lobby[Host], L),
           L.challenge = lobby[Host].challenge, L.started = lobby[Host].started,
           L.countdown = lobby[Host].countdown,
           \A i \in DOMAIN lobby[Host].players :
              lobby[Host].players[i].id \notin Fake => L.players[i] = lobby[Host].players[i],
           game' \in [Browser -> GameType], \A g \in Guest : game'[g] = game[g],
           Waiting => ~ game'[Host].playing,
           bots' \subseteq Fake, bots' \subseteq Ids(lobby[Host]),
           Host \in gone \/ ~ Vacant \/ L = lobby[Host],
           UNCHANGED <<gone, peers, conn, code, strays, toHost, toGuest, ticks, starts>>
    PROVE  Inv'
<1> USE DEF Inv
<1>1. lobby \in [Browser -> LobbyType] /\ lobby[Host] \in LobbyType
  BY People DEF Carried
<1>2. /\ lobby' \in [Browser -> LobbyType] /\ lobby'[Host] = L /\ \A g \in Guest : lobby'[g] = lobby[g]
  BY <1>1, People
<1>3. Roster'
  BY <1>2, RosterKept DEF Roster
<1>4. Chained'
  <2>1. ASSUME NEW g \in peers PROVE Shown(g, lobby[Host], L)
    <3>1. \A i \in DOMAIN lobby[Host].players :
              /\ lobby[Host].players[i].id \notin Fake \cup {g} => L.players[i] = lobby[Host].players[i]
              /\ lobby[Host].players[i].id = g => L.players[i].ready = lobby[Host].players[i].ready
      BY People DEF Carried
    <3> QED
      BY <1>1, <3>1, ShownMarks
  <2> QED
    BY <1>2, <2>1, ChainSilent
<1>5. Waiting => Calm(L)
  BY People DEF Hush, Calm
<1>6. ASSUME NEW g \in Guest PROVE Done(lobby[Host], g) => Done(L, g)
  <2>1. L \in LobbyType
    BY <1>2, People
  <2>2. \A i \in DOMAIN lobby[Host].players :
            lobby[Host].players[i].id = g /\ lobby[Host].players[i].finished => L.players[i].finished
    BY People
  <2> QED
    BY <1>1, <2>1, <2>2, DoneKept
<1> HIDE DEF Inv
<1> QED
  BY <1>3, <1>4, <1>5, <1>6, HostSilentStep

LEMMA StartFakePlayerSimulationStep == ASSUME Inv, StartFakePlayerSimulation PROVE Inv'
<1> DEFINE H == lobby[Host]
           x(i) == IF H.players[i].id \in Fake THEN AtStart(H.players[i]) ELSE H.players[i]
           xs == [i \in DOMAIN H.players |-> x(i)]
<1>1. /\ lobby \in [Browser -> LobbyType] /\ H \in LobbyType /\ game \in [Browser -> GameType]
      /\ bots \subseteq Fake /\ bots \subseteq Ids(H) /\ (Host \in gone => ~ H.started)
  BY People DEF Inv, Carried, Roster
<1>2. /\ game' = game /\ UNCHANGED <<gone, peers, conn, code, strays, toHost, toGuest, ticks, starts>>
  BY DEF StartFakePlayerSimulation, net
<1>3. Waiting => ~ game'[Host].playing
  BY <1>2, People DEF Inv, Hush
<1>4. CASE H.started /\ H.countdown = Null
  <2>1. lobby' = [lobby EXCEPT ![Host] = [H EXCEPT !.players = xs]] /\ bots' = Fake \cap Ids(H)
    BY <1>1, <1>4 DEF StartFakePlayerSimulation, Fakes
  <2>2. ASSUME NEW i \in DOMAIN H.players
        PROVE  x(i) \in PlayerType /\ x(i).id = H.players[i].id
    <3>1. H.players[i] \in PlayerType
      BY <1>1, TypeFacts
    <3> QED
      BY <3>1 DEF AtStart, PlayerType
  <2> HIDE DEF x
  <2>3. xs \in [DOMAIN H.players -> PlayerType] /\ \A i \in DOMAIN H.players : xs[i].id = H.players[i].id
    BY <2>2
  <2>4. \A i \in DOMAIN H.players : H.players[i].id \notin Fake => xs[i] = H.players[i]
    BY DEF x
  <2>5. PICK L : L = [H EXCEPT !.players = xs]
    OBVIOUS
  <2> HIDE DEF xs
  <2>6. /\ L \in LobbyType /\ L.players = xs
        /\ L.challenge = H.challenge /\ L.started = H.started /\ L.countdown = H.countdown
        /\ SameIds(H, L)
    BY <1>1, <2>3, <2>5, PlayersFacts
  <2>7. Host \in gone \/ ~ Vacant
    BY <1>4, EmptyFacts DEF Vacant
  <2> QED
    BY <1>1, <1>2, <1>3, <2>1, <2>4, <2>5, <2>6, <2>7, People, FakeStep
<1>5. CASE ~ (H.started /\ H.countdown = Null)
  <2>1. lobby' = lobby /\ bots' = bots
    BY <1>5 DEF StartFakePlayerSimulation
  <2>2. lobby' = [lobby EXCEPT ![Host] = H]
    BY <1>1, <2>1
  <2>3. SameIds(H, H)
    BY DEF SameIds
  <2> QED
    BY <1>1, <1>2, <1>3, <2>1, <2>2, <2>3, FakeStep
<1> QED
  BY <1>4, <1>5

LEMMA SimulateMoveStep == ASSUME Inv, NEW f \in Fake, SimulateMove(f) PROVE Inv'
<1> DEFINE H == lobby[Host]
<1>1. /\ lobby \in [Browser -> LobbyType] /\ H \in LobbyType /\ game \in [Browser -> GameType]
      /\ bots \subseteq Fake /\ bots \subseteq Ids(H) /\ f \in Ids(H)
  BY People DEF Inv, Carried, Roster, SimulateMove
<1>2. /\ UNCHANGED <<gone, peers, conn, code, strays, toHost, toGuest, ticks, starts>>
  BY DEF SimulateMove, net
<1>3. Entry(H, f).clicks + 1 \in Nat
  <2>2. Entry(H, f) \in PlayerType
    BY <1>1, TypeFacts, EntryFacts
  <2> QED
    BY <2>2, EntryType
<1>4. PICK n : n = Entry(H, f).clicks + 1
  OBVIOUS
<1>5. ~ Vacant
  BY <1>1, EmptyFacts DEF Vacant
<1>6. PICK L : /\ L = Moved(H, f, n) \/ L = Finished(H, f, n)
               /\ Notify(Host, L) /\ bots' \subseteq bots
  <2>1. \/ Notify(Host, Moved(H, f, n)) /\ UNCHANGED bots
        \/ Notify(Host, Finished(H, f, n)) /\ bots' = bots \ {f}
    BY <1>4 DEF SimulateMove
  <2>2. CASE Notify(Host, Moved(H, f, n)) /\ UNCHANGED bots
    BY <2>2
  <2>3. CASE Notify(Host, Finished(H, f, n)) /\ bots' = bots \ {f}
    BY <2>3
  <2> QED
    BY <2>1, <2>2, <2>3
<1>7. n \in Nat
  BY <1>3, <1>4
<1>8. Marks(H, L, f)
  <2>1. Marks(H, Moved(H, f, n), f)
    BY <1>1, <1>7, MovedFacts
  <2>2. Marks(H, Finished(H, f, n), f)
    BY <1>1, <1>7, FinishedFacts
  <2> QED
    BY <1>6, <2>1, <2>2
<1> HIDE DEF H
<1>9. /\ L \in LobbyType /\ SameIds(H, L)
      /\ L.challenge = H.challenge /\ L.started = H.started /\ L.countdown = H.countdown
      /\ \A i \in DOMAIN H.players : H.players[i].id \notin Fake => L.players[i] = H.players[i]
  BY <1>8 DEF Marks
<1> USE DEF H
<1>10. lobby' = [lobby EXCEPT ![Host] = L]
  BY <1>6 DEF Notify
<1>11. /\ game' \in [Browser -> GameType] /\ \A g \in Guest : game'[g] = game[g]
       /\ ~ game[Host].playing /\ Calm(L) => game'[Host] = game[Host]
  BY <1>6, <1>9, People, NotifyFacts DEF Inv
<1>12. Waiting => ~ game'[Host].playing
  BY <1>9, <1>11, People DEF Inv, Hush, Calm
<1>13. bots' \subseteq Fake /\ bots' \subseteq Ids(H)
  BY <1>1, <1>6
<1> QED
  BY <1>2, <1>5, <1>9, <1>10, <1>11, <1>12, <1>13, FakeStep

------------------------------------------------------------------------------
(* Guests come and go *)

\* The host enters a guest, and sends it a code or comes to no code.
LEMMA EnteredStep ==
    ASSUME Inv, NEW g \in Guest, conn[g] = "accepting", peers' = peers \cup {g},
           Notify(Host, Join(lobby[Host], Player(g))),
           Broadcast(IF Host \in gone THEN <<>> ELSE <<LobbyState(lobby'[Host])>>),
           NEW k \in {"closed", "accepted", "offered"}, conn' = [conn EXCEPT ![g] = k],
           code' = code \/ code' = [code EXCEPT ![g] = lobby'[Host]],
           NEW n \in Nat, strays' = [strays EXCEPT ![g] = n], n >= strays[g],
           k = "offered" => code' = code /\ n > 0,
           UNCHANGED <<gone, toHost, noticed, sim, asking>>
    PROVE  Inv'
<1> DEFINE H == lobby[Host]
<1>1. /\ lobby \in [Browser -> LobbyType] /\ H \in LobbyType /\ game \in [Browser -> GameType]
      /\ conn \in [Guest -> Conns] /\ code \in [Guest -> LobbyType] /\ toGuest \in [Guest -> Seq(ForGuest)]
      /\ peers \subseteq Guest /\ strays \in [Guest -> Nat]
  BY People DEF Inv, Carried
<1>2. PICK x : x = Player(g)
  OBVIOUS
<1>3. x \in PlayerType /\ x.id = g
  BY <1>2, PlayerFacts, People
<1>4. PICK L : L = Join(H, x)
  OBVIOUS
<1>5. /\ L \in LobbyType /\ L.started = H.started /\ L.countdown = H.countdown /\ L.players # <<>>
      /\ Len(L.players) = Len(H.players) + 1 /\ L.players[Len(H.players) + 1] = x
      /\ \A i \in 1 .. Len(H.players) : L.players[i] = H.players[i]
      /\ Ids(L) = Ids(H) \cup {g}
      /\ \A S : Apart(H, S) /\ (g \in S \/ g \notin Ids(H)) => Apart(L, S)
      /\ \A q : Done(H, q) /\ q # g => Done(L, q)
  BY <1>1, <1>3, <1>4, JoinFacts
<1>6. PICK m : m = LobbyState(L)
  OBVIOUS
<1>7. m \in ForGuest /\ m.k = "lobby-state" /\ m.lobby = L
  BY <1>5, <1>6 DEF LobbyState, ForGuest
<1>8. PICK ms : ms = IF Host \in gone THEN <<>> ELSE <<m>>
  OBVIOUS
<1>9. ms \in Seq(ForGuest) /\ Messages(ms) \subseteq {m}
  <2>1. CASE Host \in gone
    BY <1>8, <2>1 DEF Messages
  <2>2. CASE Host \notin gone
    BY <1>7, <1>8, <2>2, OneFacts
  <2> QED
    BY <2>1, <2>2
<1>10. /\ peers' = peers \cup {g} /\ Notify(Host, L) /\ UNCHANGED <<gone, toHost, noticed, ticks, starts, bots>>
  BY <1>2, <1>4 DEF sim
<1>11. /\ lobby' \in [Browser -> LobbyType] /\ game' \in [Browser -> GameType] /\ lobby'[Host] = L
       /\ \A y \in Guest : lobby'[y] = lobby[y] /\ game'[y] = game[y]
       /\ ~ game[Host].playing /\ Calm(L) => game'[Host] = game[Host]
  BY <1>5, <1>10, People, NotifyFacts DEF Inv
<1>12. toGuest' = Sent(toGuest, peers, ms)
  BY <1>6, <1>8, <1>11 DEF Broadcast
<1>13. /\ conn' \in [Guest -> Conns] /\ \A y \in Guest : y # g => conn'[y] = conn[y]
       /\ conn'[g] = k
       /\ code' \in [Guest -> LobbyType] /\ \A y \in Guest : code'[y] = code[y] \/ code'[y] = L
       /\ \A y \in Guest : y # g => code'[y] = code[y]
       /\ strays' \in [Guest -> Nat] /\ strays'[g] = n /\ \A y \in Guest : y # g => strays'[y] = strays[y]
       /\ Strayed \subseteq Strayed'
  <2>1. /\ conn' \in [Guest -> Conns] /\ \A y \in Guest : y # g => conn'[y] = conn[y]
        /\ conn'[g] = k
    BY <1>1 DEF Conns
  <2>2. /\ code' \in [Guest -> LobbyType] /\ \A y \in Guest : code'[y] = code[y] \/ code'[y] = L
        /\ \A y \in Guest : y # g => code'[y] = code[y]
    BY <1>1, <1>5, <1>11
  <2>3. /\ strays' \in [Guest -> Nat] /\ strays'[g] = n /\ \A y \in Guest : y # g => strays'[y] = strays[y]
    BY <1>1
  <2>4. Strayed \subseteq Strayed'
    BY <1>1, <2>3 DEF Strayed
  <2> QED
    BY <2>1, <2>2, <2>3, <2>4
<1>14. (g \in peers => g \in Strayed) /\ ~ Vacant
  BY DEF Inv, Roster, Early, Vacant, Strayed
<1>15. toGuest' \in [Guest -> Seq(ForGuest)]
  BY <1>1, <1>9, <1>12, SentFacts
<1>16. Carried'
  BY <1>1, <1>10, <1>11, <1>13, <1>15 DEF Inv, Carried
<1>17. Roster'
  <2>1. ASSUME NEW y \in Guest, conn'[y] \in Early
        PROVE  (y \in peers' => strays'[y] > 0) /\ code'[y] = Empty /\ lobby'[y] = Empty
    <3>1. CASE y # g
      BY <1>10, <1>11, <1>13, <2>1, <3>1 DEF Inv, Roster
    <3>2. CASE y = g
      <4>1. k = "offered"
        BY <1>13, <2>1, <3>2 DEF Early
      <4>2. code[g] = Empty /\ lobby[g] = Empty
        BY DEF Inv, Roster, Early
      <4> QED
        BY <1>11, <1>13, <3>2, <4>1, <4>2
    <3> QED
      BY <3>1, <3>2
  <2>5. \A y \in Guest : conn'[y] = "none" => strays'[y] = 0
    BY <1>13 DEF Inv, Roster
  <2>2. bots' \subseteq Ids(lobby'[Host])
    BY <1>5, <1>10, <1>11 DEF Inv, Roster
  <2>3. Host \in gone' => ~ lobby'[Host].started
    BY <1>5, <1>10, <1>11 DEF Inv, Roster
  <2>4. ASSUME Host \notin gone' PROVE Apart(L, Strayed') /\ Ids(L) \ Fake = {Host} \cup peers'
    <3>1. Apart(H, Strayed) /\ Ids(H) \ Fake = {Host} \cup peers
      BY <1>10, <1>14, <2>4, Hosted DEF Inv
    <3>2. g \in Strayed' \/ g \notin Ids(H)
      BY <1>13, <1>14, <3>1, People
    <3>3. Apart(H, Strayed')
      BY <1>13, <3>1 DEF Apart
    <3> QED
      BY <1>5, <1>10, <3>1, <3>2, <3>3, People
  <2> QED
    BY <1>11, <2>1, <2>2, <2>3, <2>4, <2>5 DEF Roster
<1>18. Hush' /\ Peopled'
  <2>1. Waiting' => Waiting /\ Calm(L) /\ ~ game'[Host].playing /\ \A y \in Messages(ms) : CalmMsg(y)
    BY <1>5, <1>7, <1>9, <1>10, <1>11, People DEF Inv, Waiting, Hush, Calm, CalmMsg
  <2>2. \A y \in Messages(ms) : y.k = "lobby-state" => y.lobby.players # <<>>
    BY <1>5, <1>7, <1>9
  <2>3. \A y \in Guest : code'[y] = code[y] \/ (code'[y] = L /\ L.players # <<>>)
    BY <1>5, <1>13
  <2>4. \A y \in Guest : \/ conn'[y] = conn[y] \/ conn'[y] = "closed"
                         \/ conn[y] = "accepting" /\ conn'[y] \in {"accepted", "offered"}
    BY <1>13
  <2> QED
    BY <1>5, <1>9, <1>11, <1>12, <2>1, <2>2, <2>3, <2>4, HostQuiet
<1>19. \A y \in Guest : conn'[y] = "open" /\ y \in peers' => y # g /\ conn[y] = "open" /\ y \in peers
  BY <1>10, <1>13
<1>20. Reported'
  <2>1. \A y \in Guest : y # g => (Done(H, y) => Done(lobby'[Host], y))
    BY <1>5, <1>11
  <2>2. \A y \in Guest : (Reports(y)' => Reports(y)) /\ (Arrived(y) => Arrived(y)')
    BY <1>10, <1>11 DEF Reports, Arrived
  <2> QED
    BY <1>10, <1>19, <2>1, <2>2, ReportedKept DEF Inv
<1>21. Chained'
  <2>1. CASE Host \in gone
    BY <1>10, <2>1 DEF Chained
  <2>2. CASE Host \notin gone
    BY <1>5, <1>7, <1>8, <1>10, <1>11, <1>12, <1>19, <2>2, ChainWhole
  <2> QED
    BY <2>1, <2>2
<1> QED
  BY <1>16, <1>17, <1>18, <1>20, <1>21 DEF Inv

LEMMA AcceptedStep == ASSUME Inv, NEW g \in Guest, Accepted(g) PROVE Inv'
<1>1. strays \in [Guest -> Nat] /\ strays[g] \in Nat
  BY DEF Inv, Carried
<1>2. PICK k, n : k = (IF Host \in gone THEN "closed" ELSE "accepted") /\ n = strays[g]
  OBVIOUS
<1>3. k \in {"closed", "accepted"} /\ n \in Nat /\ n >= strays[g] /\ strays' = [strays EXCEPT ![g] = n]
  BY <1>1, <1>2 DEF Accepted
<1>4. conn' = [conn EXCEPT ![g] = k]
  BY <1>2 DEF Accepted
<1>5. code' = code \/ code' = [code EXCEPT ![g] = lobby'[Host]]
  BY DEF Accepted
<1> QED
  BY <1>3, <1>4, <1>5, EnteredStep DEF Accepted

LEMMA UnwrittenStep == ASSUME Inv, NEW g \in Guest, Unwritten(g) PROVE Inv'
<1>1. strays \in [Guest -> Nat] /\ strays[g] \in Nat
  BY DEF Inv, Carried
<1>2. PICK k, n : k = "offered" /\ n = strays[g] + 1
  OBVIOUS
<1>3. /\ k \in {"closed", "accepted", "offered"} /\ n \in Nat /\ n >= strays[g] /\ n > 0
      /\ strays' = [strays EXCEPT ![g] = n] /\ conn' = [conn EXCEPT ![g] = k] /\ code' = code
  BY <1>1, <1>2 DEF Unwritten
<1>4. Broadcast(IF Host \in gone THEN <<>> ELSE <<LobbyState(lobby'[Host])>>)
  BY DEF Unwritten
<1> QED
  BY <1>3, <1>4, EnteredStep DEF Unwritten

\* The others are told of the lobby.
Announced(g) == toGuest' = Sent(toGuest, peers \ {g}, <<LobbyState(lobby'[Host])>>)

\* The host takes a guest out of the lobby. Its connection is closed, unless it
\* was not made yet.
LEMMA DelistedStep ==
    ASSUME Inv, NEW g \in Guest, ~ Vacant, Host \notin gone, peers' = peers \ {g},
           NEW k \in Conns, conn' = [conn EXCEPT ![g] = k], k = "closed" \/ (k = conn[g] /\ k \in {"offered", "accepting"}),
           NEW n \in Nat, strays' = [strays EXCEPT ![g] = n],
           Notify(Host, Without(lobby[Host], g)),
           Announced(g),
           toHost' \in [Guest -> Seq(ForHost)], \A x \in Guest : Messages(toHost'[x]) \subseteq Messages(toHost[x]),
           \A x \in Guest : x # g => toHost'[x] = toHost[x],
           UNCHANGED <<gone, code, sim>>
    PROVE  Inv'
<1> DEFINE H == lobby[Host]
<1>1. /\ lobby \in [Browser -> LobbyType] /\ H \in LobbyType /\ game \in [Browser -> GameType]
      /\ conn \in [Guest -> Conns] /\ toGuest \in [Guest -> Seq(ForGuest)] /\ peers \subseteq Guest
      /\ strays \in [Guest -> Nat]
  BY People DEF Inv, Carried
<1>2. PICK L : L = Without(H, g)
  OBVIOUS
<1>3. /\ L \in LobbyType /\ L.started = H.started /\ L.countdown = H.countdown
      /\ Ids(L) = Ids(H) \ {g} /\ \A S : Apart(H, S) => Apart(L, S \ {g})
      /\ \A q : Done(H, q) => Done(L, q)
  <2>1. PICK K : K = H
    OBVIOUS
  <2> HIDE DEF H
  <2>2. K \in LobbyType /\ L = Without(K, g)
    BY <1>1, <1>2, <2>1
  <2>3. /\ L \in LobbyType /\ L.started = K.started /\ L.countdown = K.countdown
        /\ Ids(L) = Ids(K) \ {g} /\ \A S : Apart(K, S) => Apart(L, S \ {g})
    BY <2>2, WithoutFacts
  <2>4. \A q : Done(K, q) => Done(L, q)
    BY <2>2, WithoutFacts
  <2> QED
    BY <2>1, <2>3, <2>4
<1>4. /\ peers' = peers \ {g} /\ Notify(Host, L) /\ UNCHANGED <<gone, code, ticks, starts, bots>>
  BY <1>2 DEF sim
<1>5. /\ lobby' \in [Browser -> LobbyType] /\ game' \in [Browser -> GameType] /\ lobby'[Host] = L
      /\ \A y \in Guest : lobby'[y] = lobby[y] /\ game'[y] = game[y]
      /\ ~ game[Host].playing /\ Calm(L) => game'[Host] = game[Host]
  BY <1>3, <1>4, People, NotifyFacts DEF Inv
<1>6. PICK m, ms : m = LobbyState(L) /\ ms = <<m>>
  OBVIOUS
<1>7. m \in ForGuest /\ m.k = "lobby-state" /\ m.lobby = L
  BY <1>3, <1>6 DEF LobbyState, ForGuest
<1>8. ms \in Seq(ForGuest) /\ Messages(ms) = {m}
  BY <1>6, <1>7, OneFacts
<1>9. toGuest' = Sent(toGuest, peers \ {g}, ms)
  BY <1>5, <1>6 DEF Announced
<1>10. Apart(H, Strayed) /\ Ids(H) \ Fake = {Host} \cup peers
  BY Hosted DEF Inv
<1>12. /\ conn' \in [Guest -> Conns] /\ conn'[g] = k /\ \A y \in Guest : y # g => conn'[y] = conn[y]
       /\ strays' \in [Guest -> Nat] /\ strays'[g] = n /\ \A y \in Guest : y # g => strays'[y] = strays[y]
       /\ Strayed \ {g} \subseteq Strayed'
  BY <1>1 DEF Strayed
<1>11. Ids(L) \ Fake = {Host} \cup peers' /\ L.players # <<>> /\ Apart(L, Strayed')
  <2>2. Apart(L, Strayed')
    BY <1>3, <1>10, <1>12 DEF Apart
  <2>1. Ids(L) \ Fake = {Host} \cup peers'
    BY <1>3, <1>4, <1>10, People
  <2> QED
    BY <1>3, <2>1, <2>2, IdsFacts
<1>13. toGuest' \in [Guest -> Seq(ForGuest)]
  <2>1. PICK to : to = peers \ {g}
    OBVIOUS
  <2>2. toGuest' = Sent(toGuest, to, ms) /\ toGuest \in [Guest -> Seq(ForGuest)]
    BY <1>1, <1>9, <2>1
  <2> QED
    BY <1>8, <2>2, SentFacts
<1>14. Carried'
  BY <1>1, <1>4, <1>5, <1>12, <1>13 DEF Inv, Carried
<1>15. Roster'
  <2>1. ASSUME NEW y \in Guest, conn'[y] \in Early
        PROVE  (y \in peers' => strays'[y] > 0) /\ code'[y] = Empty /\ lobby'[y] = Empty
    <3>1. conn[y] \in Early
      BY <1>12, <2>1 DEF Early
    <3> QED
      BY <1>4, <1>5, <1>12, <3>1 DEF Inv, Roster
  <2>3. \A y \in Guest : conn'[y] = "none" => strays'[y] = 0
    BY <1>12 DEF Inv, Roster
  <2>2. bots' \subseteq Ids(L)
    BY <1>3, <1>4, People DEF Inv, Roster, Carried
  <2> QED
    BY <1>4, <1>5, <1>11, <2>1, <2>2, <2>3 DEF Roster
<1>16. Hush' /\ Peopled'
  <2>1. Waiting' => Waiting /\ Calm(L) /\ ~ game'[Host].playing /\ \A y \in Messages(ms) : CalmMsg(y)
    BY <1>3, <1>4, <1>5, <1>7, <1>8, People DEF Inv, Waiting, Hush, Calm, CalmMsg
  <2>2. \A y \in Messages(ms) : y.k = "lobby-state" => y.lobby.players # <<>>
    BY <1>7, <1>8, <1>11
  <2>3. \A y \in Guest : code'[y] = code[y]
    BY <1>4
  <2>4. \A y \in Guest : conn'[y] = conn[y] \/ conn'[y] = "closed"
    BY <1>12
  <2>5. PICK to : to = peers \ {g}
    OBVIOUS
  <2>6. toGuest' = Sent(toGuest, to, ms)
    BY <1>9, <2>5
  <2> QED
    BY <1>3, <1>5, <1>8, <2>1, <2>2, <2>3, <2>4, <2>6, HostQuiet
<1>17. \A y \in Guest : conn'[y] = "open" /\ y \in peers' => y # g /\ conn[y] = "open" /\ y \in peers
  BY <1>4, <1>12
<1>18. Reported'
  <2>1. \A y \in Guest : Done(H, y) => Done(lobby'[Host], y)
    BY <1>3, <1>5
  <2>2. \A y \in Guest : y # g => (Reports(y)' => Reports(y)) /\ (Arrived(y) => Arrived(y)')
    BY <1>5 DEF Reports, Arrived
  <2> QED
    BY <1>4, <1>17, <2>1, <2>2, ReportedKept DEF Inv
<1>19. Chained'
  <2>1. PICK to : to = peers \ {g}
    OBVIOUS
  <2>2. toGuest' = Sent(toGuest, to, <<m>>)
    BY <1>6, <1>9, <2>1
  <2>3. \A y \in Guest : conn'[y] = "open" /\ y \in peers' => conn[y] = "open" /\ y \in peers /\ y \in to
    BY <1>17, <2>1
  <2> QED
    BY <1>3, <1>4, <1>5, <1>7, <2>2, <2>3, ChainWhole
<1> QED
  BY <1>14, <1>15, <1>16, <1>18, <1>19 DEF Inv

\* The host drops a guest whose connection has ended, or who has said goodbye.
LEMMA DroppedStep ==
    ASSUME Inv, NEW g \in Guest, ~ Vacant, Host \notin gone, Dropped(g),
           toHost' \in [Guest -> Seq(ForHost)], \A x \in Guest : Messages(toHost'[x]) \subseteq Messages(toHost[x]),
           \A x \in Guest : x # g => toHost'[x] = toHost[x],
           NEW n \in Nat, strays' = [strays EXCEPT ![g] = n],
           UNCHANGED <<gone, code, sim>>
    PROVE  Inv'
<1>1. PICK k : k = "closed"
  OBVIOUS
<1>2. k \in Conns /\ conn' = [conn EXCEPT ![g] = k] /\ peers' = peers \ {g}
  BY <1>1 DEF Dropped, Conns
<1> QED
  BY <1>1, <1>2, DelistedStep DEF Dropped, Announced

\* The connections that went astray are as many as before.
LEMMA StraysKept ==
    ASSUME Carried, NEW g \in Guest, strays' = strays
    PROVE  \E n \in Nat : strays' = [strays EXCEPT ![g] = n]
<1>1. strays[g] \in Nat /\ strays' = [strays EXCEPT ![g] = strays[g]]
  BY DEF Carried
<1> QED
  BY <1>1

\* What had been sent is lost.
LEMMA LostFacts ==
    ASSUME Carried, NEW g \in Guest, toHost' = [toHost EXCEPT ![g] = <<>>]
    PROVE  /\ toHost' \in [Guest -> Seq(ForHost)] /\ \A x \in Guest : Messages(toHost'[x]) \subseteq Messages(toHost[x])
           /\ \A x \in Guest : x # g => toHost'[x] = toHost[x]
<1>1. toHost \in [Guest -> Seq(ForHost)]
  BY DEF Carried
<1>2. <<>> \in Seq(ForHost) /\ Messages(<<>>) = {}
  BY DEF Messages
<1>3. /\ toHost' \in [Guest -> Seq(ForHost)] /\ toHost'[g] = <<>>
      /\ \A x \in Guest : x # g => toHost'[x] = toHost[x]
  BY <1>1, <1>2
<1>4. \A x \in Guest : Messages(toHost'[x]) \subseteq Messages(toHost[x])
  BY <1>2, <1>3
<1> QED
  BY <1>3, <1>4

LEMMA StrayFailsStep == ASSUME Inv, NEW g \in Guest, StrayFails(g) PROVE Inv'
<1>1. /\ strays \in [Guest -> Nat] /\ strays[g] > 0 /\ conn \in [Guest -> Conns] /\ Host \notin gone
      /\ UNCHANGED <<gone, code, sim>>
  BY DEF Inv, Carried, StrayFails
<1>2. PICK n \in Nat : strays' = [strays EXCEPT ![g] = n]
  <2>1. strays[g] - 1 \in Nat
    BY <1>1
  <2> QED
    BY <2>1 DEF StrayFails
<1>3. ~ Vacant
  BY <1>1 DEF Vacant, Inv, Roster
<1>4. /\ toHost' \in [Guest -> Seq(ForHost)] /\ \A x \in Guest : Messages(toHost'[x]) \subseteq Messages(toHost[x])
      /\ \A x \in Guest : x # g => toHost'[x] = toHost[x]
  BY LostFacts DEF StrayFails, Inv
<1>5. CASE conn[g] \in {"offered", "accepting"}
  <2>1. PICK k : k = conn[g]
    OBVIOUS
  <2>2. k \in Conns /\ k \in {"offered", "accepting"} /\ conn' = [conn EXCEPT ![g] = k]
    BY <1>1, <1>5, <2>1 DEF StrayFails
  <2> QED
    BY <1>1, <1>2, <1>3, <1>4, <1>5, <2>1, <2>2, DelistedStep DEF StrayFails, Announced
<1>6. CASE conn[g] \notin {"offered", "accepting"}
  BY <1>1, <1>2, <1>3, <1>4, <1>6, DroppedStep DEF StrayFails
<1> QED
  BY <1>5, <1>6

LEMMA HostNoticesStep == ASSUME Inv, NEW g \in Guest, HostNotices(g) PROVE Inv'
<1>1. /\ toHost' = [toHost EXCEPT ![g] = <<>>] /\ g \in peers /\ Host \notin gone /\ Dropped(g)
      /\ UNCHANGED <<gone, code, strays, sim>>
  BY DEF HostNotices
<1>2. PICK n \in Nat : strays' = [strays EXCEPT ![g] = n]
  BY <1>1, StraysKept DEF Inv
<1>3. ~ Vacant
  BY <1>1 DEF Vacant
<1> QED
  BY <1>1, <1>2, <1>3, LostFacts, DroppedStep DEF Inv

------------------------------------------------------------------------------
(* The host takes a message *)

\* What is left when the host has taken a guest's message.
LEMMA TakenFacts ==
    ASSUME Carried, NEW g \in Guest, toHost[g] # <<>>, NEW m, m = Head(toHost[g]),
           toHost' = [toHost EXCEPT ![g] = Tail(@)]
    PROVE  /\ toHost' \in [Guest -> Seq(ForHost)] /\ \A x \in Guest : x # g => toHost'[x] = toHost[x]
           /\ \A x \in Guest : Messages(toHost'[x]) \subseteq Messages(toHost[x])
           /\ \A y \in Messages(toHost[g]) : y = m \/ y \in Messages(toHost'[g])
           /\ m \in ForHost /\ (m.k \in {"player-move", "player-finish"} => m.id = g)
<1>1. toHost \in [Guest -> Seq(ForHost)]
  BY DEF Carried
<1>2. PICK q : q = toHost[g]
  OBVIOUS
<1>3. q \in Seq(ForHost) /\ q # <<>>
  BY <1>1, <1>2
<1>4. /\ m \in Messages(q) /\ m \in ForHost /\ Tail(q) \in Seq(ForHost)
      /\ Messages(Tail(q)) \subseteq Messages(q) /\ \A y \in Messages(q) : y = m \/ y \in Messages(Tail(q))
  BY <1>2, <1>3, QueueFacts
<1>5. /\ toHost' \in [Guest -> Seq(ForHost)] /\ toHost'[g] = Tail(q)
      /\ \A x \in Guest : x # g => toHost'[x] = toHost[x]
  BY <1>1, <1>2, <1>4
<1>6. m.k \in {"player-move", "player-finish"} => m.id = g
  BY <1>2, <1>4 DEF Carried
<1> QED
  BY <1>2, <1>4, <1>5, <1>6

\* The host has heard of what a guest has done, and passes on ms.
LEMMA HeardStep ==
    ASSUME Inv, NEW g \in Guest, g \in peers, Host \notin gone, NEW L \in LobbyType, SameIds(lobby[Host], L),
           L.started = lobby[Host].started, L.countdown = lobby[Host].countdown, Notify(Host, L),
           NEW to, NEW ms \in Seq(ForGuest), toGuest' = Sent(toGuest, to, ms),
           \A m \in Messages(ms) : m.k # "game-begin" /\ (m.k = "lobby-state" => m.lobby = L),
           toHost' \in [Guest -> Seq(ForHost)], \A x \in Guest : Messages(toHost'[x]) \subseteq Messages(toHost[x]),
           \A i \in DOMAIN L.players : lobby[Host].players[i].finished => L.players[i].finished,
           \A x \in Guest : Arrived(x) => Arrived(x)' \/ Done(L, x),
           UNCHANGED <<gone, code, strays, peers, conn, sim>>, Chained'
    PROVE  Inv'
<1> DEFINE H == lobby[Host]
<1>1. /\ lobby \in [Browser -> LobbyType] /\ H \in LobbyType /\ toGuest \in [Guest -> Seq(ForGuest)]
  BY People DEF Inv, Carried
<1>2. /\ lobby' \in [Browser -> LobbyType] /\ game' \in [Browser -> GameType] /\ lobby'[Host] = L
      /\ \A y \in Guest : lobby'[y] = lobby[y] /\ game'[y] = game[y]
      /\ ~ game[Host].playing /\ Calm(L) => game'[Host] = game[Host]
  BY People, NotifyFacts DEF Inv
<1>3. ~ Vacant
  BY DEF Vacant
<1>4. L.players # <<>>
  BY <1>1, <1>3, Hosted, SameIdsFacts DEF Inv
<1>5. UNCHANGED <<ticks, starts, bots>>
  BY DEF sim
<1>6. toGuest' \in [Guest -> Seq(ForGuest)]
  BY <1>1, SentFacts
<1>7. Carried'
  BY <1>2, <1>5, <1>6 DEF Inv, Carried
<1>8. Roster'
  BY <1>2, <1>3, <1>5, RosterKept DEF Inv, Roster
<1>9. Hush' /\ Peopled'
  <2>1. Waiting' => Waiting /\ Calm(L) /\ ~ game'[Host].playing /\ \A y \in Messages(ms) : CalmMsg(y)
    BY <1>2, <1>5, People DEF Inv, Waiting, Hush, Calm, CalmMsg
  <2>2. \A y \in Messages(ms) : y.k = "lobby-state" => y.lobby.players # <<>>
    BY <1>4
  <2>3. \A y \in Guest : code'[y] = code[y] /\ conn'[y] = conn[y]
    OBVIOUS
  <2> QED
    BY <1>2, <2>1, <2>2, <2>3, HostQuiet
<1>10. Reported'
  <2> SUFFICES ASSUME NEW x \in Guest, starts' = 1, conn'[x] = "open", x \in peers', Host \notin gone', Reports(x)'
             PROVE  \/ Arrived(x)'
                    \/ Done(L, x)
    BY <1>2 DEF Reported, Reports, Arrived
  <2>1. Reports(x) /\ conn[x] = "open" /\ x \in peers /\ starts = 1
    BY <1>2, <1>5 DEF Reports
  <2>2. \/ Arrived(x)
        \/ Done(H, x)
    BY <2>1 DEF Inv, Reported, Reports, Arrived
  <2>3. CASE Arrived(x)
    BY <2>3
  <2>4. CASE Done(H, x)
    BY <1>1, <2>4, DoneKept DEF SameIds
  <2> QED
    BY <2>2, <2>3, <2>4
<1> QED
  BY <1>7, <1>8, <1>9, <1>10 DEF Inv

\* The host answers a guest with its lobby.
LEMMA ResyncStep ==
    ASSUME Inv, NEW g \in Guest, g \in peers, Host \notin gone, NEW L \in LobbyType, SameIds(lobby[Host], L),
           L.started = lobby[Host].started, L.countdown = lobby[Host].countdown, Notify(Host, L),
           Broadcast(<<LobbyState(lobby'[Host])>>),
           toHost' \in [Guest -> Seq(ForHost)], \A x \in Guest : Messages(toHost'[x]) \subseteq Messages(toHost[x]),
           \A i \in DOMAIN L.players : lobby[Host].players[i].finished => L.players[i].finished,
           \A x \in Guest : Arrived(x) => Arrived(x)',
           UNCHANGED <<gone, code, strays, peers, conn, sim>>
    PROVE  Inv'
<1>1. PICK m, ms : m = LobbyState(L) /\ ms = <<m>>
  OBVIOUS
<1>2. m \in ForGuest /\ m.k = "lobby-state" /\ m.lobby = L
  BY <1>1 DEF LobbyState, ForGuest
<1>3. ms \in Seq(ForGuest) /\ Messages(ms) = {m}
  BY <1>1, <1>2, OneFacts
<1>4. lobby'[Host] = L /\ \A y \in Guest : lobby'[y] = lobby[y]
  BY People, NotifyFacts DEF Inv
<1>5. toGuest' = Sent(toGuest, peers, ms)
  BY <1>1, <1>4 DEF Broadcast
<1>6. Chained'
  BY <1>1, <1>2, <1>4, <1>5, ChainWhole
<1>7. \A y \in Messages(ms) : y.k # "game-begin" /\ (y.k = "lobby-state" => y.lobby = L)
  BY <1>2, <1>3
<1> QED
  BY <1>3, <1>5, <1>6, <1>7, HeardStep

\* The host passes on what a guest has done.
LEMMA RelayStep ==
    ASSUME Inv, NEW g \in Guest, g \in peers, Host \notin gone, toHost[g] # <<>>, NEW m, m = Head(toHost[g]),
           m.k \in {"player-move", "player-finish"}, NEW L, L = Applied(lobby[Host], m), Notify(Host, L),
           toGuest' = Sent(toGuest, peers \ {g}, <<m>>), toHost' = [toHost EXCEPT ![g] = Tail(@)],
           UNCHANGED <<gone, code, strays, peers, conn, sim>>
    PROVE  Inv'
<1> DEFINE H == lobby[Host]
<1>1. /\ lobby \in [Browser -> LobbyType] /\ H \in LobbyType
  BY People DEF Inv, Carried
<1>2. /\ toHost' \in [Guest -> Seq(ForHost)] /\ \A x \in Guest : x # g => toHost'[x] = toHost[x]
      /\ \A x \in Guest : Messages(toHost'[x]) \subseteq Messages(toHost[x])
      /\ \A y \in Messages(toHost[g]) : y = m \/ y \in Messages(toHost'[g])
      /\ m \in ForHost /\ m.id = g
  BY TakenFacts DEF Inv
<1>3. m.clicks \in Nat /\ m \in ForGuest
  <2>1. m \in [k : {"player-move", "player-finish"}, id : Guest, clicks : Nat]
    BY <1>2 DEF ForHost
  <2> QED
    BY <2>1, People DEF ForGuest
<1>4. PICK n : n = m.clicks
  OBVIOUS
<1>5. n \in Nat
  BY <1>3, <1>4
<1>6. /\ Marks(H, L, g)
      /\ \A i \in DOMAIN H.players :
            /\ H.players[i].finished \/ (m.k = "player-finish" /\ H.players[i].id = g /\ Found(H, i)) => L.players[i].finished
            /\ L.players[i].ready = H.players[i].ready
  <2>1. CASE m.k = "player-move"
    <3>1. L = Moved(H, g, n)
      BY <1>2, <1>4, <2>1, AppliedIs
    <3> HIDE DEF H
    <3> QED
      BY <1>1, <1>5, <2>1, <3>1, MovedFacts
  <2>2. CASE m.k = "player-finish"
    <3>1. L = Finished(H, g, n)
      BY <1>2, <1>4, <2>2, AppliedIs
    <3> HIDE DEF H
    <3> QED
      BY <1>1, <1>5, <2>2, <3>1, FinishedFacts
  <2> QED
    BY <2>1, <2>2
<1>7. /\ L \in LobbyType /\ SameIds(H, L) /\ L.challenge = H.challenge /\ L.started = H.started
      /\ L.countdown = H.countdown
      /\ \A i \in DOMAIN H.players : H.players[i].id # g => L.players[i] = H.players[i]
  BY <1>6 DEF Marks
<1>8. PICK ms, to : ms = <<m>> /\ to = peers \ {g}
  OBVIOUS
<1>9. ms \in Seq(ForGuest) /\ Messages(ms) = {m}
  BY <1>3, <1>8, OneFacts
<1>10. toGuest' = Sent(toGuest, to, ms)
  BY <1>8
<1>11. lobby'[Host] = L /\ \A y \in Guest : lobby'[y] = lobby[y]
  BY <1>7, People, NotifyFacts DEF Inv
<1>12. Chained'
  <2>1. Shown(g, H, L)
    <3>1. \A i \in DOMAIN H.players :
              /\ H.players[i].id \notin Fake \cup {g} => L.players[i] = H.players[i]
              /\ H.players[i].id = g => L.players[i].ready = H.players[i].ready
      BY <1>6, <1>7
    <3> QED
      BY <1>1, <1>7, <3>1, ShownMarks
  <2>2. \A x \in Guest : Pending(x) => Pending(x)'
    BY <1>2 DEF Pending
  <2>3. \A x \in peers : x \notin to => Shown(x, H, L)
    BY <1>8, <2>1
  <2>4. toGuest' = Sent(toGuest, to, <<m>>)
    BY <1>8
  <2> QED
    BY <1>3, <1>7, <1>11, <2>2, <2>3, <2>4, ChainTold
<1>13. \A y \in Messages(ms) : y.k # "game-begin" /\ (y.k = "lobby-state" => y.lobby = L)
  BY <1>9
<1>14. \A i \in DOMAIN L.players : H.players[i].finished => L.players[i].finished
  BY <1>6, <1>7 DEF SameIds
<1>15. \A x \in Guest : Arrived(x) => Arrived(x)' \/ Done(L, x)
  <2> SUFFICES ASSUME NEW x \in Guest, Arrived(x), ~ Arrived(x)'
               PROVE  Done(L, x)
    OBVIOUS
  <2>1. x = g /\ m.k = "player-finish"
    BY <1>2 DEF Arrived
  <2>2. \A i \in DOMAIN H.players : Found(L, i) <=> Found(H, i)
    BY <1>1, <1>7, SameIdsFacts
  <2> QED
    BY <1>6, <1>7, <2>1, <2>2 DEF SameIds, Done
<1>16. toHost' \in [Guest -> Seq(ForHost)] /\ \A x \in Guest : Messages(toHost'[x]) \subseteq Messages(toHost[x])
  BY <1>2
<1>17. L \in LobbyType /\ SameIds(H, L) /\ L.started = H.started /\ L.countdown = H.countdown
  BY <1>7
<1>18. ms \in Seq(ForGuest)
  BY <1>9
<1> QED
  BY <1>10, <1>12, <1>13, <1>14, <1>15, <1>16, <1>17, <1>18, HeardStep

LEMMA HostReceivesStep == ASSUME Inv, NEW g \in Guest, HostReceives(g) PROVE Inv'
<1> DEFINE H == lobby[Host]
<1>1. PICK m : m = Head(toHost[g])
  OBVIOUS
<1>2. /\ toHost[g] # <<>> /\ g \in peers /\ Host \notin gone
      /\ toHost' = [toHost EXCEPT ![g] = Tail(@)] /\ UNCHANGED <<gone, code, strays, sim>>
  BY DEF HostReceives
<1>3. /\ toHost' \in [Guest -> Seq(ForHost)] /\ \A x \in Guest : x # g => toHost'[x] = toHost[x]
      /\ \A x \in Guest : Messages(toHost'[x]) \subseteq Messages(toHost[x])
      /\ \A y \in Messages(toHost[g]) : y = m \/ y \in Messages(toHost'[g])
      /\ m \in ForHost /\ (m.k \in {"player-move", "player-finish"} => m.id = g)
  BY <1>1, <1>2, TakenFacts DEF Inv
<1>4. H \in LobbyType
  BY People DEF Inv, Carried
<1>5. \/ m.k = "player-info" /\ Notify(Host, H)
      \/ m.k = "ready-toggle" /\ Notify(Host, Ready(H, g, m.ready))
      \/ m.k = "player-move" /\ Notify(Host, Moved(H, m.id, m.clicks))
      \/ m.k = "player-finish" /\ Notify(Host, Finished(H, m.id, m.clicks))
      \/ m.k = "player-disconnect" /\ Dropped(g)
  BY <1>1 DEF HostReceives
<1>6. m.k # "player-disconnect" => UNCHANGED <<peers, conn, noticed>>
  BY <1>1 DEF HostReceives
<1>7. m.k \in {"player-info", "ready-toggle"} => Broadcast(<<LobbyState(lobby'[Host])>>)
  BY <1>1 DEF HostReceives
<1>8. m.k \in {"player-move", "player-finish"} => toGuest' = Sent(toGuest, peers \ {g}, <<m>>)
  BY <1>1 DEF HostReceives
<1>9. m.k # "player-finish" => \A x \in Guest : Arrived(x) => Arrived(x)'
  BY <1>3 DEF Arrived
<1>10. CASE m.k = "player-info"
  <2>1. SameIds(H, H) /\ Notify(Host, H)
    BY <1>5, <1>10 DEF SameIds
  <2> QED
    BY <1>2, <1>3, <1>4, <1>6, <1>7, <1>9, <1>10, <2>1, ResyncStep
<1>11. CASE m.k = "ready-toggle"
  <2>1. PICK r, L : r = m.ready /\ L = Ready(H, g, r)
    OBVIOUS
  <2>2. r \in BOOLEAN
    <3>1. m \in [k : {"ready-toggle"}, ready : BOOLEAN]
      BY <1>3, <1>11 DEF ForHost
    <3> QED
      BY <2>1, <3>1
  <2>3. Notify(Host, L)
    BY <1>5, <1>11, <2>1
  <2> HIDE DEF H
  <2>4. Marks(H, L, g) /\ \A i \in DOMAIN H.players : L.players[i].finished = H.players[i].finished
    BY <1>4, <2>1, <2>2, ReadyFacts
  <2>5. /\ L \in LobbyType /\ SameIds(H, L) /\ L.started = H.started /\ L.countdown = H.countdown
        /\ \A i \in DOMAIN L.players : H.players[i].finished => L.players[i].finished
    BY <2>4 DEF Marks, SameIds
  <2> USE DEF H
  <2> QED
    BY <1>2, <1>3, <1>6, <1>7, <1>9, <1>11, <2>3, <2>5, ResyncStep
<1>12. CASE m.k \in {"player-move", "player-finish"}
  <2>1. PICK L : L = Applied(H, m)
    OBVIOUS
  <2>2. Notify(Host, L)
    BY <1>5, <1>12, <2>1, AppliedIs
  <2> QED
    BY <1>1, <1>2, <1>6, <1>8, <1>12, <2>1, <2>2, RelayStep
<1>13. CASE m.k = "player-disconnect"
  <2>1. PICK n \in Nat : strays' = [strays EXCEPT ![g] = n]
    BY <1>2, StraysKept DEF Inv
  <2>2. ~ Vacant
    BY <1>2 DEF Vacant
  <2> QED
    BY <1>2, <1>3, <1>5, <1>13, <2>1, <2>2, DroppedStep
<1> QED
  BY <1>5, <1>10, <1>11, <1>12, <1>13

------------------------------------------------------------------------------
(* A guest changes its lobby *)

\* Guest g has the lobby G now, the connection k and the messages of q before it.
LEMMA GuestStep ==
    ASSUME Inv, NEW g \in Guest, NEW G \in LobbyType, lobby' = [lobby EXCEPT ![g] = G],
           game' \in [Browser -> GameType], \A x \in Browser : x # g => game'[x] = game[x],
           gone' \subseteq Browser, Host \in gone' <=> Host \in gone, UNCHANGED <<peers, code, strays, sim>>,
           NEW k \in Conns \ Early, conn[g] \notin Early, conn' = [conn EXCEPT ![g] = k],
           NEW q \in Seq(ForGuest), toGuest' = [toGuest EXCEPT ![g] = q], Messages(q) \subseteq Messages(toGuest[g]),
           toHost' \in [Guest -> Seq(ForHost)], \A x \in Guest : x # g => toHost'[x] = toHost[x],
           Messages(toHost[g]) \subseteq Messages(toHost'[g]),
           \A m \in Messages(toHost'[g]) : m.k \in {"player-move", "player-finish"} => m.id = g,
           Waiting => Calm(G) /\ ~ game'[g].playing,
           k \in {"completed", "open"} => G.players # <<>>, q # <<>> => k \in {"open", "closed"},
           k \notin {"open", "closed"} => game'[g].screen # "game" /\ ~ Reports(g)',
           k = "open" => /\ conn[g] = "open" /\ (Reports(g)' => Reports(g) \/ Arrived(g)')
                         /\ Linked(g, toGuest[g], lobby[g], lobby[Host]) => Pending(g)' \/ Linked(g, q, G, lobby[Host])
    PROVE  Inv'
<1>1. /\ lobby \in [Browser -> LobbyType] /\ conn \in [Guest -> Conns] /\ toGuest \in [Guest -> Seq(ForGuest)]
      /\ UNCHANGED <<ticks, starts, bots>>
  BY DEF Inv, Carried, sim
<1>2. /\ lobby' \in [Browser -> LobbyType] /\ lobby'[g] = G /\ lobby'[Host] = lobby[Host]
      /\ \A x \in Guest : x # g => lobby'[x] = lobby[x] /\ game'[x] = game[x]
      /\ game'[Host] = game[Host]
  BY <1>1, People
<1>3. /\ conn' \in [Guest -> Conns] /\ conn'[g] = k /\ \A x \in Guest : x # g => conn'[x] = conn[x]
      /\ toGuest' \in [Guest -> Seq(ForGuest)] /\ toGuest'[g] = q /\ \A x \in Guest : x # g => toGuest'[x] = toGuest[x]
  BY <1>1
<1>4. Carried'
  <2>1. \A x \in Guest : \A m \in Messages(toHost'[x]) : m.k \in {"player-move", "player-finish"} => m.id = x
    BY DEF Inv, Carried
  <2> QED
    BY <1>1, <1>2, <1>3, <2>1 DEF Inv, Carried
<1>5. Roster'
  <2>1. \A x \in Guest : /\ conn'[x] \in Early => conn[x] \in Early /\ code'[x] = code[x] /\ lobby'[x] = lobby[x]
                         /\ conn'[x] = "none" => conn[x] = "none"
    BY <1>2, <1>3 DEF Early
  <2>2. ~ Vacant
    BY DEF Vacant, Early
  <2>3. SameIds(lobby[Host], lobby'[Host])
    BY <1>2 DEF SameIds
  <2> QED
    BY <1>1, <1>2, <2>1, <2>2, <2>3, RosterKept DEF Inv, Roster
<1>6. Hush'
  <2> SUFFICES ASSUME Waiting
               PROVE  /\ \A b \in Browser : ~ game'[b].playing /\ Calm(lobby'[b])
                      /\ \A x \in Guest : Calm(code'[x]) /\ \A m \in Messages(toGuest'[x]) : CalmMsg(m)
    BY <1>1 DEF Hush, Waiting
  <2>1. /\ \A b \in Browser : ~ game[b].playing /\ Calm(lobby[b])
        /\ \A x \in Guest : Calm(code[x]) /\ \A m \in Messages(toGuest[x]) : CalmMsg(m)
    BY DEF Inv, Hush
  <2>2. ASSUME NEW b \in Browser PROVE ~ game'[b].playing /\ Calm(lobby'[b])
    BY <1>2, <2>1, People
  <2>3. ASSUME NEW x \in Guest PROVE Calm(code'[x]) /\ \A m \in Messages(toGuest'[x]) : CalmMsg(m)
    BY <1>3, <2>1
  <2> QED
    BY <2>2, <2>3
<1>7. Peopled'
  <2>1. ASSUME NEW x \in Guest
        PROVE  /\ conn'[x] \in {"completed", "open"} => lobby'[x].players # <<>>
               /\ code'[x] = Empty \/ code'[x].players # <<>>
               /\ \A m \in Messages(toGuest'[x]) : m.k = "lobby-state" => m.lobby.players # <<>>
               /\ toGuest'[x] # <<>> => conn'[x] \in {"open", "closed"}
               /\ conn'[x] \notin {"open", "closed"} => game'[x].screen # "game" /\ (game'[x].playing => game'[x].timer)
    <3>1. CASE x = g
      <4>1. code'[g] = Empty \/ code'[g].players # <<>>
        BY DEF Inv, Peopled
      <4>2. \A m \in Messages(q) : m.k = "lobby-state" => m.lobby.players # <<>>
        BY DEF Inv, Peopled
      <4>3. k \notin {"open", "closed"} => game'[g].screen # "game" /\ (game'[g].playing => game'[g].timer)
        BY DEF Reports
      <4> QED
        BY <1>2, <1>3, <3>1, <4>1, <4>2, <4>3
    <3>2. CASE x # g
      BY <1>2, <1>3, <3>2 DEF Inv, Peopled
    <3> QED
      BY <3>1, <3>2
  <2> QED
    BY <2>1 DEF Peopled
<1>8. Reported'
  <2> SUFFICES ASSUME NEW x \in Guest, starts' = 1, conn'[x] = "open", x \in peers', Host \notin gone', Reports(x)'
             PROVE  \/ Arrived(x)'
                    \/ Done(lobby[Host], x)
    BY <1>2 DEF Reported, Reports, Arrived
  <2>1. conn[x] = "open" /\ x \in peers /\ starts = 1 /\ Host \notin gone
    BY <1>1, <1>3
  <2>2. CASE Reports(x)
    <3>1. \/ Arrived(x)
          \/ Done(lobby[Host], x)
      BY <2>1, <2>2 DEF Inv, Reported, Reports, Arrived
    <3>2. Arrived(x) => Arrived(x)'
      BY DEF Arrived
    <3> QED
      BY <3>1, <3>2
  <2>3. CASE ~ Reports(x)
    <3>1. x = g
      BY <1>2, <2>3 DEF Reports
    <3> QED
      BY <1>3, <2>3, <3>1
  <2> QED
    BY <2>2, <2>3
<1>9. Chained'
  <2>1. Untold => Untold'
    BY <1>3 DEF Untold
  <2>2. \A x \in Guest : Pending(x) => Pending(x)'
    BY DEF Pending
  <2>3. ASSUME NEW x \in Guest, conn'[x] = "open", x \in peers', Host \notin gone'
        PROVE  /\ conn[x] = "open" /\ x \in peers
               /\ Linked(x, toGuest[x], lobby[x], lobby[Host])
                     => Pending(x)' \/ Linked(x, toGuest'[x], lobby'[x], lobby'[Host])
    <3>1. CASE x = g
      BY <1>2, <1>3, <2>3, <3>1
    <3>2. CASE x # g
      BY <1>2, <1>3, <2>3, <3>2
    <3> QED
      BY <3>1, <3>2
  <2> QED
    BY <2>1, <2>2, <2>3, ChainedKept DEF Inv
<1> QED
  BY <1>4, <1>5, <1>6, <1>7, <1>8, <1>9 DEF Inv

\* What the invariant says of one guest.
LEMMA GuestFacts ==
    ASSUME Inv, NEW g \in Guest
    PROVE  /\ lobby \in [Browser -> LobbyType] /\ game \in [Browser -> GameType] /\ conn \in [Guest -> Conns]
           /\ code \in [Guest -> LobbyType] /\ toGuest \in [Guest -> Seq(ForGuest)] /\ toHost \in [Guest -> Seq(ForHost)]
           /\ lobby[g] \in LobbyType /\ game[g] \in GameType /\ conn[g] \in Conns /\ code[g] \in LobbyType
           /\ lobby[Host] \in LobbyType
           /\ toGuest[g] \in Seq(ForGuest) /\ toHost[g] \in Seq(ForHost)
           /\ \A m \in Messages(toHost[g]) : m.k \in {"player-move", "player-finish"} => m.id = g
           /\ gone \subseteq Browser
           /\ conn[g] \in {"completed", "open"} => lobby[g].players # <<>>
           /\ toGuest[g] # <<>> => conn[g] \in {"open", "closed"}
           /\ conn[g] \notin {"open", "closed"} => game[g].screen # "game" /\ ~ Reports(g)
           /\ conn[g] \in Early => lobby[g] = Empty /\ code[g] = Empty
<1>1. g \in Browser /\ Host \in Browser
  BY People
<1>2. conn[g] \in Early => lobby[g] = Empty /\ code[g] = Empty
  BY DEF Inv, Roster
<1>3. /\ conn[g] \in {"completed", "open"} => lobby[g].players # <<>>
      /\ toGuest[g] # <<>> => conn[g] \in {"open", "closed"}
      /\ conn[g] \notin {"open", "closed"} => game[g].screen # "game" /\ ~ Reports(g)
  BY DEF Inv, Peopled, Reports
<1> QED
  BY <1>1, <1>2, <1>3 DEF Inv, Carried

LEMMA CompleteJoinStep == ASSUME Inv, NEW g \in Guest, CompleteJoin(g) PROVE Inv'
<1>1. PICK G, s, k : /\ G = code[g] /\ s = [Notified(game[g], G) EXCEPT !.screen = "lobby"]
                     /\ k = IF conn[g] = "closed" THEN "closed" ELSE "completed"
  OBVIOUS
<1>2. /\ code[g] # Empty /\ lobby[g] = Empty
      /\ conn' = [conn EXCEPT ![g] = IF @ = "closed" THEN @ ELSE "completed"]
      /\ lobby' = [lobby EXCEPT ![g] = code[g]]
      /\ game' = [game EXCEPT ![g] = [Notified(@, code[g]) EXCEPT !.screen = "lobby"]]
      /\ UNCHANGED <<gone, peers, code, strays, toHost, toGuest, noticed, sim>>
  BY DEF CompleteJoin
<1>3. conn[g] \notin Early /\ conn[g] \notin {"completed", "open"}
  BY <1>2, EmptyFacts, GuestFacts
<1>4. PICK t : t = Notified(game[g], G)
  OBVIOUS
<1>5. /\ t \in GameType /\ (~ game[g].playing /\ Calm(G) => t = game[g])
      /\ (t.playing /\ ~ t.timer => Reports(g))
  BY <1>1, <1>4, GuestFacts, NotifiedFacts DEF Reports
<1>6. s \in GameType /\ s.screen = "lobby" /\ s.playing = t.playing /\ s.timer = t.timer
  BY <1>1, <1>4, <1>5 DEF GameType
<1>7. game' = [game EXCEPT ![g] = s] /\ lobby' = [lobby EXCEPT ![g] = G] /\ conn' = [conn EXCEPT ![g] = k]
  BY <1>1, <1>2, GuestFacts, People
<1>8. game' \in [Browser -> GameType] /\ game'[g] = s /\ \A x \in Browser : x # g => game'[x] = game[x]
  BY <1>6, <1>7, GuestFacts, People
<1>9. G \in LobbyType /\ G.players # <<>> /\ (Waiting => Calm(G) /\ ~ game[g].playing)
  BY <1>1, <1>2, GuestFacts, People DEF Inv, Peopled, Hush
<1>10. PICK q : q = toGuest[g]
  OBVIOUS
<1>11. q \in Seq(ForGuest) /\ toGuest' = [toGuest EXCEPT ![g] = q] /\ (q # <<>> => conn[g] = "closed")
  BY <1>2, <1>3, <1>10, GuestFacts
<1>12. Waiting => Calm(G) /\ ~ game'[g].playing
  BY <1>5, <1>6, <1>8, <1>9
<1>13. k \in Conns \ Early /\ (k \notin {"open", "closed"} => game'[g].screen # "game" /\ ~ Reports(g)') /\ k # "open"
  <2>1. k \in Conns \ Early /\ k # "open"
    BY <1>1 DEF Conns, Early
  <2>2. k \notin {"open", "closed"} => conn[g] \notin {"open", "closed"}
    BY <1>1, <1>3
  <2>3. conn[g] \notin {"open", "closed"} => ~ Reports(g)
    BY GuestFacts
  <2> QED
    BY <1>5, <1>6, <1>8, <2>1, <2>2, <2>3 DEF Reports
<1>14. q # <<>> => k = "closed"
  BY <1>1, <1>11
<1>15. /\ toHost' \in [Guest -> Seq(ForHost)] /\ \A x \in Guest : x # g => toHost'[x] = toHost[x]
       /\ Messages(toHost[g]) \subseteq Messages(toHost'[g])
       /\ \A m \in Messages(toHost'[g]) : m.k \in {"player-move", "player-finish"} => m.id = g
  BY <1>2, GuestFacts
<1>16. gone' \subseteq Browser /\ (Host \in gone' <=> Host \in gone) /\ UNCHANGED <<peers, code, strays, sim>>
  BY <1>2, GuestFacts
<1> QED
  BY <1>3, <1>7, <1>8, <1>9, <1>10, <1>11, <1>12, <1>13, <1>14, <1>15, <1>16, GuestStep

------------------------------------------------------------------------------
(* A guest takes a message *)

\* The guest takes the host out of its lobby: no message can come any more.
LEMMA HostLostStep ==
    ASSUME Inv, NEW g \in Guest, InRoom(g), HostLost(g), NEW q \in Seq(ForGuest),
           toGuest' = [toGuest EXCEPT ![g] = q], Messages(q) \subseteq Messages(toGuest[g]),
           UNCHANGED <<gone, peers, code, strays, toHost, sim>>
    PROVE  Inv'
<1>1. PICK L, G : L = lobby[g] /\ G = Without(L, Host)
  OBVIOUS
<1>2. L \in LobbyType
  BY <1>1, GuestFacts
<1>3. G \in LobbyType /\ G.started = L.started /\ G.countdown = L.countdown
  BY <1>1, <1>2, WithoutFacts
<1>4. Notify(g, G) /\ conn' = [conn EXCEPT ![g] = "closed"]
  BY <1>1 DEF HostLost
<1>5. /\ game' \in [Browser -> GameType] /\ \A x \in Browser : x # g => game'[x] = game[x]
      /\ (~ game[g].playing /\ Calm(G) => game'[g] = game[g])
  BY <1>3, <1>4, People, NotifyFacts DEF Inv
<1>6. lobby' = [lobby EXCEPT ![g] = G]
  BY <1>4 DEF Notify
<1>7. Waiting => Calm(G) /\ ~ game'[g].playing
  BY <1>1, <1>3, <1>5, People DEF Inv, Hush, Calm
<1>8. conn[g] \notin Early
  BY EmptyFacts, GuestFacts DEF InRoom
<1>9. PICK k : k = "closed"
  OBVIOUS
<1>10. k \in Conns \ Early /\ conn' = [conn EXCEPT ![g] = k]
  BY <1>4, <1>9 DEF Conns, Early
<1>11. /\ toHost' \in [Guest -> Seq(ForHost)] /\ \A x \in Guest : x # g => toHost'[x] = toHost[x]
       /\ Messages(toHost[g]) \subseteq Messages(toHost'[g])
       /\ \A m \in Messages(toHost'[g]) : m.k \in {"player-move", "player-finish"} => m.id = g
  BY GuestFacts
<1>12. gone' \subseteq Browser /\ (Host \in gone' <=> Host \in gone) /\ UNCHANGED <<peers, code, strays, sim>>
  BY GuestFacts
<1> QED
  BY <1>3, <1>5, <1>6, <1>7, <1>8, <1>9, <1>10, <1>11, <1>12, GuestStep

LEMMA GuestNoticesStep == ASSUME Inv, NEW g \in Guest, GuestNotices(g) PROVE Inv'
<1>1. PICK q : q = <<>>
  OBVIOUS
<1>2. q \in Seq(ForGuest) /\ Messages(q) = {}
  BY <1>1 DEF Messages
<1> QED
  BY <1>1, <1>2, HostLostStep DEF GuestNotices

\* A message leaves a lobby of players, and a calm one if it is calm.
LEMMA AppliedFacts ==
    ASSUME NEW L \in LobbyType, L.players # <<>>, NEW m \in ForGuest, m.k # "player-disconnect",
           m.k = "lobby-state" => m.lobby.players # <<>>
    PROVE  Applied(L, m).players # <<>> /\ (Calm(L) /\ CalmMsg(m) => Calm(Applied(L, m)))
<1>1. CASE m.k = "lobby-state"
  BY <1>1, AppliedIs DEF CalmMsg
<1>2. CASE m.k = "game-start"
  <2>1. PICK c, n : c = m.challenge /\ n = m.countdown
    OBVIOUS
  <2>2. c \in Challenge \cup {None} /\ n \in 0 .. 3 /\ n \in Null .. 3 /\ n # Null
    BY <1>2, <2>1, MessageFacts DEF Null
  <2>3. Applied(L, m) = Started(L, c, n)
    BY <1>2, <2>1, AppliedIs
  <2>4. Started(L, c, n).players = L.players /\ Started(L, c, n).countdown = n
    <3>1. c \in Challenge \cup {None} /\ n \in Null .. 3
      BY <2>2
    <3>2. PICK K : K = Started(L, c, n)
      OBVIOUS
    <3>3. K.players = L.players
      BY <3>2 DEF Started, LobbyType
    <3>4. K.countdown = n
      BY <3>2 DEF Started, LobbyType
    <3> QED
      BY <3>2, <3>3, <3>4
  <2> QED
    BY <2>2, <2>3, <2>4 DEF Calm
<1>3. CASE m.k = "countdown-tick"
  <2>1. PICK n : n = m.countdown
    OBVIOUS
  <2>2. n \in 0 .. 3 /\ n \in Null .. 3 /\ n # Null
    BY <1>3, <2>1, MessageFacts DEF Null
  <2>3. Applied(L, m) = Countdown(L, n)
    BY <1>3, <2>1, AppliedIs
  <2>4. Countdown(L, n).players = L.players /\ Countdown(L, n).countdown = n
    BY <2>2, CountdownFacts
  <2> QED
    BY <2>2, <2>3, <2>4 DEF Calm
<1>4. CASE m.k = "game-begin"
  <2>1. Applied(L, m) = Begun(L) /\ ~ CalmMsg(m)
    BY <1>4, AppliedIs DEF CalmMsg
  <2>2. Begun(L).players # <<>>
    BY BegunFacts, SameIdsFacts
  <2> QED
    BY <2>1, <2>2
<1>5. CASE m.k \in {"player-move", "player-finish"}
  <2>1. PICK p, n, M : p = m.id /\ n = m.clicks /\ M = Applied(L, m)
    OBVIOUS
  <2>2. n \in Nat /\ (M = Moved(L, p, n) \/ M = Finished(L, p, n))
    BY <1>5, <2>1, MessageFacts, AppliedIs
  <2>3. Marks(L, Moved(L, p, n), p) /\ Marks(L, Finished(L, p, n), p)
    BY <2>2, MovedFacts, FinishedFacts
  <2>4. M \in LobbyType /\ SameIds(L, M) /\ M.started = L.started /\ M.countdown = L.countdown
    BY <2>2, <2>3 DEF Marks
  <2> QED
    BY <2>1, <2>4, SameIdsFacts DEF Calm
<1> QED
  BY <1>1, <1>2, <1>3, <1>4, <1>5, MessageFacts

LEMMA GuestReceivesStep == ASSUME Inv, NEW g \in Guest, GuestReceives(g) PROVE Inv'
<1>1. PICK m, q, L, p : m = Head(toGuest[g]) /\ q = Tail(toGuest[g]) /\ L = lobby[g] /\ p = toGuest[g]
  OBVIOUS
<1>2. p \in Seq(ForGuest) /\ p # <<>> /\ L \in LobbyType /\ L.players # <<>>
  BY <1>1, GuestFacts DEF GuestReceives, InRoom
<1>3. /\ m \in Messages(toGuest[g]) /\ m \in ForGuest /\ q \in Seq(ForGuest) /\ Messages(q) \subseteq Messages(toGuest[g])
      /\ m = Head(p) /\ q = Tail(p)
  BY <1>1, <1>2, QueueFacts
<1>4. /\ toGuest' = [toGuest EXCEPT ![g] = q] /\ UNCHANGED <<gone, peers, code, strays, toHost, sim>> /\ InRoom(g)
      /\ IF m.k = "player-disconnect" THEN HostLost(g)
         ELSE Notify(g, Applied(L, m)) /\ UNCHANGED <<conn, noticed>>
  <2>1. toGuest \in [Guest -> Seq(ForGuest)]
    BY GuestFacts
  <2> QED
    BY <1>1, <2>1 DEF GuestReceives
<1>5. CASE m.k = "player-disconnect"
  BY <1>3, <1>4, <1>5, HostLostStep
<1>6. CASE m.k # "player-disconnect"
  <2>1. PICK G : G = Applied(L, m)
    OBVIOUS
  <2>2. G \in LobbyType
    BY <1>2, <1>3, <1>6, <2>1, AppliedType
  <2>3. m.k = "lobby-state" => m.lobby.players # <<>>
    BY <1>3 DEF Inv, Peopled
  <2>4. G.players # <<>> /\ (Calm(L) /\ CalmMsg(m) => Calm(G))
    BY <1>2, <1>3, <1>6, <2>1, <2>3, AppliedFacts
  <2>5. Notify(g, G) /\ conn' = conn
    BY <1>4, <1>6, <2>1
  <2>6. /\ game' \in [Browser -> GameType] /\ \A x \in Browser : x # g => game'[x] = game[x]
        /\ (~ game[g].playing /\ Calm(G) => game'[g] = game[g])
        /\ (Reports(g)' => Reports(g))
    BY <2>2, <2>5, People, NotifyFacts DEF Inv
  <2>7. lobby' = [lobby EXCEPT ![g] = G]
    BY <2>5 DEF Notify
  <2>8. Waiting => Calm(G) /\ ~ game'[g].playing
    <3> SUFFICES ASSUME Waiting PROVE Calm(G) /\ ~ game'[g].playing
      OBVIOUS
    <3>1. ~ game[g].playing /\ Calm(L) /\ CalmMsg(m)
      BY <1>1, <1>3, People DEF Inv, Hush
    <3> QED
      BY <2>4, <2>6, <3>1
  <2>9. PICK k : k = conn[g]
    OBVIOUS
  <2>10. conn[g] \notin Early /\ conn[g] \in {"open", "closed"}
    BY <1>1, <1>2, EmptyFacts, GuestFacts
  <2>11. k \in Conns \ Early /\ conn' = [conn EXCEPT ![g] = k] /\ k \in {"open", "closed"}
    BY <2>5, <2>9, <2>10, GuestFacts
  <2>12. Linked(g, toGuest[g], lobby[g], lobby[Host]) => Linked(g, q, G, lobby[Host])
    <3>1. PICK H : H = lobby[Host]
      OBVIOUS
    <3>2. H \in LobbyType
      BY <3>1, GuestFacts
    <3>3. Linked(g, p, L, H) => Linked(g, q, G, H)
      BY <1>2, <1>3, <1>6, <2>1, <2>2, <3>2, LinkedRead
    <3> QED
      BY <1>1, <3>1, <3>3
  <2>13. /\ toHost' \in [Guest -> Seq(ForHost)] /\ \A x \in Guest : x # g => toHost'[x] = toHost[x]
         /\ Messages(toHost[g]) \subseteq Messages(toHost'[g])
         /\ \A y \in Messages(toHost'[g]) : y.k \in {"player-move", "player-finish"} => y.id = g
    BY <1>4, GuestFacts
  <2>14. gone' \subseteq Browser /\ (Host \in gone' <=> Host \in gone) /\ UNCHANGED <<peers, code, strays, sim>>
    BY <1>4, GuestFacts
  <2>15. toGuest' = [toGuest EXCEPT ![g] = q] /\ q \in Seq(ForGuest) /\ Messages(q) \subseteq Messages(toGuest[g])
    BY <1>3, <1>4
  <2> QED
    BY <2>2, <2>4, <2>6, <2>7, <2>8, <2>9, <2>10, <2>11, <2>12, <2>13, <2>14, <2>15, GuestStep
<1> QED
  BY <1>5, <1>6

------------------------------------------------------------------------------
(* A guest sends a message *)

\* What is on the channels to the host when something is sent.
LEMMA SentHost ==
    ASSUME NEW q \in [Guest -> Seq(ForHost)], NEW to, NEW ms \in Seq(ForHost), NEW r, r = Sent(q, to, ms)
    PROVE  /\ r \in [Guest -> Seq(ForHost)]
           /\ \A g \in Guest : /\ r[g] = IF g \in to /\ conn[g] = "open" THEN q[g] \o ms ELSE q[g]
                               /\ Messages(q[g]) \subseteq Messages(r[g])
                               /\ Messages(r[g]) \subseteq Messages(q[g]) \cup Messages(ms)
<1>1. r \in [Guest -> Seq(ForHost)]
  BY SentFacts
<1>2. \A g \in Guest : r[g] = IF g \in to /\ conn[g] = "open" THEN q[g] \o ms ELSE q[g]
  BY SentFacts
<1>3. \A g \in Guest : Messages(q[g]) \subseteq Messages(r[g])
  BY SentFacts
<1>4. \A g \in Guest : Messages(r[g]) \subseteq Messages(q[g]) \cup Messages(ms)
  BY SentFacts
<1> QED
  BY <1>1, <1>2, <1>3, <1>4

\* A guest's message to the host.
LEMMA TellFacts ==
    ASSUME Inv, NEW g \in Guest, NEW m \in ForHost, m.k \in {"player-move", "player-finish"} => m.id = g, Tell(g, m)
    PROVE  /\ toGuest' = toGuest /\ toHost' \in [Guest -> Seq(ForHost)]
           /\ \A x \in Guest : x # g => toHost'[x] = toHost[x]
           /\ Messages(toHost[g]) \subseteq Messages(toHost'[g])
           /\ \A y \in Messages(toHost'[g]) : y.k \in {"player-move", "player-finish"} => y.id = g
           /\ conn[g] = "open" => m \in Messages(toHost'[g])
<1>1. PICK ms, to : ms = <<m>> /\ to = {g}
  OBVIOUS
<1>2. ms \in Seq(ForHost) /\ Messages(ms) = {m}
  BY <1>1, OneFacts
<1>3. toHost' = Sent(toHost, to, ms) /\ toGuest' = toGuest
  BY <1>1, People DEF Tell
<1>4. toHost \in [Guest -> Seq(ForHost)]
  BY GuestFacts
<1>5. /\ toHost' \in [Guest -> Seq(ForHost)]
      /\ \A x \in Guest : /\ toHost'[x] = IF x \in to /\ conn[x] = "open" THEN toHost[x] \o ms ELSE toHost[x]
                          /\ Messages(toHost[x]) \subseteq Messages(toHost'[x])
                          /\ Messages(toHost'[x]) \subseteq Messages(toHost[x]) \cup Messages(ms)
  <2>1. ms \in Seq(ForHost)
    BY <1>2
  <2>2. PICK r : r = Sent(toHost, to, ms)
    OBVIOUS
  <2>3. PICK h : h = toHost
    OBVIOUS
  <2>4. h \in [Guest -> Seq(ForHost)] /\ r = Sent(h, to, ms)
    BY <1>4, <2>2, <2>3
  <2>5. r \in [Guest -> Seq(ForHost)]
    BY <2>1, <2>4, SentHost
  <2>6. \A x \in Guest : r[x] = IF x \in to /\ conn[x] = "open" THEN h[x] \o ms ELSE h[x]
    BY <2>1, <2>4, SentHost
  <2>7. \A x \in Guest : Messages(h[x]) \subseteq Messages(r[x])
    BY <2>1, <2>4, SentHost
  <2>8. \A x \in Guest : Messages(r[x]) \subseteq Messages(h[x]) \cup Messages(ms)
    BY <2>1, <2>4, SentHost
  <2> QED
    BY <1>3, <2>2, <2>3, <2>5, <2>6, <2>7, <2>8
<1>6. \A x \in Guest : x # g => toHost'[x] = toHost[x]
  BY <1>1, <1>5
<1>7. \A y \in Messages(toHost'[g]) : y.k \in {"player-move", "player-finish"} => y.id = g
  BY <1>2, <1>5, GuestFacts
<1>8. conn[g] = "open" => m \in Messages(toHost'[g])
  <2> SUFFICES ASSUME conn[g] = "open" PROVE m \in Messages(toHost'[g])
    OBVIOUS
  <2>1. PICK q : q = toHost[g]
    OBVIOUS
  <2>2. q \in Seq(ForHost)
    BY <2>1, GuestFacts
  <2>3. toHost'[g] = q \o ms
    BY <1>1, <1>5, <2>1
  <2>4. toHost'[g] = Append(q, m)
    BY <1>1, <2>2, <2>3, OneFacts
  <2> QED
    BY <2>2, <2>4, QueueFacts
<1> QED
  BY <1>3, <1>5, <1>6, <1>7, <1>8

\* A guest does something in its own lobby, of which it tells the host.
LEMMA GuestActs ==
    ASSUME Inv, NEW g \in Guest, InRoom(g), NEW G, Marks(lobby[g], G, g), lobby' = [lobby EXCEPT ![g] = G],
           game' \in [Browser -> GameType], \A x \in Browser : x # g => game'[x] = game[x],
           NEW m \in ForHost, m.k \in {"player-move", "player-finish"} => m.id = g, Tell(g, m),
           Waiting => ~ game'[g].playing,
           conn[g] \notin {"open", "closed"} => game'[g].screen # "game" /\ ~ Reports(g)',
           Reports(g)' => Reports(g) \/ m.k = "player-finish",
           \/ m.k = "ready-toggle"
           \/ \A i \in DOMAIN lobby[g].players : G.players[i].ready = lobby[g].players[i].ready,
           UNCHANGED <<gone, peers, conn, code, strays, sim>>
    PROVE  Inv'
<1>1. PICK L, k, q : L = lobby[g] /\ k = conn[g] /\ q = toGuest[g]
  OBVIOUS
<1>2. /\ L \in LobbyType /\ L.players # <<>> /\ conn[g] \notin Early
  BY <1>1, EmptyFacts, GuestFacts DEF InRoom
<1>3. /\ G \in LobbyType /\ SameIds(L, G) /\ G.challenge = L.challenge /\ G.started = L.started
      /\ G.countdown = L.countdown
      /\ \A i \in DOMAIN L.players : L.players[i].id # g => G.players[i] = L.players[i]
  BY <1>1 DEF Marks
<1>4. G.players # <<>>
  BY <1>2, <1>3, SameIdsFacts
<1>5. /\ toGuest' = toGuest /\ toHost' \in [Guest -> Seq(ForHost)]
      /\ \A x \in Guest : x # g => toHost'[x] = toHost[x]
      /\ Messages(toHost[g]) \subseteq Messages(toHost'[g])
      /\ \A y \in Messages(toHost'[g]) : y.k \in {"player-move", "player-finish"} => y.id = g
      /\ conn[g] = "open" => m \in Messages(toHost'[g])
  BY TellFacts
<1>6. k \in Conns \ Early /\ conn' = [conn EXCEPT ![g] = k]
  BY <1>1, <1>2, GuestFacts
<1>7. toGuest' = [toGuest EXCEPT ![g] = q] /\ q \in Seq(ForGuest) /\ Messages(q) \subseteq Messages(toGuest[g])
  BY <1>1, <1>5, GuestFacts
<1>8. Waiting => Calm(G) /\ ~ game'[g].playing
  BY <1>1, <1>3, People DEF Inv, Hush, Calm
<1>9. gone' \subseteq Browser /\ (Host \in gone' <=> Host \in gone) /\ UNCHANGED <<peers, code, strays, sim>>
  BY GuestFacts
<1>10. k \in {"completed", "open"} => G.players # <<>>
  BY <1>4
<1>11. q # <<>> => k \in {"open", "closed"}
  BY <1>1, GuestFacts
<1>12. k \notin {"open", "closed"} => game'[g].screen # "game" /\ ~ Reports(g)'
  BY <1>1
<1>13. k = "open" => /\ conn[g] = "open" /\ (Reports(g)' => Reports(g) \/ Arrived(g)')
                     /\ Linked(g, toGuest[g], lobby[g], lobby[Host]) => Pending(g)' \/ Linked(g, q, G, lobby[Host])
  <2> SUFFICES ASSUME k = "open"
               PROVE  /\ conn[g] = "open" /\ (Reports(g)' => Reports(g) \/ Arrived(g)')
                      /\ Linked(g, toGuest[g], lobby[g], lobby[Host]) => Pending(g)' \/ Linked(g, q, G, lobby[Host])
    OBVIOUS
  <2>1. conn[g] = "open" /\ m \in Messages(toHost'[g])
    BY <1>1, <1>5
  <2>2. Reports(g)' => Reports(g) \/ Arrived(g)'
    BY <2>1 DEF Arrived
  <2>3. CASE m.k = "ready-toggle"
    BY <2>1, <2>2, <2>3 DEF Pending
  <2>4. CASE \A i \in DOMAIN lobby[g].players : G.players[i].ready = lobby[g].players[i].ready
    <3>1. PICK H : H = lobby[Host]
      OBVIOUS
    <3>2. H \in LobbyType
      BY <3>1, GuestFacts
    <3>3. \A i \in DOMAIN L.players :
              /\ L.players[i].id \notin Fake \cup {g} => G.players[i] = L.players[i]
              /\ L.players[i].id = g => G.players[i].ready = L.players[i].ready
      BY <1>1, <1>3, <2>4
    <3>4. Shown(g, G, L)
      BY <1>2, <1>3, <3>3, ShownMarks
    <3>5. Linked(g, q, L, H) => Linked(g, q, G, H)
      BY <1>2, <1>3, <1>7, <3>2, <3>4, LinkedSame, ShownRefl
    <3> QED
      BY <1>1, <2>1, <2>2, <3>1, <3>5
  <2> QED
    BY <2>3, <2>4
<1> QED
  BY <1>2, <1>3, <1>5, <1>6, <1>7, <1>8, <1>9, <1>10, <1>11, <1>12, <1>13, GuestStep

LEMMA ToggleReadyStep == ASSUME Inv, NEW g \in Guest, ToggleReady(g) PROVE Inv'
<1>1. PICK L, r, G, m : /\ L = lobby[g] /\ r = ~ Entry(L, g).ready /\ G = Ready(L, g, r) /\ m = ReadyToggle(r)
  OBVIOUS
<1>2. /\ lobby' = [lobby EXCEPT ![g] = Ready(@, g, r)] /\ Tell(g, m) /\ InRoom(g)
      /\ UNCHANGED <<game, gone, peers, conn, code, strays, noticed, sim>>
  BY <1>1 DEF ToggleReady, On
<1>3. L \in LobbyType /\ r \in BOOLEAN
  BY <1>1, GuestFacts
<1>4. Marks(L, G, g)
  BY <1>1, <1>3, ReadyFacts
<1>5. lobby' = [lobby EXCEPT ![g] = G]
  BY <1>1, <1>2, GuestFacts, People
<1>6. m \in ForHost /\ m.k = "ready-toggle"
  BY <1>1, <1>3 DEF ReadyToggle, ForHost
<1>7. game' \in [Browser -> GameType] /\ (Waiting => ~ game'[g].playing)
  BY <1>2, GuestFacts, People DEF Inv, Hush
<1>8. (conn[g] \notin {"open", "closed"} => game'[g].screen # "game" /\ ~ Reports(g)') /\ (Reports(g)' => Reports(g))
  BY <1>2, GuestFacts DEF Reports
<1> QED
  BY <1>1, <1>2, <1>4, <1>5, <1>6, <1>7, <1>8, GuestActs

------------------------------------------------------------------------------
(* Clicks *)

\* A player clicks: m is the report, and s what its page has come to by itself.
LEMMA GuestClicks ==
    ASSUME Inv, NEW g \in Guest, CanClick(g), NEW n \in Nat, NEW m, NEW G, NEW s \in GameType,
           \/ m = Move(g, n) /\ G = Moved(lobby[g], g, n) /\ s.timer = game[g].timer
           \/ m = Finish(g, n) /\ G = Finished(lobby[g], g, n),
           s.playing = game[g].playing, lobby' = [lobby EXCEPT ![g] = G],
           game' = [game EXCEPT ![g] = Notified(s, G)], Tell(g, m),
           UNCHANGED <<gone, peers, conn, code, strays, noticed, sim>>
    PROVE  Inv'
<1>1. PICK L : L = lobby[g]
  OBVIOUS
<1>2. L \in LobbyType /\ game[g].playing /\ InRoom(g) /\ game[g].screen = "game"
  BY <1>1, GuestFacts DEF CanClick, On
<1>3. Marks(L, G, g) /\ \A i \in DOMAIN L.players : G.players[i].ready = L.players[i].ready
  BY <1>1, <1>2, MovedFacts, FinishedFacts
<1>4. G \in LobbyType
  BY <1>3 DEF Marks
<1>5. /\ m \in ForHost /\ m.id = g /\ m.k \in {"player-move", "player-finish"}
      /\ (m.k = "player-finish" \/ s.timer = game[g].timer)
  <2>1. CASE m = Move(g, n) /\ s.timer = game[g].timer
    BY <2>1 DEF Move, ForHost
  <2>2. CASE m = Finish(g, n)
    BY <2>2 DEF Finish, ForHost
  <2> QED
    BY <2>1, <2>2
<1>6. PICK t : t = Notified(s, G)
  OBVIOUS
<1>7. t \in GameType /\ (t.playing /\ ~ t.timer => s.playing /\ ~ s.timer)
  BY <1>4, <1>6, NotifiedFacts
<1>8. game' \in [Browser -> GameType] /\ game'[g] = t /\ \A x \in Browser : x # g => game'[x] = game[x]
  BY <1>6, <1>7, GuestFacts, People
<1>9. ~ Waiting
  BY <1>2, People DEF Inv, Hush
<1>10. conn[g] \in {"open", "closed"}
  BY <1>2, GuestFacts
<1>11. Reports(g)' => Reports(g) \/ m.k = "player-finish"
  BY <1>2, <1>5, <1>7, <1>8 DEF Reports
<1>12. Marks(lobby[g], G, g) /\ \A i \in DOMAIN lobby[g].players : G.players[i].ready = lobby[g].players[i].ready
  BY <1>1, <1>3
<1>13. m \in ForHost /\ m.id = g /\ InRoom(g) /\ game' \in [Browser -> GameType]
  BY <1>2, <1>5, <1>8
<1>14. \A x \in Browser : x # g => game'[x] = game[x]
  BY <1>8
<1>15. /\ m.k \in {"player-move", "player-finish"} => m.id = g
       /\ Waiting => ~ game'[g].playing
       /\ conn[g] \notin {"open", "closed"} => game'[g].screen # "game" /\ ~ Reports(g)'
       /\ \/ m.k = "ready-toggle"
          \/ \A i \in DOMAIN lobby[g].players : G.players[i].ready = lobby[g].players[i].ready
       /\ UNCHANGED <<gone, peers, conn, code, strays, sim>>
  BY <1>9, <1>10, <1>12, <1>13
<1>16. Marks(lobby[g], G, g) /\ m \in ForHost /\ InRoom(g) /\ game' \in [Browser -> GameType]
  BY <1>12, <1>13
<1> QED
  BY <1>11, <1>14, <1>15, <1>16, GuestActs

\* The host clicks.
LEMMA HostClicks ==
    ASSUME Inv, CanClick(Host), NEW n \in Nat, NEW m, NEW G, NEW s \in GameType,
           \/ m = Move(Host, n) /\ G = Moved(lobby[Host], Host, n)
           \/ m = Finish(Host, n) /\ G = Finished(lobby[Host], Host, n),
           lobby' = [lobby EXCEPT ![Host] = G],
           game' = [game EXCEPT ![Host] = Notified(s, G)], Tell(Host, m),
           UNCHANGED <<gone, peers, conn, code, strays, noticed, sim>>
    PROVE  Inv'
<1>1. PICK L : L = lobby[Host]
  OBVIOUS
<1>2. /\ lobby \in [Browser -> LobbyType] /\ L \in LobbyType /\ game \in [Browser -> GameType]
      /\ game[Host].playing /\ Host \notin gone /\ L.players # <<>>
      /\ toHost \in [Guest -> Seq(ForHost)] /\ peers \subseteq Guest
  BY <1>1, People DEF Inv, Carried, CanClick, On, InRoom
<1>3. /\ Marks(L, G, Host)
      /\ \A i \in DOMAIN L.players : L.players[i].finished => G.players[i].finished
  BY <1>1, <1>2, MovedFacts, FinishedFacts
<1>4. /\ G \in LobbyType /\ SameIds(L, G) /\ G.challenge = L.challenge /\ G.started = L.started
      /\ G.countdown = L.countdown
  BY <1>3 DEF Marks
<1>5. /\ m \in ForGuest /\ m.id = Host /\ m.k \in {"player-move", "player-finish"} /\ m.clicks = n
      /\ G = Applied(L, m)
  <2>1. CASE m = Move(Host, n) /\ G = Moved(L, Host, n)
    <3>1. m \in ForGuest /\ m.id = Host /\ m.k = "player-move" /\ m.clicks = n
      BY <2>1, People DEF Move, ForGuest
    <3> QED
      BY <2>1, <3>1, AppliedIs
  <2>2. CASE m = Finish(Host, n) /\ G = Finished(L, Host, n)
    <3>1. m \in ForGuest /\ m.id = Host /\ m.k = "player-finish" /\ m.clicks = n
      BY <2>2, People DEF Finish, ForGuest
    <3> QED
      BY <2>2, <3>1, AppliedIs
  <2> QED
    BY <1>1, <2>1, <2>2
<1>6. PICK ms : ms = <<m>>
  OBVIOUS
<1>7. ms \in Seq(ForGuest) /\ Messages(ms) = {m}
  BY <1>5, <1>6, OneFacts
<1>8. toGuest' = Sent(toGuest, peers, ms) /\ toHost' = toHost
  <2>1. toHost' = Sent(toHost, {Host}, ms)
    BY <1>6 DEF Tell
  <2>2. \A g \in Guest : g \notin {Host}
    BY People
  <2>3. toHost' = toHost
    BY <1>2, <2>1, <2>2 DEF Sent
  <2> QED
    BY <1>6, <2>3 DEF Tell
<1>9. /\ game' \in [Browser -> GameType] /\ lobby'[Host] = G
      /\ \A g \in Guest : game'[g] = game[g] /\ lobby'[g] = lobby[g]
  <2>1. Notified(s, G) \in GameType
    BY <1>4, NotifiedFacts
  <2> QED
    BY <1>2, <1>4, <2>1, People
<1>10. UNCHANGED <<ticks, starts, bots>>
  BY DEF sim
<1>11. ~ Waiting'
  BY <1>2, <1>10, People DEF Inv, Hush, Waiting
<1>12. ~ Vacant
  BY <1>1, <1>2, EmptyFacts DEF Vacant
<1>13. lobby' \in [Browser -> LobbyType]
  BY <1>2, <1>4
<1>14. Roster'
  BY <1>1, <1>4, <1>9, <1>10, <1>12, <1>13, RosterKept DEF Inv, Roster
<1>15. Chained'
  <2>1. \A g \in Guest : Pending(g) => Pending(g)'
    BY <1>8 DEF Pending
  <2> QED
    BY <1>1, <1>4, <1>5, <1>6, <1>8, <1>9, <2>1, ChainTold
<1>16. \A g \in Guest : Done(lobby[Host], g) => Done(G, g)
  BY <1>1, <1>2, <1>3, <1>4, DoneKept
<1>17. \A x \in Messages(ms) : x.k # "lobby-state"
  BY <1>5, <1>7
<1>18. ticks' \in Seq(1 .. 3) /\ starts' \in Nat /\ Len(ticks') <= starts' /\ bots' \subseteq Fake /\ starts' = starts
  BY <1>10 DEF Inv, Carried
<1>19. ms \in Seq(ForGuest) /\ G \in LobbyType
  BY <1>4, <1>7
<1> QED
  BY <1>8, <1>9, <1>11, <1>14, <1>15, <1>16, <1>17, <1>18, <1>19, HostStep

LEMMA ClickLinkStep == ASSUME Inv, NEW b \in Browser, ClickLink(b) PROVE Inv'
<1>1. game \in [Browser -> GameType] /\ game[b] \in GameType /\ lobby \in [Browser -> LobbyType]
  BY DEF Inv, Carried
<1>2. PICK n, G, m, s : /\ n = game[b].clicks + 1 /\ G = Moved(lobby[b], b, n) /\ m = Move(b, n)
                        /\ s = [game[b] EXCEPT !.clicks = n]
  OBVIOUS
<1>3. n \in Nat
  <2>1. game[b].clicks \in Nat
    BY <1>1, GameFacts
  <2> QED
    BY <1>2, <2>1
<1>4. s \in GameType /\ s.playing = game[b].playing /\ s.timer = game[b].timer
  BY <1>1, <1>2, <1>3 DEF GameType
<1>5. /\ CanClick(b) /\ lobby' = [lobby EXCEPT ![b] = G]
      /\ game' = [game EXCEPT ![b] = Notified([@ EXCEPT !.clicks = n], G)] /\ Tell(b, m)
      /\ UNCHANGED <<gone, peers, conn, code, strays, noticed, sim>>
  BY <1>2 DEF ClickLink
<1>6. game' = [game EXCEPT ![b] = Notified(s, G)]
  BY <1>1, <1>2, <1>5
<1>7. CASE b = Host
  BY <1>2, <1>3, <1>4, <1>5, <1>6, <1>7, HostClicks
<1>8. CASE b \in Guest
  BY <1>2, <1>3, <1>4, <1>5, <1>6, <1>8, GuestClicks
<1> QED
  BY <1>7, <1>8, People

LEMMA ClickTargetStep == ASSUME Inv, NEW b \in Browser, ClickTarget(b) PROVE Inv'
<1>1. game \in [Browser -> GameType] /\ game[b] \in GameType /\ lobby \in [Browser -> LobbyType]
  BY DEF Inv, Carried
<1>2. PICK n, G, m, s : /\ n = game[b].clicks + 1 /\ G = Finished(lobby[b], b, n) /\ m = Finish(b, n)
                        /\ s = [game[b] EXCEPT !.clicks = n, !.timer = FALSE]
  OBVIOUS
<1>3. n \in Nat
  <2>1. game[b].clicks \in Nat
    BY <1>1, GameFacts
  <2> QED
    BY <1>2, <2>1
<1>4. s \in GameType /\ s.playing = game[b].playing
  BY <1>1, <1>2, <1>3 DEF GameType
<1>5. /\ CanClick(b) /\ lobby' = [lobby EXCEPT ![b] = G]
      /\ game' = [game EXCEPT ![b] = Notified([@ EXCEPT !.clicks = n, !.timer = FALSE], G)] /\ Tell(b, m)
      /\ UNCHANGED <<gone, peers, conn, code, strays, noticed, sim>>
  BY <1>2 DEF ClickTarget
<1>6. game' = [game EXCEPT ![b] = Notified(s, G)]
  BY <1>1, <1>2, <1>5
<1>7. CASE b = Host
  BY <1>2, <1>3, <1>4, <1>5, <1>6, <1>7, HostClicks
<1>8. CASE b \in Guest
  BY <1>2, <1>3, <1>4, <1>5, <1>6, <1>8, GuestClicks
<1> QED
  BY <1>7, <1>8, People

------------------------------------------------------------------------------
(* Somebody leaves *)

\* Somebody leaves, with the page s.
LEMMA GuestDeparts ==
    ASSUME Inv, NEW g \in Guest, InRoom(g), Depart(g), NEW s \in GameType, game' = [game EXCEPT ![g] = s],
           s.playing => game[g].playing /\ s.timer = game[g].timer
    PROVE  Inv'
<1>1. PICK m : m = Msg("player-disconnect")
  OBVIOUS
<1>2. m \in ForHost /\ m.k = "player-disconnect"
  BY <1>1 DEF Msg, ForHost
<1>3. /\ gone' = gone \cup {g} /\ lobby' = [lobby EXCEPT ![g] = Empty] /\ Tell(g, m)
      /\ conn' = [x \in Guest |-> IF x = g THEN "closed" ELSE conn[x]]
      /\ UNCHANGED <<peers, code, strays, sim>>
  BY <1>1, People DEF Depart, sim
<1>4. /\ toGuest' = toGuest /\ toHost' \in [Guest -> Seq(ForHost)]
      /\ \A x \in Guest : x # g => toHost'[x] = toHost[x]
      /\ Messages(toHost[g]) \subseteq Messages(toHost'[g])
      /\ \A y \in Messages(toHost'[g]) : y.k \in {"player-move", "player-finish"} => y.id = g
  BY <1>2, <1>3, TellFacts
<1>5. PICK G, k, q : G = Empty /\ k = "closed" /\ q = toGuest[g]
  OBVIOUS
<1>6. G \in LobbyType /\ k \in Conns \ Early
  BY <1>5, EmptyFacts DEF Conns, Early
<1>7. conn' = [conn EXCEPT ![g] = k] /\ lobby' = [lobby EXCEPT ![g] = G]
  BY <1>3, <1>5, GuestFacts
<1>8. toGuest' = [toGuest EXCEPT ![g] = q] /\ q \in Seq(ForGuest) /\ Messages(q) \subseteq Messages(toGuest[g])
  BY <1>4, <1>5, GuestFacts
<1>9. game' \in [Browser -> GameType] /\ game'[g] = s /\ \A x \in Browser : x # g => game'[x] = game[x]
  BY GuestFacts, People
<1>10. Waiting => Calm(G) /\ ~ game'[g].playing
  BY <1>5, <1>9, EmptyFacts, People DEF Inv, Hush
<1>11. conn[g] \notin Early
  BY EmptyFacts, GuestFacts DEF InRoom
<1>12. gone' \subseteq Browser /\ (Host \in gone' <=> Host \in gone) /\ UNCHANGED <<peers, code, strays, sim>>
  BY <1>3, GuestFacts, People
<1> QED
  BY <1>4, <1>5, <1>6, <1>7, <1>8, <1>9, <1>10, <1>11, <1>12, GuestStep

\* The host leaves: its connections and its part of the room are gone.
LEMMA HostDeparts ==
    ASSUME Inv, InRoom(Host), Depart(Host), NEW s \in GameType, game' = [game EXCEPT ![Host] = s],
           s.playing => game[Host].playing
    PROVE  Inv'
<1>1. PICK m, ms : m = Msg("player-disconnect") /\ ms = <<m>>
  OBVIOUS
<1>2. m \in ForGuest /\ m.k = "player-disconnect"
  BY <1>1 DEF Msg, ForGuest
<1>3. ms \in Seq(ForGuest) /\ Messages(ms) = {m}
  BY <1>1, <1>2, OneFacts
<1>4. /\ lobby \in [Browser -> LobbyType] /\ game \in [Browser -> GameType] /\ conn \in [Guest -> Conns]
      /\ toHost \in [Guest -> Seq(ForHost)] /\ toGuest \in [Guest -> Seq(ForGuest)] /\ gone \subseteq Browser
  BY DEF Inv, Carried
<1>5. /\ gone' = gone \cup {Host} /\ lobby' = [lobby EXCEPT ![Host] = Empty] /\ Tell(Host, m)
      /\ conn' = [x \in Guest |-> IF x \in peers THEN "closed" ELSE conn[x]]
      /\ peers' = {} /\ bots' = {} /\ UNCHANGED <<code, strays, ticks, starts>>
  BY <1>1, People DEF Depart
<1>6. toGuest' = Sent(toGuest, peers, ms) /\ toHost' = toHost
  <2>1. toHost' = Sent(toHost, {Host}, ms)
    BY <1>1, <1>5 DEF Tell
  <2>2. \A g \in Guest : g \notin {Host}
    BY People
  <2>3. toHost' = toHost
    BY <1>4, <2>1, <2>2 DEF Sent
  <2> QED
    BY <1>1, <1>5, <2>3 DEF Tell
<1>7. toGuest' \in [Guest -> Seq(ForGuest)]
  BY <1>3, <1>4, <1>6, SentFacts
<1>8. /\ lobby' \in [Browser -> LobbyType] /\ game' \in [Browser -> GameType] /\ game'[Host] = s
      /\ lobby'[Host] = Empty /\ \A g \in Guest : game'[g] = game[g] /\ lobby'[g] = lobby[g]
  BY <1>4, <1>5, EmptyFacts, People
<1>9. conn' \in [Guest -> Conns] /\ \A x \in Guest : conn'[x] = conn[x] \/ conn'[x] = "closed"
  BY <1>4, <1>5 DEF Conns
<1>10. Carried'
  BY <1>4, <1>5, <1>6, <1>7, <1>8, <1>9, People DEF Inv, Carried
<1>11. Roster'
  <2>1. \A g \in Guest : conn'[g] \in Early => conn[g] \in Early
    BY <1>9 DEF Early
  <2> QED
    BY <1>5, <1>8, <2>1, EmptyFacts DEF Inv, Roster
<1>12. Hush' /\ Peopled'
  <2>1. PICK L : L = Empty
    OBVIOUS
  <2>2. L \in LobbyType /\ Calm(L) /\ lobby'[Host] = L
    BY <1>8, <2>1, EmptyFacts
  <2>3. Waiting' => Waiting /\ ~ game'[Host].playing /\ \A y \in Messages(ms) : CalmMsg(y)
    BY <1>2, <1>3, <1>5, <1>8, People DEF Inv, Waiting, Hush, CalmMsg
  <2>4. \A y \in Messages(ms) : y.k # "lobby-state"
    BY <1>2, <1>3
  <2>5. \A y \in Guest : code'[y] = code[y]
    BY <1>5
  <2> QED
    BY <1>3, <1>6, <1>8, <1>9, <2>2, <2>3, <2>4, <2>5, HostQuiet
<1>13. Reported' /\ Chained'
  BY <1>5 DEF Reported, Chained
<1> QED
  BY <1>10, <1>11, <1>12, <1>13 DEF Inv

\* Whoever leaves, the invariant holds of the others.
LEMMA DepartStep ==
    ASSUME Inv, NEW b \in Browser, InRoom(b), Depart(b), NEW s \in GameType, game' = [game EXCEPT ![b] = s],
           s.playing => game[b].playing /\ s.timer = game[b].timer
    PROVE  Inv'
BY People, GuestDeparts, HostDeparts

LEMMA LeaveStep == ASSUME Inv, NEW b \in Browser, Leave(b) PROVE Inv'
<1>1. game \in [Browser -> GameType] /\ game[b] \in GameType
  BY DEF Inv, Carried
<1>2. PICK s : s = [game[b] EXCEPT !.screen = "home", !.modal = FALSE]
  OBVIOUS
<1>3. s \in GameType /\ s.playing = game[b].playing /\ s.timer = game[b].timer
  BY <1>1, <1>2 DEF GameType
<1>4. game' = [game EXCEPT ![b] = s]
  BY <1>1, <1>2 DEF Leave
<1> QED
  BY <1>3, <1>4, DepartStep DEF Leave

LEMMA GoHomeStep == ASSUME Inv, NEW b \in Browser, GoHome(b) PROVE Inv'
<1>1. AtHome \in GameType /\ ~ AtHome.playing
  BY DEF AtHome, GameType
<1> QED
  BY <1>1, DepartStep DEF GoHome, On

------------------------------------------------------------------------------

\* Before anybody has come.
LEMMA InvInit == ASSUME Init PROVE Inv
<1>1. /\ \A b \in Browser : lobby[b] = Empty /\ game[b] = AtHome
      /\ \A g \in Guest : conn[g] = "none" /\ code[g] = Empty /\ toHost[g] = <<>> /\ toGuest[g] = <<>> /\ strays[g] = 0
      /\ gone = {} /\ peers = {} /\ bots = {} /\ ticks = <<>> /\ starts = 0
  BY DEF Init
<1>2. AtHome \in GameType /\ ~ AtHome.playing /\ AtHome.screen = "home"
  BY DEF AtHome, GameType
<1>3. Messages(<<>>) = {} /\ <<>> \in Seq(ForGuest) /\ <<>> \in Seq(ForHost) /\ <<>> \in Seq(1 .. 3) /\ Len(<<>>) = 0
  BY DEF Messages
<1>4. Carried
  <2>1. /\ lobby \in [Browser -> LobbyType] /\ game \in [Browser -> GameType] /\ code \in [Guest -> LobbyType]
        /\ conn \in [Guest -> Conns] /\ strays \in [Guest -> Nat]
    BY <1>2, EmptyFacts DEF Init, Conns
  <2>2. toGuest \in [Guest -> Seq(ForGuest)] /\ toHost \in [Guest -> Seq(ForHost)]
    BY <1>3 DEF Init
  <2> QED
    BY <1>1, <1>3, <2>1, <2>2 DEF Carried
<1>5. Roster
  BY <1>1, EmptyFacts, People DEF Roster
<1>6. Hush
  BY <1>1, <1>2, <1>3, EmptyFacts DEF Hush
<1>7. Peopled
  <2> SUFFICES ASSUME NEW g \in Guest
               PROVE  /\ conn[g] \in {"completed", "open"} => lobby[g].players # <<>>
                      /\ code[g] = Empty \/ code[g].players # <<>>
                      /\ \A m \in Messages(toGuest[g]) : m.k = "lobby-state" => m.lobby.players # <<>>
                      /\ toGuest[g] # <<>> => conn[g] \in {"open", "closed"}
                      /\ conn[g] \notin {"open", "closed"} => game[g].screen # "game" /\ (game[g].playing => game[g].timer)
    BY DEF Peopled
  <2>1. conn[g] = "none" /\ code[g] = Empty /\ toGuest[g] = <<>> /\ game[g] = AtHome
    BY <1>1, People
  <2>2. \A m \in Messages(toGuest[g]) : m.k = "lobby-state" => m.lobby.players # <<>>
    BY <1>3, <2>1
  <2> QED
    BY <1>2, <2>1, <2>2
<1>8. Reported /\ Chained
  BY <1>1, <1>3 DEF Reported, Chained
<1> QED
  BY <1>4, <1>5, <1>6, <1>7, <1>8 DEF Inv

LEMMA InvStutter == ASSUME Inv, UNCHANGED vars PROVE Inv'
BY StillStep DEF vars

LEMMA InvStep == ASSUME Inv, [Next]_vars PROVE Inv'
<1>1. CASE CreateRoom
  BY <1>1, CreateRoomStep
<1>2. CASE StartGame
  BY <1>2, StartGameStep
<1>3. CASE Tick
  BY <1>3, TickStep
<1>4. CASE StartFakePlayerSimulation
  BY <1>4, StartFakePlayerSimulationStep
<1>5. ASSUME NEW g \in Guest,
             \/ JoinRoom(g) \/ AcceptJoin(g) \/ Accepted(g) \/ Unwritten(g) \/ CompleteJoin(g) \/ Open(g)
             \/ Break(g) \/ StrayFails(g) \/ HostNotices(g) \/ GuestNotices(g) \/ ToggleReady(g)
             \/ HostReceives(g) \/ GuestReceives(g)
      PROVE  Inv'
  BY <1>5, JoinRoomStep, AcceptJoinStep, AcceptedStep, UnwrittenStep, CompleteJoinStep, OpenStep, BreakStep,
     StrayFailsStep, HostNoticesStep,
     GuestNoticesStep, ToggleReadyStep, HostReceivesStep, GuestReceivesStep
<1>6. ASSUME NEW b \in Browser,
             \/ Leave(b) \/ GoHome(b) \/ PlayAgain(b) \/ ClickLink(b) \/ ClickTarget(b) \/ ClickBreadcrumb(b)
      PROVE  Inv'
  BY <1>6, LeaveStep, GoHomeStep, PlayAgainStep, ClickLinkStep, ClickTargetStep, ClickBreadcrumbStep
<1>7. ASSUME NEW c \in Challenge \cup {None}, SetChallengeWords(c) \/ RandomChallenge(c) PROVE Inv'
  BY <1>7, SetChallengeWordsStep, RandomChallengeStep
<1>8. ASSUME NEW f \in Fake, AddFakePlayer(f) \/ SimulateMove(f) PROVE Inv'
  BY <1>8, AddFakePlayerStep, SimulateMoveStep
<1>9. CASE AskRandomChallenge
  BY <1>9, AskRandomChallengeStep
<1>10. CASE UNCHANGED vars
  BY <1>10, InvStutter
<1> QED
  BY <1>1, <1>2, <1>3, <1>4, <1>5, <1>6, <1>7, <1>8, <1>9, <1>10 DEF Next

------------------------------------------------------------------------------
(* What the invariant gives *)

LEMMA CarriedTypes == Inv => TypeOK
BY DEF Inv, Carried, TypeOK, GameType, Conns

LEMMA RosterCounts == Inv => RosterIsPeers
<1> SUFFICES ASSUME Inv, InRoom(Host)
             PROVE  /\ Ids(lobby[Host]) \ Fake = {Host} \cup peers
                    /\ LET ps == lobby[Host].players
                       IN  \A i, j \in DOMAIN ps : ps[i].id = ps[j].id /\ i # j =>
                               \E g \in Guest : g = ps[i].id /\ strays[g] > 0
  BY DEF RosterIsPeers
<1>1. Host \notin gone /\ ~ Vacant
  BY EmptyFacts DEF InRoom, Vacant
<1>2. Apart(lobby[Host], Strayed) /\ Ids(lobby[Host]) \ Fake = {Host} \cup peers
  BY <1>1, Hosted DEF Inv
<1> QED
  BY <1>2 DEF Apart, Strayed

LEMMA HushWaits == Inv => NoHeadStart
<1> SUFFICES ASSUME Inv, starts <= 1, NEW b \in Browser, game[b].playing PROVE ticks = <<>>
  BY DEF NoHeadStart
<1>1. ~ Waiting
  BY DEF Inv, Hush
<1>2. starts \in Nat
  BY DEF Inv, Carried
<1> QED
  BY <1>1, <1>2 DEF Waiting

LEMMA ReportArrived == Inv => FinishKnown
<1> SUFFICES ASSUME Inv, NEW g \in Guest, starts = 1, Quiet(g), game[g].playing, ~ game[g].timer
             PROVE  Entry(lobby[Host], g).finished
  BY DEF FinishKnown
<1>1. conn[g] = "open" /\ g \in peers /\ Host \notin gone /\ toHost[g] = <<>>
  BY DEF Quiet
<1>2. Messages(toHost[g]) = {}
  BY <1>1 DEF Messages
<1>3. Done(lobby[Host], g)
  BY <1>1, <1>2 DEF Inv, Reported
<1>4. g \in Ids(lobby[Host])
  BY <1>1, Hosted DEF Inv, Vacant
<1>5. lobby[Host] \in LobbyType
  BY People DEF Inv, Carried
<1> QED
  BY <1>3, <1>4, <1>5, EntryFacts DEF Done

\* A guest that nothing is sent to has the host's lobby, as far as it is shown.
LEMMA QuietShown ==
    ASSUME Inv, NEW g \in Guest, Quiet(g)
    PROVE  Shown(g, lobby[g], lobby[Host])
<1>1. conn[g] = "open" /\ g \in peers /\ Host \notin gone /\ toHost[g] = <<>> /\ toGuest[g] = <<>>
  BY DEF Quiet
<1>2. ~ Pending(g)
  BY <1>1 DEF Pending, Messages
<1>3. Linked(g, <<>>, lobby[g], lobby[Host])
  BY <1>1, <1>2 DEF Inv, Chained
<1>4. lobby[g] \in LobbyType /\ lobby[Host] \in LobbyType
  BY People DEF Inv, Carried
<1> QED
  BY <1>3, <1>4, LinkedIdle

\* The real players of two such lobbies.
LEMMA ShownReal ==
    ASSUME NEW g \in Guest, NEW L \in LobbyType, NEW K \in LobbyType, Shown(g, L, K)
    PROVE  /\ Len(Real(L)) = Len(Real(K))
           /\ \A i \in DOMAIN Real(K) : IF Real(K)[i].id = g THEN Real(L)[i].id = g /\ Real(L)[i].ready = Real(K)[i].ready
                                        ELSE Real(L)[i] = Real(K)[i]
<1> DEFINE ps == L.players
           qs == K.players
<1>1. /\ ps \in Seq(PlayerType) /\ qs \in Seq(PlayerType) /\ Len(ps) \in Nat /\ Len(qs) \in Nat
      /\ DOMAIN ps = 1 .. Len(ps) /\ DOMAIN qs = 1 .. Len(qs)
  BY TypeFacts
<1>2. /\ Len(ps) <= Len(qs)
      /\ \A i \in DOMAIN qs :
            IF i \in DOMAIN ps
            THEN /\ ps[i].id = qs[i].id
                 /\ qs[i].id \in Fake \cup {g} \/ ps[i] = qs[i]
                 /\ qs[i].id = g => ps[i].ready = qs[i].ready
            ELSE qs[i].id \in Fake
  BY DEF Shown
<1> HIDE DEF ps, qs
<1>3. \A i \in 1 .. Len(ps) : i \in DOMAIN qs /\ i \in DOMAIN ps
  BY <1>1, <1>2
<1>4. \A i \in 1 .. Len(ps) : ps[i].id = qs[i].id
  BY <1>2, <1>3
<1>5. \A i \in Len(ps) + 1 .. Len(qs) : qs[i].id \notin Browser
  <2> SUFFICES ASSUME NEW i \in Len(ps) + 1 .. Len(qs) PROVE qs[i].id \notin Browser
    OBVIOUS
  <2>1. i \in DOMAIN qs /\ i \notin DOMAIN ps
    BY <1>1
  <2>2. qs[i].id \in Fake
    BY <1>2, <2>1
  <2> QED
    BY <2>2, People
<1>6. PICK rs, ts : rs = Those(ps, Browser) /\ ts = Those(qs, Browser)
  OBVIOUS
<1>7. Len(rs) = Len(ts)
  BY <1>1, <1>2, <1>4, <1>5, <1>6, ThoseAlike
<1>8. PICK h : Picks(h, ps, Browser, Len(ps), rs) /\ Picks(h, qs, Browser, Len(ps), ts)
  BY <1>1, <1>2, <1>4, <1>5, <1>6, ThoseAlike
<1>9. rs \in Seq(PlayerType) /\ ts \in Seq(PlayerType)
  BY <1>1, <1>6, ThosePick
<1>10. DOMAIN ts = 1 .. Len(rs) /\ Len(rs) \in Nat
  BY <1>7, <1>9
<1>11. \A i \in 1 .. Len(rs) : h[i] \in 1 .. Len(ps) /\ rs[i] = ps[h[i]] /\ ts[i] = qs[h[i]] /\ qs[h[i]].id \in Browser
  <2>1. h \in [1 .. Len(rs) -> 1 .. Len(ps)] /\ \A i \in 1 .. Len(rs) : rs[i] = ps[h[i]]
    BY <1>8 DEF Picks
  <2>2. \A i \in 1 .. Len(ts) : ts[i] = qs[h[i]] /\ qs[h[i]].id \in Browser
    BY <1>8 DEF Picks
  <2> QED
    BY <1>7, <2>1, <2>2
<1>12. ASSUME NEW i \in DOMAIN ts
       PROVE  IF ts[i].id = g THEN rs[i].id = g /\ rs[i].ready = ts[i].ready ELSE rs[i] = ts[i]
  <2>1. PICK j : j = h[i]
    OBVIOUS
  <2>2. j \in 1 .. Len(ps) /\ rs[i] = ps[j] /\ ts[i] = qs[j] /\ qs[j].id \in Browser
    BY <1>10, <1>11, <1>12, <2>1
  <2>3. /\ ps[j].id = qs[j].id
        /\ qs[j].id \in Fake \cup {g} \/ ps[j] = qs[j]
        /\ qs[j].id = g => ps[j].ready = qs[j].ready
    BY <1>2, <1>3, <2>2
  <2>4. qs[j].id \notin Fake
    BY <2>2, People
  <2> QED
    BY <2>2, <2>3, <2>4
<1>13. Real(L) = rs /\ Real(K) = ts
  BY <1>6 DEF Real, ps, qs
<1> QED
  BY <1>7, <1>12, <1>13

LEMMA QuietMirrors == Inv => Mirrors
<1> SUFFICES ASSUME Inv, NEW g \in Guest, Quiet(g)
             PROVE  LET H == Real(lobby[Host])
                        G == Real(lobby[g])
                    IN  /\ <<lobby[g].challenge, lobby[g].started, lobby[g].countdown>>
                             = <<lobby[Host].challenge, lobby[Host].started, lobby[Host].countdown>>
                        /\ Len(G) = Len(H)
                        /\ \A i \in DOMAIN H : IF H[i].id = g THEN G[i].id = g /\ G[i].ready = H[i].ready
                                               ELSE G[i] = H[i]
  BY DEF Mirrors
<1>1. Shown(g, lobby[g], lobby[Host])
  BY QuietShown
<1>2. lobby[g] \in LobbyType /\ lobby[Host] \in LobbyType
  BY People DEF Inv, Carried
<1>3. /\ Len(Real(lobby[g])) = Len(Real(lobby[Host]))
      /\ \A i \in DOMAIN Real(lobby[Host]) :
            IF Real(lobby[Host])[i].id = g
            THEN Real(lobby[g])[i].id = g /\ Real(lobby[g])[i].ready = Real(lobby[Host])[i].ready
            ELSE Real(lobby[g])[i] = Real(lobby[Host])[i]
  BY <1>1, <1>2, ShownReal
<1>4. <<lobby[g].challenge, lobby[g].started, lobby[g].countdown>>
          = <<lobby[Host].challenge, lobby[Host].started, lobby[Host].countdown>>
  BY <1>1 DEF Shown
<1> QED
  BY <1>3, <1>4

------------------------------------------------------------------------------

LEMMA Invariant == Spec => []Inv
<1>1. Init => Inv
  BY InvInit
<1>2. Inv /\ [Next]_vars => Inv'
  BY InvStep
<1> QED
  BY <1>1, <1>2, PTL DEF Spec

\* However joins, answers, failures and departures interleave, the host's roster
\* is itself, the guests it holds a connection to and the fake players, each once but
\* for a guest that was entered without a code and tried again.
THEOREM RoomIsSound == Spec => []RoomSound
<1>1. Inv => RoomSound
  BY CarriedTypes, RosterCounts DEF RoomSound
<1> QED
  BY <1>1, Invariant, PTL

\* While the countdown of the first start runs, no browser is racing: not by the
\* message that announces the start, nor by a lobby that overtakes a tick.
THEOREM NobodyStartsEarly == Spec => []NoHeadStart
<1> QED
  BY HushWaits, Invariant, PTL

\* A guest that has come to the target is finished for the host, once all its
\* messages have arrived.
THEOREM FinishesAreKnown == Spec => []FinishKnown
<1> QED
  BY ReportArrived, Invariant, PTL

\* Whatever was relayed, sent as a whole lobby or computed at both ends, a guest
\* that nothing is on its way to or from sees the host's lobby.
THEOREM GuestsMirrorTheHost == Spec => []Mirrors
<1> QED
  BY QuietMirrors, Invariant, PTL
=============================================================================
