-------------------------------- MODULE Room --------------------------------
(* A shared race of the browser game (personal/wiktionaryRacingV2): the       *)
(* browsers of a host and of guests (multiplayer.js), each with its own copy  *)
(* of the lobby, and what the page does on every change of it (game.js). The  *)
(* guests are connected to the host only, by ordered reliable channels; codes *)
(* that set a connection up are carried by hand. A path and the word it has   *)
(* come to are its number of clicks; names, colours and times are left out.   *)
(* Ids are random, so that a browser that has left comes back as another one. *)
EXTENDS Integers, Sequences, FiniteSets

CONSTANTS Host, Guest, Fake, Challenge,
          FakeClicks,   \* clicks before a fake player may finish, 3 in the code
          MaxStarts,    \* bound: presses of the start button
          MaxClicks,    \* bound: clicks before that on the target
          MaxQueue      \* bound: messages on a channel when a user acts

ASSUME RoomAssumption ==
    /\ Host \notin Guest \cup Fake /\ Guest \cap Fake = {}
    /\ {FakeClicks, MaxStarts, MaxClicks, MaxQueue} \subseteq Nat

VARIABLES
    lobby,      \* browser -> lobbyState
    game,       \* browser -> gameState, the screen and the victory modal
    gone,       \* browsers that have left
    peers,      \* guests in the host's map of peers
    conn,       \* guest -> how far its connection is
    code,       \* guest -> the lobby in the accept code made for it
    toHost, toGuest,   \* guest -> messages on their way
    noticed,    \* <<browser, guest>>: that end knows the connection is closed
    strays,     \* guest -> the host's connections to it whose code was not written
    asking,     \* whether the host's page is asking for random words
    ticks,      \* the host's countdowns: what each has counted to, next first
    starts,     \* how often the start button was pressed
    due,        \* starts whose fake players wait for the race to begin
    bots,       \* fake players that have a move coming
    debug       \* whether the host's page is in debug mode
net  == <<conn, code, toHost, toGuest, noticed, strays>>
sim  == <<ticks, starts, due, bots, debug>>
vars == <<lobby, game, gone, peers, net, sim, asking>>

Browser == {Host} \cup Guest
None == "none"
Null == -1      \* no countdown

Player(p) == [id |-> p, ready |-> FALSE, clicks |-> 0, finished |-> FALSE]
Empty     == [players |-> <<>>, challenge |-> None, started |-> FALSE, countdown |-> Null]
AtHome    == [screen |-> "home", playing |-> FALSE, clicks |-> 0, timer |-> FALSE, modal |-> FALSE]

\* The players of ps whose ids are in P, in their order.
Those(ps, P) ==
    LET among[n \in 0 .. Len(ps)] ==
            IF n = 0 THEN <<>>
            ELSE IF ps[n].id \in P THEN Append(among[n - 1], ps[n]) ELSE among[n - 1]
    IN  among[Len(ps)]

Ids(L)      == {L.players[i].id : i \in DOMAIN L.players}
\* The i-th player is the one that `find` finds by its id.
Found(L, i) == \A j \in 1 .. i - 1 : L.players[j].id # L.players[i].id
Entry(L, p) == L.players[CHOOSE i \in DOMAIN L.players : L.players[i].id = p /\ Found(L, i)]
Join(L, player) == [L EXCEPT !.players = Append(@, player)]
Without(L, p)   == [L EXCEPT !.players = Those(@, Ids(L) \ {p})]
Countdown(L, n) == [L EXCEPT !.countdown = n]
\* A change of one player's entry; nothing happens to who is not in the lobby.
Update(L, p, Change(_)) ==
    [L EXCEPT !.players = [i \in DOMAIN @ |-> IF @[i].id = p /\ Found(L, i) THEN Change(@[i]) ELSE @[i]]]
Ready(L, p, r)    == Update(L, p, LAMBDA x : [x EXCEPT !.ready = r])
Moved(L, p, n)    == Update(L, p, LAMBDA x : [x EXCEPT !.clicks = n])
Finished(L, p, n) == Update(L, p, LAMBDA x : [x EXCEPT !.clicks = n, !.finished = TRUE])
AtStart(x) == [x EXCEPT !.clicks = 0, !.finished = FALSE]
\* The countdown is over: every player is at the start word.
Begun(L) == [L EXCEPT !.countdown = Null, !.players = [i \in DOMAIN @ |-> AtStart(@[i])]]

Init ==
    /\ lobby = [b \in Browser |-> Empty]
    /\ game = [b \in Browser |-> AtHome]
    /\ gone = {} /\ peers = {} /\ noticed = {} /\ bots = {}
    /\ conn = [g \in Guest |-> "none"]
    /\ code = [g \in Guest |-> Empty]
    /\ strays = [g \in Guest |-> 0] /\ asking = FALSE
    /\ toHost = [g \in Guest |-> <<>>] /\ toGuest = [g \in Guest |-> <<>>]
    /\ ticks = <<>> /\ starts = 0 /\ due = 0
    /\ debug \in BOOLEAN

------------------------------------------------------------------------------
(* handleMultiplayerStateChange: what the page does when the lobby has become *)
(* L. The race starts when there is no countdown any more and ends when all   *)
(* have finished.                                                             *)

AllFinished(L) == L.players # <<>> /\ \A i \in DOMAIN L.players : L.players[i].finished

Racing(s) == [s EXCEPT !.screen = "game", !.playing = TRUE, !.clicks = 0, !.timer = TRUE]
Won(s)    == [s EXCEPT !.playing = FALSE, !.timer = FALSE, !.modal = TRUE]

\* A bug: the race starts with the message that announces it.
NotifiedEager(s, L) == IF L.started /\ ~s.playing THEN Racing(s) ELSE s

Notified(s, L) ==
    LET t == IF L.started /\ L.countdown = Null /\ ~s.playing THEN Racing(s) ELSE s
    IN  IF t.playing /\ AllFinished(L) THEN Won(t) ELSE t

\* Browser b has the lobby L now, and its page is told.
Notify(b, L) ==
    /\ lobby' = [lobby EXCEPT ![b] = L]
    /\ game' = [game EXCEPT ![b] = Notified(@, L)]

------------------------------------------------------------------------------
(* Messages *)

Msg(k)         == [k |-> k]
LobbyState(L)  == [k |-> "lobby-state", lobby |-> L]
GameStart(L)   == [k |-> "game-start", challenge |-> L.challenge, countdown |-> L.countdown]
Tick1(n)       == [k |-> "countdown-tick", countdown |-> n]
Move(p, n)     == [k |-> "player-move", id |-> p, clicks |-> n]
\* A bug: that somebody has finished is reported as a move.
FinishAsMove(p, n) == Move(p, n)
Finish(p, n)   == [k |-> "player-finish", id |-> p, clicks |-> n]
ReadyToggle(r) == [k |-> "ready-toggle", ready |-> r]

\* What is sent on a channel that is not open is dropped.
Sent(q, to, ms)  == [g \in Guest |-> IF g \in to /\ conn[g] = "open" THEN q[g] \o ms ELSE q[g]]
Broadcast(ms)    == toGuest' = Sent(toGuest, peers, ms)
\* A browser's message to all its peers: a guest has the host only.
Tell(b, m) ==
    /\ toHost' = Sent(toHost, {b}, <<m>>)
    /\ toGuest' = IF b = Host THEN Sent(toGuest, peers, <<m>>) ELSE toGuest

InRoom(b)  == b \notin gone /\ lobby[b].players # <<>>
On(b, s)   == InRoom(b) /\ game[b].screen = s /\ ~game[b].modal
QueuesFree == \A g \in Guest : Len(toHost[g]) < MaxQueue /\ Len(toGuest[g]) < MaxQueue

------------------------------------------------------------------------------
(* Setting up a room *)

CreateRoom ==
    /\ Host \notin gone /\ lobby[Host] = Empty
    /\ lobby' = [lobby EXCEPT ![Host] = Join(Empty, Player(Host))]
    /\ game' = [game EXCEPT ![Host].screen = "lobby"]
    /\ UNCHANGED <<gone, peers, net, sim, asking>>

\* joinRoom, with the host's room code: an offer in a join code.
JoinRoom(g) ==
    /\ conn[g] = "none" /\ (Host \in gone \/ lobby[Host] # Empty)
    /\ conn' = [conn EXCEPT ![g] = "offered"]
    /\ UNCHANGED <<lobby, game, gone, peers, code, toHost, toGuest, noticed, strays, sim, asking>>

\* acceptJoin awaits an answer, and up to 3 s its candidates.
AcceptJoin(g) ==
    /\ conn[g] = "offered" /\ On(Host, "lobby") /\ \A x \in Guest : conn[x] # "accepting"
    /\ conn' = [conn EXCEPT ![g] = "accepting"]
    /\ UNCHANGED <<lobby, game, gone, peers, code, toHost, toGuest, noticed, strays, sim, asking>>

\* The rest of acceptJoin. A host that has left meanwhile has no id, and its
\* code is good for nothing.
Accepted(g) ==
    /\ conn[g] = "accepting"
    /\ peers' = peers \cup {g}
    /\ Notify(Host, Join(lobby[Host], Player(g)))
    /\ Broadcast(IF Host \in gone THEN <<>> ELSE <<LobbyState(lobby'[Host])>>)
    /\ code' = IF Host \in gone THEN code ELSE [code EXCEPT ![g] = lobby'[Host]]
    /\ conn' = [conn EXCEPT ![g] = IF Host \in gone THEN "closed" ELSE "accepted"]
    /\ UNCHANGED <<gone, toHost, noticed, strays, sim, asking>>

\* The peer is entered, and then its code cannot be written: btoa knows no word
\* outside Latin-1, and which words the lobby has is left open. The page keeps
\* the join code, to try again, and the connection is never completed.
Unwritten(g) ==
    /\ conn[g] = "accepting" /\ Host \notin gone
    /\ lobby[Host].challenge # None \/ lobby[Host].started
    /\ peers' = peers \cup {g}
    /\ Notify(Host, Join(lobby[Host], Player(g)))
    /\ Broadcast(<<LobbyState(lobby'[Host])>>)
    /\ conn' = [conn EXCEPT ![g] = "offered"]
    /\ strays' = [strays EXCEPT ![g] = @ + 1]
    /\ UNCHANGED <<gone, code, toHost, noticed, sim, asking>>

\* completeJoin, after which the page shows the lobby in any case.
CompleteJoin(g) ==
    /\ code[g] # Empty /\ lobby[g] = Empty /\ g \notin gone
    /\ conn' = [conn EXCEPT ![g] = IF @ = "closed" THEN @ ELSE "completed"]
    /\ lobby' = [lobby EXCEPT ![g] = code[g]]
    /\ game' = [game EXCEPT ![g] = [Notified(@, code[g]) EXCEPT !.screen = "lobby"]]
    /\ UNCHANGED <<gone, peers, code, toHost, toGuest, noticed, strays, sim, asking>>

\* The channel opens at both ends; the guest sends who it is.
Open(g) ==
    /\ conn[g] = "completed"
    /\ conn' = [conn EXCEPT ![g] = "open"]
    /\ toHost' = [toHost EXCEPT ![g] = Append(@, Msg("player-info"))]
    /\ UNCHANGED <<lobby, game, gone, peers, code, toGuest, noticed, strays, sim, asking>>

------------------------------------------------------------------------------
(* Connections end *)

\* A bug: the others are not told that a player has left.
DroppedSilently(g) ==
    /\ peers' = peers \ {g}
    /\ conn' = [conn EXCEPT ![g] = "closed"]
    /\ noticed' = noticed \cup {<<Host, g>>}
    /\ Notify(Host, Without(lobby[Host], g))
    /\ UNCHANGED toGuest

\* A bug: the player of a closed connection stays in the lobby.
DroppedPeer(g) ==
    /\ peers' = peers \ {g}
    /\ conn' = [conn EXCEPT ![g] = "closed"]
    /\ noticed' = noticed \cup {<<Host, g>>}
    /\ Notify(Host, lobby[Host])
    /\ toGuest' = Sent(toGuest, peers \ {g}, <<LobbyState(lobby'[Host])>>)

\* handlePeerDisconnect at the host.
Dropped(g) ==
    /\ peers' = peers \ {g}
    /\ conn' = [conn EXCEPT ![g] = "closed"]
    /\ noticed' = noticed \cup {<<Host, g>>}
    /\ Notify(Host, Without(lobby[Host], g))
    /\ toGuest' = Sent(toGuest, peers \ {g}, <<LobbyState(lobby'[Host])>>)

\* handlePeerDisconnect at a guest.
HostLost(g) ==
    /\ conn' = [conn EXCEPT ![g] = "closed"]
    /\ noticed' = noticed \cup {<<g, g>>}
    /\ Notify(g, Without(lobby[g], Host))

Break(g) ==
    /\ conn[g] \in {"accepted", "completed", "open"}
    /\ conn' = [conn EXCEPT ![g] = "closed"]
    /\ UNCHANGED <<lobby, game, gone, peers, code, toHost, toGuest, noticed, strays, sim, asking>>

\* A connection that was never completed fails, and the host takes that for the
\* end of the one it has to the same guest.
StrayFails(g) ==
    /\ strays[g] > 0 /\ Host \notin gone
    /\ strays' = [strays EXCEPT ![g] = @ - 1]
    /\ IF conn[g] \in {"offered", "accepting"}
       THEN /\ peers' = peers \ {g}
            /\ Notify(Host, Without(lobby[Host], g))
            /\ toGuest' = Sent(toGuest, peers \ {g}, <<LobbyState(lobby'[Host])>>)
            /\ UNCHANGED <<conn, noticed>>
       ELSE Dropped(g)
    /\ toHost' = [toHost EXCEPT ![g] = <<>>]
    /\ UNCHANGED <<gone, code, sim, asking>>

\* What had been sent and has not arrived is lost.
HostNotices(g) ==
    /\ conn[g] = "closed" /\ g \in peers /\ <<Host, g>> \notin noticed /\ Host \notin gone
    /\ Dropped(g)
    /\ toHost' = [toHost EXCEPT ![g] = <<>>]
    /\ UNCHANGED <<gone, code, strays, sim, asking>>

GuestNotices(g) ==
    /\ conn[g] = "closed" /\ <<g, g>> \notin noticed /\ InRoom(g)
    /\ HostLost(g)
    /\ toGuest' = [toGuest EXCEPT ![g] = <<>>]
    /\ UNCHANGED <<gone, peers, code, toHost, strays, sim, asking>>

\* leave(): the countdown goes on.
Depart(b) ==
    /\ gone' = gone \cup {b}
    /\ lobby' = [lobby EXCEPT ![b] = Empty]
    /\ Tell(b, Msg("player-disconnect"))
    /\ conn' = [g \in Guest |-> IF g = b \/ (b = Host /\ g \in peers) THEN "closed" ELSE conn[g]]
    /\ noticed' = noticed \cup {<<b, g>> : g \in IF b = Host THEN peers ELSE {b}}
    /\ peers' = IF b = Host THEN {} ELSE peers
    /\ bots' = IF b = Host THEN {} ELSE bots
    /\ UNCHANGED <<code, strays, ticks, starts, due, debug, asking>>

\* From the lobby or the victory modal.
Leave(b) ==
    /\ InRoom(b) /\ (game[b].screen = "lobby" \/ game[b].modal)
    /\ Depart(b)
    /\ game' = [game EXCEPT ![b].screen = "home", ![b].modal = FALSE]

\* The home button of the game screen also resets the game.
GoHome(b) ==
    /\ On(b, "game") /\ game[b].playing
    /\ Depart(b)
    /\ game' = [game EXCEPT ![b] = AtHome]

------------------------------------------------------------------------------
(* The lobby *)

\* A guest's button. Its page is not told, and the host only if it can be.
ToggleReady(g) ==
    /\ On(g, "lobby") /\ g \in Ids(lobby[g]) /\ QueuesFree
    /\ LET r == ~Entry(lobby[g], g).ready
       IN  /\ lobby' = [lobby EXCEPT ![g] = Ready(@, g, r)]
           /\ Tell(g, ReadyToggle(r))
    /\ UNCHANGED <<game, gone, peers, conn, code, noticed, strays, sim, asking>>

\* The words are typed.
SetChallengeWords(c) ==
    /\ On(Host, "lobby") /\ QueuesFree /\ c # lobby[Host].challenge
    /\ Notify(Host, [lobby[Host] EXCEPT !.challenge = c])
    /\ Broadcast(<<LobbyState(lobby'[Host])>>)
    /\ UNCHANGED <<gone, peers, conn, code, toHost, noticed, strays, sim, asking>>

\* handleMpRandomChallenge: the words are asked for, with the button off.
AskRandomChallenge ==
    /\ On(Host, "lobby") /\ ~asking
    /\ asking' = TRUE
    /\ UNCHANGED <<lobby, game, gone, peers, net, sim>>

\* They have come, or not, wherever the host is by then.
RandomChallenge(c) ==
    /\ asking /\ asking' = FALSE
    /\ \/ /\ InRoom(Host) /\ c # None /\ QueuesFree
          /\ Notify(Host, [lobby[Host] EXCEPT !.challenge = c])
          /\ Broadcast(<<LobbyState(lobby'[Host])>>)
       \/ UNCHANGED <<lobby, game, toGuest>>
    /\ UNCHANGED <<gone, peers, conn, code, toHost, noticed, strays, sim>>

\* A debug button. The guests are not told, now or when the player moves.
AddFakePlayer(f) ==
    /\ On(Host, "lobby") /\ debug /\ f \notin Ids(lobby[Host])
    /\ Notify(Host, Join(lobby[Host], [Player(f) EXCEPT !.ready = TRUE]))
    /\ UNCHANGED <<gone, peers, net, sim, asking>>

CanStart(L) ==
    /\ L.challenge # None /\ Len(L.players) >= 2
    /\ \A i \in DOMAIN L.players : L.players[i].id = Host \/ L.players[i].ready

\* The button stays on while a countdown runs.
StartGame ==
    /\ On(Host, "lobby") /\ CanStart(lobby[Host]) /\ QueuesFree /\ starts < MaxStarts
    /\ Notify(Host, [lobby[Host] EXCEPT !.started = TRUE, !.countdown = 3])
    /\ Broadcast(<<GameStart(lobby'[Host])>>)
    /\ ticks' = Append(ticks, 3) /\ starts' = starts + 1 /\ due' = due + 1
    /\ UNCHANGED <<gone, peers, conn, code, toHost, noticed, strays, bots, debug, asking>>

\* A bug: the last tick is sent, and that the race begins is not.
TickSilent ==
    /\ ticks # <<>>
    /\ LET n == Head(ticks) - 1
       IN  /\ Notify(Host, IF n > 0 THEN Countdown(lobby[Host], n) ELSE Begun(lobby[Host]))
           /\ Broadcast(<<Tick1(n)>>)
           /\ ticks' = IF n > 0 THEN Append(Tail(ticks), n) ELSE Tail(ticks)
    /\ UNCHANGED <<gone, peers, conn, code, toHost, noticed, strays, starts, due, bots, debug, asking>>

\* One second of one countdown; several take turns. The last one sends
\* countdown 0 and then the beginning, and its page is told both.
Tick ==
    /\ ticks # <<>>
    /\ LET n    == Head(ticks) - 1
           L    == Countdown(lobby[Host], n)
           told == Notified(game[Host], L)
       IN  IF n > 0
           THEN /\ Notify(Host, L)
                /\ Broadcast(<<Tick1(n)>>)
                /\ ticks' = Append(Tail(ticks), n)
           ELSE /\ lobby' = [lobby EXCEPT ![Host] = Begun(L)]
                /\ game' = [game EXCEPT ![Host] = Notified(told, Begun(L))]
                /\ Broadcast(<<Tick1(0), Msg("game-begin")>>)
                /\ ticks' = Tail(ticks)
    /\ UNCHANGED <<gone, peers, conn, code, toHost, noticed, strays, starts, due, bots, debug, asking>>

------------------------------------------------------------------------------
(* The race *)

CanClick(b) == On(b, "game") /\ game[b].playing /\ game[b].clicks <= MaxClicks /\ QueuesFree

\* handleLinkClick on a word that is not the target; reportMove. The links
\* work on when the player has finished.
ClickLink(b) ==
    /\ CanClick(b) /\ game[b].clicks < MaxClicks
    /\ LET n == game[b].clicks + 1
           L == Moved(lobby[b], b, n)
       IN  /\ lobby' = [lobby EXCEPT ![b] = L]
           /\ game' = [game EXCEPT ![b] = Notified([@ EXCEPT !.clicks = n], L)]
           /\ Tell(b, Move(b, n))
    /\ UNCHANGED <<gone, peers, conn, code, noticed, strays, sim, asking>>

\* handleLinkClick on the target: the timer stops; reportFinish.
ClickTarget(b) ==
    /\ CanClick(b)
    /\ LET n == game[b].clicks + 1
           L == Finished(lobby[b], b, n)
       IN  /\ lobby' = [lobby EXCEPT ![b] = L]
           /\ game' = [game EXCEPT ![b] = Notified([@ EXCEPT !.clicks = n, !.timer = FALSE], L)]
           /\ Tell(b, Finish(b, n))
    /\ UNCHANGED <<gone, peers, conn, code, noticed, strays, sim, asking>>

\* A word of the breadcrumb trail: nobody is told.
ClickBreadcrumb(b) ==
    /\ On(b, "game")
    /\ \E n \in 0 .. game[b].clicks - 1 : game' = [game EXCEPT ![b].clicks = n]
    /\ UNCHANGED <<lobby, gone, peers, net, sim, asking>>

PlayAgain(b) ==
    /\ InRoom(b) /\ game[b].modal
    /\ game' = [game EXCEPT ![b].modal = FALSE, ![b].screen = "lobby"]
    /\ UNCHANGED <<lobby, gone, peers, net, sim, asking>>

Fakes == Fake \cap Ids(lobby[Host])

\* Four seconds after a start, when its countdown is over. Those that move
\* already are put back as well.
StartFakePlayerSimulation ==
    /\ due > Len(ticks)
    /\ due' = due - 1
    /\ IF lobby[Host].started /\ lobby[Host].countdown = Null
       THEN /\ bots' = Fakes
            /\ lobby' = [lobby EXCEPT ![Host].players =
                             [i \in DOMAIN @ |-> IF @[i].id \in Fake THEN AtStart(@[i]) ELSE @[i]]]
       ELSE UNCHANGED <<bots, lobby>>
    /\ UNCHANGED <<game, gone, peers, net, ticks, starts, debug, asking>>

SimulateMove(f) ==
    /\ f \in bots
    /\ LET n == Entry(lobby[Host], f).clicks + 1
       IN  \/ n <= MaxClicks /\ Notify(Host, Moved(lobby[Host], f, n)) /\ UNCHANGED bots
           \/ n > FakeClicks /\ Notify(Host, Finished(lobby[Host], f, n)) /\ bots' = bots \ {f}
    /\ UNCHANGED <<gone, peers, net, ticks, starts, due, debug, asking>>

------------------------------------------------------------------------------
(* handleMessage *)

\* At the host, from guest g; a move or a finish is relayed to the others.
HostReceives(g) ==
    /\ toHost[g] # <<>> /\ g \in peers /\ Host \notin gone
    /\ LET m == Head(toHost[g])
           L == lobby[Host]
           relay  == toGuest' = Sent(toGuest, peers \ {g}, <<m>>)
           resync == Broadcast(<<LobbyState(lobby'[Host])>>)
       IN  \/ m.k = "player-info" /\ Notify(Host, L) /\ resync /\ UNCHANGED <<peers, conn, noticed>>
           \/ m.k = "ready-toggle" /\ Notify(Host, Ready(L, g, m.ready)) /\ resync /\ UNCHANGED <<peers, conn, noticed>>
           \/ m.k = "player-move" /\ Notify(Host, Moved(L, m.id, m.clicks)) /\ relay /\ UNCHANGED <<peers, conn, noticed>>
           \/ m.k = "player-finish" /\ Notify(Host, Finished(L, m.id, m.clicks)) /\ relay /\ UNCHANGED <<peers, conn, noticed>>
           \/ m.k = "player-disconnect" /\ Dropped(g)
    /\ toHost' = [toHost EXCEPT ![g] = Tail(@)]
    /\ UNCHANGED <<gone, code, strays, sim, asking>>

\* What a message of the host makes of a guest's lobby.
Applied(L, m) ==
    CASE m.k = "lobby-state"    -> m.lobby
      [] m.k = "game-start"     -> [L EXCEPT !.started = TRUE, !.challenge = m.challenge, !.countdown = m.countdown]
      [] m.k = "countdown-tick" -> Countdown(L, m.countdown)
      [] m.k = "game-begin"     -> Begun(L)
      [] m.k = "player-move"    -> Moved(L, m.id, m.clicks)
      [] m.k = "player-finish"  -> Finished(L, m.id, m.clicks)

GuestReceives(g) ==
    /\ toGuest[g] # <<>> /\ InRoom(g) /\ <<g, g>> \notin noticed
    /\ IF Head(toGuest[g]).k = "player-disconnect" THEN HostLost(g)
       ELSE Notify(g, Applied(lobby[g], Head(toGuest[g]))) /\ UNCHANGED <<conn, noticed>>
    /\ toGuest' = [toGuest EXCEPT ![g] = Tail(@)]
    /\ UNCHANGED <<gone, peers, code, toHost, strays, sim, asking>>

------------------------------------------------------------------------------

Next ==
    \/ CreateRoom \/ StartGame \/ Tick \/ StartFakePlayerSimulation
    \/ \E g \in Guest : \/ JoinRoom(g) \/ AcceptJoin(g) \/ Accepted(g) \/ Unwritten(g) \/ CompleteJoin(g)
                       \/ Open(g) \/ Break(g) \/ StrayFails(g) \/ HostNotices(g) \/ GuestNotices(g) \/ ToggleReady(g)
                       \/ HostReceives(g) \/ GuestReceives(g)
    \/ \E b \in Browser : \/ Leave(b) \/ GoHome(b) \/ PlayAgain(b)
                         \/ ClickLink(b) \/ ClickTarget(b) \/ ClickBreadcrumb(b)
    \/ AskRandomChallenge
    \/ \E c \in Challenge \cup {None} : SetChallengeWords(c) \/ RandomChallenge(c)
    \/ \E f \in Fake : AddFakePlayer(f) \/ SimulateMove(f)

\* setInterval goes on, and channels deliver what they are given or close.
Fairness ==
    /\ WF_vars(Tick)
    /\ \A g \in Guest : /\ WF_vars(HostReceives(g)) /\ WF_vars(GuestReceives(g))
                       /\ WF_vars(HostNotices(g)) /\ WF_vars(GuestNotices(g))

Spec == Init /\ [][Next]_vars /\ Fairness
------------------------------------------------------------------------------
(* What it should do *)

PlayerType == [id : Browser \cup Fake, ready : BOOLEAN, clicks : Nat, finished : BOOLEAN]
LobbyType  == [players : Seq(PlayerType), challenge : Challenge \cup {None},
               started : BOOLEAN, countdown : Null .. 3]

\* The state is of its types: a countdown counts 3, 2, 1 and is over.
TypeOK ==
    /\ \A b \in Browser : lobby[b] \in LobbyType
    /\ game \in [Browser -> [screen : {"home", "lobby", "game"}, playing : BOOLEAN, clicks : Nat,
                            timer : BOOLEAN, modal : BOOLEAN]]
    /\ gone \subseteq Browser /\ peers \subseteq Guest /\ bots \subseteq Fake
    /\ conn \in [Guest -> {"none", "offered", "accepting", "accepted", "completed", "open", "closed"}]
    /\ ticks \in Seq(1 .. 3) /\ strays \in [Guest -> Nat]

\* The host's roster is the host, the guests it holds a connection to and the
\* fake players, however joins, leaves and failures interleave; each once, but
\* for a guest that was entered, could not be sent a code and was tried again,
\* while that first connection has not failed.
RosterIsPeers ==
    InRoom(Host) =>
        /\ Ids(lobby[Host]) \ Fake = {Host} \cup peers
        /\ LET ps == lobby[Host].players
           IN  \A i, j \in DOMAIN ps : ps[i].id = ps[j].id /\ i # j =>
                   \E g \in Guest : g = ps[i].id /\ strays[g] > 0

\* The room holds together whoever comes and goes.
RoomSound == TypeOK /\ RosterIsPeers

\* Nothing is on its way between the host and guest g.
Quiet(g) == /\ conn[g] = "open" /\ g \in peers /\ Host \notin gone
            /\ toHost[g] = <<>> /\ toGuest[g] = <<>>

Real(L) == Those(L.players, Browser)

\* When nothing is on its way, a guest's lobby is the host's: the challenge,
\* the countdown, the players and how far each has come, but for the fake
\* players (the guests are not told) and the guest's own progress.
Mirrors ==
    \A g \in Guest : Quiet(g) =>
        LET H == Real(lobby[Host])
            G == Real(lobby[g])
        IN  /\ <<lobby[g].challenge, lobby[g].started, lobby[g].countdown>>
                 = <<lobby[Host].challenge, lobby[Host].started, lobby[Host].countdown>>
            /\ Len(G) = Len(H)
            /\ \A i \in DOMAIN H : IF H[i].id = g THEN G[i].id = g /\ G[i].ready = H[i].ready
                                   ELSE G[i] = H[i]

\* Nobody, host or guest, is in the first race while its countdown runs.
NoHeadStart == (starts <= 1 /\ \E b \in Browser : game[b].playing) => ticks = <<>>

\* When a guest has come to the target and nothing is on its way, the host
\* counts it as finished, whatever lobbies crossed its report.
FinishKnown ==
    \A g \in Guest : (starts = 1 /\ Quiet(g) /\ game[g].playing /\ ~game[g].timer)
                        => Entry(lobby[Host], g).finished

\* A guest that is connected while a countdown runs comes to race, unless its
\* connection closes.
CountdownReachesGuests ==
    \A g \in Guest :
        (ticks # <<>> /\ Host \notin gone /\ g \in peers /\ conn[g] = "open" /\ lobby[Host].started)
            ~> (game[g].playing \/ conn[g] = "closed")

\* A guest that has left is at last no player of the host's lobby any more.
LeaversForgotten ==
    \A g \in Guest : (g \in gone /\ Host \notin gone) ~> g \notin Ids(lobby[Host])

\* What happens in the room gets through: a start to every guest that stays,
\* and to the host that a guest has not stayed.
EventsArrive == CountdownReachesGuests /\ LeaversForgotten
=============================================================================
