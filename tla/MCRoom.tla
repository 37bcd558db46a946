------------------------------- MODULE MCRoom -------------------------------
(* An instance of Room for TLC: every join, start and race, with at most      *)
(* Budget of the things that need not happen: taking back that one is ready,  *)
(* another start, leaving, a broken connection, going back, a fake player.    *)
(* Of two guests, who come one after the other, only one connection breaks,   *)
(* and only the first one clicks before the target; of a single guest and the *)
(* host, only the host.                                                       *)
EXTENDS Room

CONSTANTS Budget, First, Second

VARIABLES spent, party
allvars == <<vars, spent, party>>

Extra ==
    \/ \E b \in Browser : Leave(b) \/ GoHome(b) \/ PlayAgain(b) \/ ClickBreadcrumb(b)
    \/ \E g \in Guest : ToggleReady(g) /\ Entry(lobby[g], g).ready
    \/ \E c \in Challenge \cup {None} : SetChallengeWords(c) /\ lobby[Host].challenge # None
    \/ StartGame /\ starts > 0
    \/ AskRandomChallenge

Expected ==
    \/ CreateRoom \/ Tick \/ StartFakePlayerSimulation
    \/ StartGame /\ starts = 0
    \/ \E g \in party : \/ JoinRoom(g) /\ (g = Second => conn[First] # "none")
                        \/ AcceptJoin(g) /\ (g = Second => conn[First] \notin {"offered", "accepting"})
    \/ \E g \in Guest : \/ Accepted(g) \/ CompleteJoin(g) \/ Open(g)
                       \/ HostNotices(g) \/ StrayFails(g) \/ GuestNotices(g) \/ HostReceives(g) \/ GuestReceives(g)
                       \/ (ToggleReady(g) /\ ~Entry(lobby[g], g).ready)
    \/ \E b \in Browser : \/ ClickLink(b) /\ b = (IF party = Guest THEN First ELSE Host)
                         \/ ClickTarget(b)
    \/ \E c \in Challenge : SetChallengeWords(c) /\ lobby[Host].challenge = None
    \/ \E c \in Challenge : RandomChallenge(c)
    \/ \E f \in Fake : SimulateMove(f)

\* The fake players' turn has come and there are none: nothing depends on when.
Idle == due > Len(ticks) /\ Fakes = {}

MCNext ==
    /\ Idle => StartFakePlayerSimulation
    /\ \/ Expected /\ UNCHANGED spent
       \/ Extra /\ party = {First} /\ spent < Budget /\ spent' = spent + 1
       \/ \E f \in Fake : AddFakePlayer(f) /\ party = {First} /\ spent = 0 /\ spent' = Budget
       \/ Break(First) /\ spent < Budget /\ spent' = Budget
       \/ Unwritten(IF party = Guest THEN Second ELSE First) /\ spent < Budget /\ spent' = Budget
    /\ UNCHANGED party
MCInit == Init /\ spent = 0 /\ debug = TRUE /\ party \in {{First}, Guest}
MCSpec == MCInit /\ [][MCNext]_allvars /\ Fairness
=============================================================================
