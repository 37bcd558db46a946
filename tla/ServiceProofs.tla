----------------------------- MODULE ServiceProofs -----------------------------
(***************************************************************************)
(* What the parts of OpenGET that run beside each other promise at every    *)
(* moment, for any callers, processes, items, browsers, and for every bound. *)
(* Each part has an invariant of its own, which its steps keep. And what the *)
(* lists and the pages say of fees and flips, for every price.               *)
(***************************************************************************)
EXTENDS Service, Sequences, FiniteSetTheorems, WellFoundedInduction, TLAPS

\* The parts count as this module does.
LEMMA SameCount ==
    /\ \A S : SC!Cardinality(S) = Cardinality(S)
    /\ \A S : BF!Cardinality(S) = Cardinality(S)
    /\ \A S : MT!Cardinality(S) = Cardinality(S)
<1>1. \A S : SC!Cardinality(S) = Cardinality(S)
  BY DEF SC!Cardinality, Cardinality
<1>2. \A S : BF!Cardinality(S) = Cardinality(S)
  BY DEF BF!Cardinality, Cardinality
<1>3. \A S : MT!Cardinality(S) = Cardinality(S)
  BY DEF MT!Cardinality, Cardinality
<1> QED
  BY <1>1, <1>2, <1>3

-------------------------------------------------------------------------------
(***************************************************************************)
(* The feed                                                                *)
(***************************************************************************)

FeedPlace == [Endpoint -> {"idle", "store", "stats"}]

LEMMA FeedInit == Init => TypeOK
BY ConstantsAssumption DEF Init, TypeOK, Known, Endpoint

\* The places of one process change.
LEMMA OnePlace ==
    ASSUME TypeOK, NEW p \in Process, NEW s \in FeedPlace, s["mapping"] # "stats", pc' = [pc EXCEPT ![p] = s]
    PROVE  /\ pc' \in [Process -> [Endpoint -> {"idle", "store", "stats"}]]
           /\ \A q \in Process : pc'[q]["mapping"] # "stats"
BY DEF TypeOK, FeedPlace

LEMMA FeedStep == TypeOK /\ [Next]_vars => TypeOK'
<1> SUFFICES ASSUME TypeOK, [Next]_vars PROVE TypeOK'
  OBVIOUS
<1> DEFINE PcOK == /\ pc \in [Process -> [Endpoint -> {"idle", "store", "stats"}]]
                   /\ \A q \in Process : pc[q]["mapping"] # "stats"
<1>1. pc' = pc => PcOK'
  BY DEF TypeOK
<1>2. ASSUME NEW p \in Process, NEW e \in Endpoint, NEW w \in {"idle", "store"},
             pc' = [pc EXCEPT ![p][e] = w]
      PROVE  PcOK'
  <2> DEFINE s == [pc[p] EXCEPT ![e] = w]
  <2>1. s \in FeedPlace /\ s["mapping"] # "stats"
    BY DEF TypeOK, FeedPlace
  <2>2. pc' = [pc EXCEPT ![p] = s]
    BY <1>2 DEF TypeOK
  <2> HIDE DEF s
  <2> QED
    BY <2>1, <2>2, OnePlace
<1>3. ASSUME NEW c \in SUBSET Item, PublishMapping(c) PROVE TypeOK'
  <2>1. fresh' \in [Process -> [Endpoint -> BOOLEAN]]
    BY <1>3 DEF PublishMapping, TypeOK, Endpoint
  <2> QED
    BY <1>3, <2>1 DEF PublishMapping, TypeOK, database, Known
<1>4. CASE PublishLatest
  <2>1. fresh' \in [Process -> [Endpoint -> BOOLEAN]]
    BY <1>4 DEF PublishLatest, TypeOK, Endpoint
  <2> QED
    BY <1>4, <2>1 DEF PublishLatest, TypeOK, database, Known
<1>5. ASSUME NEW p \in Process, NEW e \in Endpoint, Fetch(p, e) PROVE TypeOK'
  <2>1. fresh' \in [Process -> [Endpoint -> BOOLEAN]] /\ payload' \in [Process -> SUBSET Item]
    BY <1>5 DEF Fetch, TypeOK
  <2>2. PcOK'
    BY <1>5, <1>2 DEF Fetch
  <2> QED
    BY <1>5, <2>1, <2>2 DEF Fetch, TypeOK, database, Known
<1>6. ASSUME NEW p \in Process, NEW e \in Endpoint, FetchBreaksOff(p, e) PROVE TypeOK'
  <2>1. troubles' \in 0 .. MaxTroubles
    BY <1>6, ConstantsAssumption DEF FetchBreaksOff, TypeOK
  <2> QED
    BY <1>6, <2>1 DEF FetchBreaksOff, TypeOK, database, Known
<1>7. ASSUME NEW p \in Process, StoreMapping(p) PROVE TypeOK'
  <2>1. PcOK'
    BY <1>7, <1>2 DEF StoreMapping, Endpoint
  <2>2. /\ items' \in [Item -> {"absent", "listed", "removed"}]
        /\ Known \subseteq Known'
        /\ payload' \in [Process -> SUBSET Item]
    BY <1>7 DEF StoreMapping, TypeOK, Known
  <2> QED
    BY <1>7, <2>1, <2>2 DEF StoreMapping, TypeOK
<1>8. ASSUME NEW p \in Process, StoreLatest(p) PROVE TypeOK'
  <2> DEFINE s == [pc[p] EXCEPT !["latest"] = "stats"]
  <2>1. s \in FeedPlace /\ s["mapping"] # "stats"
    BY DEF TypeOK, FeedPlace, Endpoint
  <2>2. pc' = [pc EXCEPT ![p] = s]
    BY <1>8 DEF TypeOK, StoreLatest
  <2> HIDE DEF s
  <2>3. PcOK'
    BY <2>1, <2>2, OnePlace
  <2> QED
    BY <1>8, <2>3 DEF StoreLatest, TypeOK, Known
<1>9. ASSUME NEW p \in Process, Recompute(p) PROVE TypeOK'
  <2>1. PcOK'
    BY <1>9, <1>2 DEF Recompute, Endpoint
  <2> QED
    BY <1>9, <2>1 DEF Recompute, TypeOK, Known
<1>10. ASSUME NEW p \in Process, NEW e \in Endpoint, WriteFails(p, e) PROVE TypeOK'
  <2>1. PcOK'
    BY <1>10, <1>2 DEF WriteFails
  <2>2. troubles' \in 0 .. MaxTroubles
    BY <1>10, ConstantsAssumption DEF WriteFails, TypeOK
  <2>3. payload' \in [Process -> SUBSET Item]
    BY <1>10 DEF WriteFails, TypeOK
  <2> QED
    BY <1>10, <2>1, <2>2, <2>3 DEF WriteFails, TypeOK, database, Known
<1>11. ASSUME NEW p \in Process, Restart(p) PROVE TypeOK'
  <2> DEFINE s == [e \in Endpoint |-> "idle"]
  <2>1. s \in FeedPlace /\ s["mapping"] # "stats"
    BY DEF FeedPlace, Endpoint
  <2>2. pc' = [pc EXCEPT ![p] = s]
    BY <1>11 DEF Restart
  <2> HIDE DEF s
  <2>3. PcOK'
    BY <2>1, <2>2, OnePlace
  <2>4. troubles' \in 0 .. MaxTroubles
    BY <1>11, ConstantsAssumption DEF Restart, TypeOK
  <2>5. payload' \in [Process -> SUBSET Item] /\ fresh' \in [Process -> [Endpoint -> BOOLEAN]]
    BY <1>11 DEF Restart, TypeOK
  <2> QED
    BY <1>11, <2>3, <2>4, <2>5 DEF Restart, TypeOK, database, Known
<1>12. CASE UNCHANGED vars
  BY <1>12 DEF vars, TypeOK, Known
<1> QED
  BY <1>3, <1>4, <1>5, <1>6, <1>7, <1>8, <1>9, <1>10, <1>11, <1>12 DEF Next, Job

-------------------------------------------------------------------------------
(***************************************************************************)
(* The request limiter                                                     *)
(***************************************************************************)

\* Slots a request was sent at, or could have been.
Spent == {k \in DOMAIN slots :
            /\ slots[k] =< now
            /\ \A c \in Caller : ~ (call[c].pc = "wait" /\ call[c].at = slots[k])}

\* What slots a gap apart rest on: the limiter never hands out a slot before
\* `next`, which is the gap after everything it has handed out.
SlotsInv ==
    /\ now \in Nat /\ next \in Nat /\ slots \in Seq(Nat)
    /\ \A j \in DOMAIN slots : slots[j] + Gap =< next
    /\ LM!SlotsApart

\* The slots are at least as far on as the gaps between them.
PaceInv ==
    /\ now > 0
    /\ \A k \in DOMAIN slots : 1 + (k - 1) * Gap =< slots[k]
    /\ 1 + Len(slots) * Gap =< next \/ Len(slots) = 0

\* What the rate rests on: who waits has a slot of its own, and each request
\* was sent at another slot.
RateInv ==
    /\ \A c \in Caller : call[c].pc = "wait" => \E k \in DOMAIN slots : call[c].at = slots[k]
    /\ Gap > 0 =>
        /\ \A c, d \in Caller : c # d /\ call[c].pc = "wait" /\ call[d].pc = "wait" => call[c].at # call[d].at
        /\ sent =< Cardinality(Spent)

LimiterInv == SlotsInv /\ PaceInv /\ RateInv

LEMMA LimiterConstants == Gap \in Nat
BY PartsAssumption DEF LM!LimiterAssumption

\* What a slot that is handed out leaves behind.
LEMMA Appended ==
    ASSUME SlotsInv, NEW at \in Nat, at >= next
    PROVE  /\ Append(slots, at) \in Seq(Nat)
           /\ \A j \in DOMAIN Append(slots, at) : Append(slots, at)[j] + Gap =< at + Gap
           /\ \A j \in DOMAIN Append(slots, at), i \in DOMAIN Append(slots, at) :
                  i < j => Append(slots, at)[j] >= Append(slots, at)[i] + Gap
<1>1. slots \in Seq(Nat) /\ Gap \in Nat /\ next \in Nat
  BY LimiterConstants DEF SlotsInv
<1>2. \A k \in 1 .. Len(slots) : slots[k] \in Nat /\ slots[k] + Gap =< next
  BY <1>1 DEF SlotsInv
<1>3. \A j \in 1 .. Len(slots), i \in 1 .. Len(slots) : i < j => slots[j] >= slots[i] + Gap
  BY <1>1 DEF SlotsInv, LM!SlotsApart
<1>4. /\ DOMAIN Append(slots, at) = 1 .. Len(slots) + 1
      /\ \A k \in 1 .. Len(slots) : Append(slots, at)[k] = slots[k]
      /\ Append(slots, at)[Len(slots) + 1] = at
      /\ Append(slots, at) \in Seq(Nat) /\ Len(slots) \in Nat
  BY <1>1
<1>5. \A j \in 1 .. Len(slots) + 1 : j \in 1 .. Len(slots) \/ j = Len(slots) + 1
  BY <1>4
<1>6. \A j \in DOMAIN Append(slots, at) : Append(slots, at)[j] + Gap =< at + Gap
  BY <1>1, <1>2, <1>4, <1>5
<1>7. ASSUME NEW j \in DOMAIN Append(slots, at), NEW i \in DOMAIN Append(slots, at), i < j
      PROVE  Append(slots, at)[j] >= Append(slots, at)[i] + Gap
  <2>1. i \in 1 .. Len(slots)
    BY <1>4, <1>5, <1>7
  <2>2. CASE j = Len(slots) + 1
    BY <1>1, <1>2, <1>4, <2>1, <2>2
  <2>3. CASE j \in 1 .. Len(slots)
    BY <1>3, <1>4, <1>7, <2>1, <2>3
  <2> QED
    BY <1>4, <1>5, <2>2, <2>3
<1> QED
  BY <1>4, <1>6, <1>7

LEMMA SlotsStep == SlotsInv /\ [LM!Next]_limitervars => SlotsInv'
<1> SUFFICES ASSUME SlotsInv, [LM!Next]_limitervars PROVE SlotsInv'
  OBVIOUS
<1>1. ASSUME NEW c \in Caller, LM!Take(c) PROVE SlotsInv'
  <2> DEFINE at == LM!Later(next, now)
  <2>1. at \in Nat /\ at >= next
    BY DEF SlotsInv, LM!Later
  <2>2. next' = at + Gap /\ slots' = Append(slots, at) /\ now' = now
    BY <1>1 DEF LM!Take
  <2>3. next' \in Nat /\ now' \in Nat
    BY <2>1, <2>2, LimiterConstants DEF SlotsInv
  <2> HIDE DEF at
  <2> QED
    BY <2>1, <2>2, <2>3, Appended DEF SlotsInv, LM!SlotsApart
<1>2. CASE LM!Tick
  BY <1>2 DEF LM!Tick, SlotsInv, LM!SlotsApart
<1>3. ASSUME NEW c \in Caller,
             LM!Ask(c) \/ LM!Send(c) \/ LM!Answer(c) \/ LM!Fail(c) \/ LM!Retry(c) \/ LM!Cancel(c)
      PROVE  SlotsInv'
  BY <1>3 DEF LM!Ask, LM!Send, LM!Answer, LM!Fail, LM!Retry, LM!Cancel, SlotsInv, LM!SlotsApart
<1>4. CASE UNCHANGED limitervars
  BY <1>4 DEF limitervars, SlotsInv, LM!SlotsApart
<1> QED
  BY <1>1, <1>2, <1>3, <1>4 DEF LM!Next

\* Where a call may be: one that will try again has a try left.
Place ==
    {s \in [pc : {"idle", "take", "wait", "sent", "backoff"}, tries : 0 .. LM!Attempts, at : Nat] :
        s.pc = "backoff" => s.tries < LM!Attempts}

CallInv == LM!TypeOK /\ call \in [Caller -> Place]

LEMMA CallStep == SlotsInv' /\ CallInv /\ [LM!Next]_limitervars => CallInv'
<1> SUFFICES ASSUME SlotsInv', CallInv, [LM!Next]_limitervars PROVE CallInv'
  OBVIOUS
<1>0. /\ now \in Nat /\ next \in Nat /\ slots \in Seq(Nat) /\ sent \in Nat /\ Gap \in Nat
      /\ call \in [Caller -> Place]
  BY LimiterConstants DEF CallInv, LM!TypeOK
<1>1. now' \in Nat /\ next' \in Nat /\ slots' \in Seq(Nat) /\ sent' \in Nat
  <2>1. sent' \in {sent, sent + 1}
    BY DEF LM!Next, LM!Ask, LM!Take, LM!Send, LM!Answer, LM!Fail, LM!Retry, LM!Cancel, LM!Tick, limitervars
  <2> QED
    BY <1>0, <2>1 DEF SlotsInv
<1>2. LM!Idle \in Place
  BY DEF LM!Idle, Place, LM!Attempts
<1>3. ASSUME NEW c \in Caller, LM!Ask(c) \/ LM!Answer(c) \/ LM!Cancel(c) PROVE call' \in [Caller -> Place]
  <2>1. [pc |-> "take", tries |-> 1, at |-> 0] \in Place
    BY DEF Place, LM!Attempts
  <2> QED
    BY <1>0, <1>2, <1>3, <2>1 DEF LM!Ask, LM!Answer, LM!Cancel
<1>4. ASSUME NEW c \in Caller, LM!Take(c) PROVE call' \in [Caller -> Place]
  <2> DEFINE at == LM!Later(next, now)
             s  == [call[c] EXCEPT !.pc = "wait", !.at = at]
  <2>1. at \in Nat
    BY <1>0 DEF LM!Later
  <2>2. call' = [call EXCEPT ![c] = s]
    BY <1>4, <1>0 DEF LM!Take
  <2>3. s \in Place
    BY <1>0, <2>1 DEF Place
  <2> HIDE DEF s
  <2> QED
    BY <1>0, <2>2, <2>3
<1>5. ASSUME NEW c \in Caller, LM!Send(c) PROVE call' \in [Caller -> Place]
  BY <1>0, <1>5 DEF LM!Send, Place
<1>6. ASSUME NEW c \in Caller, LM!Fail(c) PROVE call' \in [Caller -> Place]
  <2>1. call[c].tries \in 0 .. 3
    BY <1>0 DEF Place, LM!Attempts
  <2>2. CASE call[c].tries = 3
    BY <1>0, <1>2, <1>6, <2>2 DEF LM!Fail, LM!Attempts
  <2>3. CASE call[c].tries # 3
    <3>1. now + 2^call[c].tries \in Nat
      <4>1. 2^0 \in Nat /\ 2^1 \in Nat /\ 2^2 \in Nat
        OBVIOUS
      <4>2. call[c].tries \in {0, 1, 2}
        BY <2>1, <2>3
      <4>3. 2^call[c].tries \in Nat
        BY <4>1, <4>2
      <4> QED
        BY <1>0, <4>3
    <3>2. [pc |-> "backoff", tries |-> call[c].tries, at |-> now + 2^call[c].tries] \in Place
      BY <2>1, <2>3, <3>1 DEF Place, LM!Attempts
    <3> QED
      BY <1>0, <1>6, <2>3, <3>2 DEF LM!Fail, LM!Attempts
  <2> QED
    BY <2>2, <2>3
<1>7. ASSUME NEW c \in Caller, LM!Retry(c) PROVE call' \in [Caller -> Place]
  <2>1. call[c].tries + 1 \in 0 .. LM!Attempts
    <3>1. call[c] \in Place /\ call[c].pc = "backoff"
      BY <1>0, <1>7 DEF LM!Retry
    <3>2. call[c].tries \in 0 .. 3 /\ call[c].tries < 3
      BY <3>1 DEF Place, LM!Attempts
    <3> QED
      BY <3>2 DEF LM!Attempts
  <2>2. [pc |-> "take", tries |-> call[c].tries + 1, at |-> 0] \in Place
    BY <2>1 DEF Place
  <2> QED
    BY <1>0, <1>7, <2>2 DEF LM!Retry
<1>8. ASSUME LM!Tick \/ UNCHANGED limitervars PROVE call' \in [Caller -> Place]
  <2>1. call' = call
    BY <1>8 DEF LM!Tick, limitervars
  <2> QED
    BY <1>0, <2>1
<1>9. call' \in [Caller -> Place]
  BY <1>3, <1>4, <1>5, <1>6, <1>7, <1>8 DEF LM!Next
<1>10. LM!TypeOK'
  BY <1>1, <1>9 DEF LM!TypeOK, Place
<1> QED
  BY <1>9, <1>10 DEF CallInv


\* Products with the gap keep their order.
LEMMA Gaps ==
    /\ \A n \in Int : n * Gap \in Int /\ (n + 1) * Gap = n * Gap + Gap
    /\ \A m, n \in Int : m =< n => m * Gap =< n * Gap
<1>1. Gap \in Nat
  BY LimiterConstants
<1>2. ASSUME NEW m \in Int, NEW n \in Int, m =< n PROVE m * Gap =< n * Gap
  <2>1. n - m \in Nat /\ (n - m) * Gap \in Nat
    BY <1>1, <1>2
  <2>2. n * Gap = m * Gap + (n - m) * Gap
    BY <1>1
  <2>3. m * Gap \in Int /\ n * Gap \in Int
    BY <1>1
  <2> QED
    BY <2>1, <2>2, <2>3
<1> QED
  BY <1>1, <1>2

LEMMA PaceStep == CallInv /\ SlotsInv /\ PaceInv /\ [LM!Next]_limitervars => PaceInv'
<1> SUFFICES ASSUME CallInv, SlotsInv, PaceInv, [LM!Next]_limitervars PROVE PaceInv'
  OBVIOUS
<1>0. now \in Nat /\ next \in Nat /\ slots \in Seq(Nat) /\ Gap \in Nat /\ Len(slots) \in Nat
  BY LimiterConstants DEF SlotsInv
<1>1. ASSUME NEW c \in Caller, LM!Take(c) PROVE PaceInv'
  <2> DEFINE at == LM!Later(next, now)
             n  == Len(slots)
  <2>1. at \in Nat /\ at >= next /\ at >= 1
    BY <1>0 DEF PaceInv, LM!Later
  <2>2. next' = at + Gap /\ slots' = Append(slots, at) /\ now' = now
    BY <1>1 DEF LM!Take
  <2> HIDE DEF at
  <2>3. /\ Len(slots') = n + 1 /\ slots'[n + 1] = at
        /\ \A k \in 1 .. n : slots'[k] = slots[k]
        /\ DOMAIN slots = 1 .. n /\ DOMAIN slots' = 1 .. n + 1
    BY <1>0, <2>1, <2>2
  <2>4. 1 + n * Gap =< at
    <3>1. CASE n = 0
      <4>1. n * Gap = 0
        BY <1>0, <3>1
      <4> QED
        BY <2>1, <4>1
    <3>2. CASE n # 0
      <4>1. 1 + n * Gap =< next
        BY <3>2 DEF PaceInv
      <4> QED
        BY <1>0, <2>1, <4>1, Gaps
    <3> QED
      BY <3>1, <3>2
  <2>5. ASSUME NEW k \in DOMAIN slots' PROVE 1 + (k - 1) * Gap =< slots'[k]
    <3>1. CASE k \in 1 .. n
      BY <2>3, <3>1 DEF PaceInv
    <3>2. CASE k = n + 1
      <4>1. k - 1 = n
        BY <1>0, <3>2
      <4> QED
        BY <2>3, <2>4, <3>2, <4>1
    <3> QED
      BY <1>0, <2>3, <2>5, <3>1, <3>2
  <2>6. 1 + Len(slots') * Gap =< next'
    <3>1. n \in Int /\ n * Gap \in Int /\ (n + 1) * Gap = n * Gap + Gap
      BY <1>0, Gaps
    <3>2. 1 + (n * Gap + Gap) =< at + Gap
      BY <1>0, <2>1, <2>4, <3>1
    <3> QED
      BY <2>2, <2>3, <3>1, <3>2
  <2> QED
    BY <1>0, <2>2, <2>5, <2>6 DEF PaceInv
<1>2. ASSUME now' \in {now, now + 1}, UNCHANGED <<next, slots>> PROVE PaceInv'
  <2>1. now' > 0
    BY <1>0, <1>2 DEF PaceInv, SlotsInv
  <2> QED
    BY <1>2, <2>1 DEF PaceInv
<1>3. CASE LM!Tick
  BY <1>0, <1>2, <1>3 DEF LM!Tick
<1>4. ASSUME NEW c \in Caller,
             LM!Ask(c) \/ LM!Send(c) \/ LM!Answer(c) \/ LM!Fail(c) \/ LM!Retry(c) \/ LM!Cancel(c)
      PROVE  PaceInv'
  BY <1>0, <1>2, <1>4 DEF LM!Ask, LM!Send, LM!Answer, LM!Fail, LM!Retry, LM!Cancel
<1>5. CASE UNCHANGED limitervars
  BY <1>0, <1>2, <1>5 DEF limitervars
<1> QED
  BY <1>1, <1>3, <1>4, <1>5 DEF LM!Next

LEMMA SpentFinite ==
    ASSUME slots \in Seq(Nat)
    PROVE  /\ IsFiniteSet(1 .. Len(slots))
           /\ IsFiniteSet(Spent) /\ Cardinality(Spent) \in Nat
           /\ Spent \subseteq 1 .. Len(slots)
<1>1. Spent \subseteq 1 .. Len(slots)
  BY DEF Spent
<1>2. IsFiniteSet(1 .. Len(slots))
  BY FS_Interval
<1> QED
  BY <1>1, <1>2, FS_Subset, FS_CardinalityType

\* As long as nobody begins to wait and no request is sent, what was spent is
\* spent.
LEMMA RateRests ==
    ASSUME CallInv, SlotsInv, RateInv, slots' = slots, sent' = sent, now' \in {now, now + 1},
           \A c \in Caller : call'[c].pc = "wait" => call[c].pc = "wait" /\ call'[c].at = call[c].at
    PROVE  RateInv'
<1>1. Spent \subseteq Spent'
  <2>1. \A k \in DOMAIN slots : slots[k] \in Nat
    BY DEF SlotsInv
  <2> QED
    BY <2>1 DEF Spent, SlotsInv
<1>2. Cardinality(Spent) =< Cardinality(Spent') /\ Cardinality(Spent) \in Nat /\ Cardinality(Spent') \in Nat
  <2>1. Spent' \subseteq 1 .. Len(slots)
    BY DEF Spent
  <2>2. IsFiniteSet(Spent') /\ IsFiniteSet(Spent)
    BY <2>1, SpentFinite, FS_Subset DEF SlotsInv
  <2> QED
    BY <1>1, <2>2, FS_Subset, FS_CardinalityType
<1>3. Gap > 0 => sent' =< Cardinality(Spent')
  <2>1. sent \in Nat
    BY DEF CallInv, LM!TypeOK
  <2> QED
    BY <1>2, <2>1 DEF RateInv
<1>4. \A c \in Caller : call'[c].pc = "wait" => \E k \in DOMAIN slots' : call'[c].at = slots'[k]
  BY DEF RateInv
<1>5. Gap > 0 => \A c, d \in Caller :
         c # d /\ call'[c].pc = "wait" /\ call'[d].pc = "wait" => call'[c].at # call'[d].at
  BY DEF RateInv
<1> QED
  BY <1>3, <1>4, <1>5 DEF RateInv

\* A new slot is after those anybody waits for, and after those that were spent.
LEMMA RateTake ==
    ASSUME CallInv, SlotsInv, SlotsInv', RateInv, NEW c \in Caller, LM!Take(c)
    PROVE  RateInv'
<1> DEFINE at == LM!Later(next, now)
           n  == Len(slots)
<1>0. /\ now \in Nat /\ next \in Nat /\ slots \in Seq(Nat) /\ Gap \in Nat /\ n \in Nat
      /\ at \in Nat /\ at >= next /\ sent \in Nat
  BY LimiterConstants DEF SlotsInv, LM!Later, CallInv, LM!TypeOK
<1>1. /\ slots' = Append(slots, at) /\ now' = now /\ sent' = sent
      /\ call'[c].pc = "wait" /\ call'[c].at = at
      /\ \A d \in Caller \ {c} : call'[d] = call[d]
  <2>1. call \in [Caller -> Place] /\ call[c] \in Place
    BY DEF CallInv
  <2>2. call[c] \in [pc : {"idle", "take", "wait", "sent", "backoff"}, tries : 0 .. LM!Attempts, at : Nat]
    BY <2>1 DEF Place
  <2> QED
    BY <2>1, <2>2 DEF LM!Take
<1> HIDE DEF at
<1>2. /\ DOMAIN slots = 1 .. n /\ DOMAIN slots' = 1 .. n + 1
      /\ slots'[n + 1] = at
      /\ \A k \in 1 .. n : slots'[k] = slots[k] /\ slots[k] \in Nat /\ slots[k] + Gap =< next
  BY <1>0, <1>1 DEF SlotsInv
<1>3. \A d \in Caller : call'[d].pc = "wait" => \E k \in DOMAIN slots' : call'[d].at = slots'[k]
  <2>1. n + 1 \in DOMAIN slots' /\ \A k \in DOMAIN slots : k \in DOMAIN slots'
    BY <1>0, <1>2
  <2> QED
    BY <1>1, <1>2, <2>1 DEF RateInv
<1>4. ASSUME Gap > 0 PROVE \A k \in 1 .. n : slots[k] # at
  BY <1>0, <1>2, <1>4
<1>5. ASSUME Gap > 0, NEW d \in Caller, NEW e \in Caller, d # e, call'[d].pc = "wait", call'[e].pc = "wait"
      PROVE  call'[d].at # call'[e].at
  <2>1. ASSUME NEW f \in Caller \ {c}, call[f].pc = "wait" PROVE call[f].at # at
    BY <1>2, <1>4, <1>5, <2>1 DEF RateInv
  <2>2. CASE d = c
    BY <1>1, <1>5, <2>1, <2>2
  <2>3. CASE e = c
    BY <1>1, <1>5, <2>1, <2>3
  <2>4. CASE d # c /\ e # c
    BY <1>1, <1>5, <2>4 DEF RateInv
  <2> QED
    BY <2>2, <2>3, <2>4
<1>6. ASSUME Gap > 0 PROVE sent' =< Cardinality(Spent')
  <2>1. Spent \subseteq Spent'
    <3> SUFFICES ASSUME NEW k \in Spent PROVE k \in Spent'
      OBVIOUS
    <3>1. k \in 1 .. n /\ k \in DOMAIN slots' /\ slots'[k] = slots[k] /\ slots[k] # at
      BY <1>0, <1>2, <1>4, <1>6 DEF Spent
    <3> QED
      BY <1>1, <3>1 DEF Spent
  <2>2. slots' \in Seq(Nat) /\ Spent' \subseteq 1 .. n + 1
    BY <1>2 DEF SlotsInv, Spent
  <2>3. IsFiniteSet(Spent) /\ IsFiniteSet(Spent')
    <3>1. n + 1 \in Int /\ 1 \in Int
      BY <1>0
    <3>2. IsFiniteSet(1 .. n + 1)
      BY <3>1, FS_Interval
    <3> QED
      BY <1>0, <2>2, <3>2, SpentFinite, FS_Subset
  <2>4. Cardinality(Spent) =< Cardinality(Spent') /\ Cardinality(Spent) \in Nat /\ Cardinality(Spent') \in Nat
    BY <2>1, <2>3, FS_Subset, FS_CardinalityType
  <2> QED
    BY <1>0, <1>1, <1>6, <2>4 DEF RateInv
<1> QED
  BY <1>3, <1>5, <1>6 DEF RateInv

\* A request is sent at a slot that was not spent.
LEMMA RateSend ==
    ASSUME CallInv, SlotsInv, RateInv, NEW c \in Caller, LM!Send(c)
    PROVE  RateInv'
<1>0. /\ now \in Nat /\ slots \in Seq(Nat) /\ sent \in Nat /\ call \in [Caller -> Place]
  BY DEF SlotsInv, CallInv, LM!TypeOK
<1>1. /\ slots' = slots /\ now' = now /\ sent' = sent + 1
      /\ call[c].pc = "wait" /\ call[c].at =< now
      /\ call'[c].pc = "sent"
      /\ \A d \in Caller \ {c} : call'[d] = call[d]
  <2>1. call[c] \in [pc : {"idle", "take", "wait", "sent", "backoff"}, tries : 0 .. LM!Attempts, at : Nat]
    BY <1>0 DEF Place
  <2> QED
    BY <1>0, <2>1 DEF LM!Send
<1>2. \A d \in Caller : call'[d].pc = "wait" => d # c /\ call[d].pc = "wait" /\ call'[d].at = call[d].at
  BY <1>1
<1>3. ASSUME Gap > 0 PROVE sent' =< Cardinality(Spent')
  <2>1. PICK k \in DOMAIN slots : call[c].at = slots[k]
    BY <1>1 DEF RateInv
  <2>2. k \notin Spent /\ Spent \cup {k} \subseteq Spent'
    <3>1. k \notin Spent
      BY <1>1, <2>1 DEF Spent
    <3>2. k \in Spent'
      BY <1>1, <1>2, <1>3, <2>1 DEF Spent, RateInv
    <3>3. Spent \subseteq Spent'
      BY <1>1, <1>2 DEF Spent
    <3> QED
      BY <3>1, <3>2, <3>3
  <2>3. IsFiniteSet(Spent) /\ IsFiniteSet(Spent')
    <3>1. Spent' \subseteq 1 .. Len(slots)
      BY <1>0, <1>1 DEF Spent
    <3> QED
      BY <1>0, <3>1, SpentFinite, FS_Subset
  <2>4. /\ Cardinality(Spent \cup {k}) = Cardinality(Spent) + 1
        /\ Cardinality(Spent \cup {k}) =< Cardinality(Spent')
        /\ Cardinality(Spent) \in Nat /\ Cardinality(Spent') \in Nat
    BY <2>2, <2>3, FS_AddElement, FS_Subset, FS_CardinalityType
  <2> QED
    BY <1>0, <1>1, <1>3, <2>4 DEF RateInv
<1> QED
  BY <1>1, <1>2, <1>3 DEF RateInv

LEMMA LimiterStep == CallInv /\ LimiterInv /\ [LM!Next]_limitervars => CallInv' /\ LimiterInv'
<1> SUFFICES ASSUME CallInv, LimiterInv, [LM!Next]_limitervars PROVE CallInv' /\ LimiterInv'
  OBVIOUS
<1>1. SlotsInv' /\ CallInv' /\ PaceInv'
  BY SlotsStep, CallStep, PaceStep DEF LimiterInv
<1>2. call \in [Caller -> Place]
  BY DEF CallInv
<1>3. ASSUME NEW c \in Caller, LM!Take(c) \/ LM!Send(c) PROVE RateInv'
  BY <1>1, <1>3, RateTake, RateSend DEF LimiterInv
<1>4. ASSUME NEW c \in Caller,
             LM!Ask(c) \/ LM!Answer(c) \/ LM!Fail(c) \/ LM!Retry(c) \/ LM!Cancel(c)
      PROVE  RateInv'
  <2>1. slots' = slots /\ sent' = sent /\ now' = now
    BY <1>4 DEF LM!Ask, LM!Answer, LM!Fail, LM!Retry, LM!Cancel
  <2>2. call'[c].pc # "wait" /\ \A d \in Caller \ {c} : call'[d] = call[d]
    BY <1>2, <1>4 DEF LM!Ask, LM!Answer, LM!Fail, LM!Retry, LM!Cancel, LM!Idle
  <2> QED
    BY <2>1, <2>2, RateRests DEF LimiterInv
<1>5. ASSUME LM!Tick \/ UNCHANGED limitervars PROVE RateInv'
  <2>1. slots' = slots /\ sent' = sent /\ now' \in {now, now + 1} /\ call' = call
    BY <1>5 DEF LM!Tick, limitervars
  <2> QED
    BY <2>1, RateRests DEF LimiterInv
<1>6. RateInv'
  BY <1>3, <1>4, <1>5 DEF LM!Next
<1> QED
  BY <1>1, <1>6 DEF LimiterInv

LEMMA LimiterInit == LM!Init => CallInv /\ LimiterInv
<1> SUFFICES ASSUME LM!Init PROVE CallInv /\ LimiterInv
  OBVIOUS
<1>1. /\ now = 1 /\ next = 0 /\ slots = <<>> /\ sent = 0
      /\ call \in [Caller -> Place] /\ \A c \in Caller : call[c].pc = "idle"
  BY DEF LM!Init, LM!Idle, Place, LM!Attempts
<1>2. SlotsInv /\ PaceInv
  BY <1>1 DEF SlotsInv, PaceInv, LM!SlotsApart
<1>3. CallInv
  BY <1>1 DEF CallInv, LM!TypeOK, Place
<1>4. RateInv
  <2>1. Cardinality(Spent) \in Nat
    BY <1>2, SpentFinite DEF SlotsInv
  <2> QED
    BY <1>1, <2>1 DEF RateInv
<1> QED
  BY <1>2, <1>3, <1>4 DEF LimiterInv

\* Of n slots that were spent one is the n-th or a later one.
LEMMA LimiterHolds == CallInv /\ LimiterInv => LM!TypeOK /\ LM!SlotsApart /\ LM!RateKept
<1> SUFFICES ASSUME CallInv, LimiterInv PROVE LM!RateKept
  BY DEF CallInv, LimiterInv, SlotsInv
<1>0. /\ now \in Nat /\ now > 0 /\ slots \in Seq(Nat) /\ Gap \in Nat /\ sent \in Nat /\ Len(slots) \in Nat
      /\ \A k \in DOMAIN slots : slots[k] \in Nat
  BY LimiterConstants DEF LimiterInv, SlotsInv, PaceInv, CallInv, LM!TypeOK
<1>1. CASE Gap = 0
  <2>1. (sent - 1) * Gap = 0
    BY <1>0, <1>1
  <2> QED
    BY <1>0, <2>1 DEF LM!RateKept
<1>2. CASE Gap > 0
  <2> DEFINE n == Cardinality(Spent)
  <2>1. n \in Nat /\ sent =< n /\ IsFiniteSet(Spent) /\ Spent \subseteq 1 .. Len(slots)
    BY <1>0, <1>2, SpentFinite DEF LimiterInv, RateInv
  <2>2. CASE n = 0
    <3>1. sent - 1 =< 0 /\ sent - 1 \in Int /\ 0 \in Int
      BY <1>0, <2>1, <2>2
    <3>2. (sent - 1) * Gap =< 0 * Gap /\ (sent - 1) * Gap \in Int /\ 0 * Gap = 0
      BY <1>0, <3>1, Gaps
    <3> QED
      BY <1>0, <3>2 DEF LM!RateKept
  <2>3. CASE n > 0
    <3>1. \E k \in Spent : k >= n
      <4> SUFFICES ASSUME \A k \in Spent : ~ (k >= n) PROVE FALSE
        OBVIOUS
      <4>1. Spent \subseteq 1 .. n - 1
        BY <2>1
      <4>2. IsFiniteSet(1 .. n - 1) /\ Cardinality(1 .. n - 1) = n - 1
        <5>1. n - 1 \in Int /\ 1 \in Int /\ (1 > n - 1 => n - 1 = 0) /\ (n - 1) - 1 + 1 = n - 1
          BY <2>1, <2>3
        <5> HIDE DEF n
        <5> QED
          BY <5>1, FS_Interval
      <4>3. Cardinality(Spent) =< Cardinality(1 .. n - 1)
        BY <4>1, <4>2, FS_Subset
      <4> QED
        BY <2>1, <4>2, <4>3
    <3>2. PICK k \in Spent : k >= n
      BY <3>1
    <3>3. k \in Int /\ sent - 1 \in Int /\ k - 1 \in Int /\ sent - 1 =< k - 1
      BY <1>0, <2>1, <3>2
    <3>4. (sent - 1) * Gap =< (k - 1) * Gap /\ (sent - 1) * Gap \in Int /\ (k - 1) * Gap \in Int
      BY <3>3, Gaps
    <3>5. slots[k] =< now /\ slots[k] \in Nat /\ 1 + (k - 1) * Gap =< slots[k]
      BY <1>0 DEF Spent, LimiterInv, PaceInv
    <3> QED
      BY <1>0, <3>4, <3>5 DEF LM!RateKept
  <2> QED
    BY <2>1, <2>2, <2>3
<1> QED
  BY <1>0, <1>1, <1>2

-------------------------------------------------------------------------------
(***************************************************************************)
(* The migrations                                                          *)
(***************************************************************************)

LEMMA SchemaConstants == Knows \in [Opener -> Nat]
BY PartsAssumption DEF MG!MigrationsAssumption

OpenPlace == [pc : {"read", "migrate", "open", "failed", "refused"}, i : Nat]

\* What VersionTruthful rests on: nobody goes on from a version the schema has
\* not had, or beyond what its binary knows.
SchemaInv ==
    /\ MG!TypeOK
    /\ made = 1 .. version
    /\ \A p \in Opener : opening[p].pc \in {"migrate", "open"} => opening[p].i <= version /\ opening[p].i <= Knows[p]
    /\ \A p \in Opener : opening[p].pc = "open" => opening[p].i = Knows[p]

LEMMA SchemaInit == MG!Init => SchemaInv
BY DEF MG!Init, SchemaInv, MG!TypeOK

\* A process whose place changes leaves the others where they are.
LEMMA OthersStay ==
    ASSUME SchemaInv, NEW p \in Opener, NEW s \in OpenPlace,
           opening' = [opening EXCEPT ![p] = s], version' \in Nat, version' >= version,
           made' = 1 .. version', crashes' \in Nat,
           s.pc \in {"migrate", "open"} => s.i <= version' /\ s.i <= Knows[p],
           s.pc = "open" => s.i = Knows[p]
    PROVE  SchemaInv'
<1> USE DEF OpenPlace
<1>1. MG!TypeOK'
  BY DEF SchemaInv, MG!TypeOK
<1>2. ASSUME NEW q \in Opener
      PROVE  /\ opening'[q].pc \in {"migrate", "open"} => opening'[q].i <= version' /\ opening'[q].i <= Knows[q]
             /\ opening'[q].pc = "open" => opening'[q].i = Knows[q]
  <2>1. CASE q = p
    BY <2>1 DEF SchemaInv, MG!TypeOK
  <2>2. CASE q # p
    <3>1. opening'[q] = opening[q] /\ opening[q].i \in Nat /\ version \in Nat /\ Knows[q] \in Nat
      BY <2>2, SchemaConstants DEF SchemaInv, MG!TypeOK
    <3> QED
      BY <3>1 DEF SchemaInv
  <2> QED
    BY <2>1, <2>2
<1> QED
  BY <1>1, <1>2 DEF SchemaInv

LEMMA SchemaStep == SchemaInv /\ [MG!Next]_schemavars => SchemaInv'
<1> SUFFICES ASSUME SchemaInv, [MG!Next]_schemavars PROVE SchemaInv'
  OBVIOUS
<1> USE DEF OpenPlace
<1>t. /\ version \in Nat /\ crashes \in Nat
      /\ \A q \in Opener : opening[q] \in OpenPlace
      /\ \A q \in Opener : Knows[q] \in Nat
  BY SchemaConstants DEF SchemaInv, MG!TypeOK
<1>1. ASSUME NEW p \in Opener, MG!ReadVersion(p) PROVE SchemaInv'
  <2> DEFINE s == [pc |-> IF version > Knows[p] THEN "refused" ELSE "migrate", i |-> version]
  <2>1. s \in OpenPlace
    BY <1>t
  <2>2. s.pc \in {"migrate", "open"} => s.i <= version /\ s.i <= Knows[p]
    BY <1>t
  <2>3. s.pc # "open"
    OBVIOUS
  <2>4. opening' = [opening EXCEPT ![p] = s] /\ version' = version /\ made' = made /\ crashes' = crashes
    BY <1>1 DEF MG!ReadVersion
  <2>5. made' = 1 .. version'
    BY <2>4 DEF SchemaInv
  <2>6. version' \in Nat /\ version' >= version /\ crashes' \in Nat
    BY <1>t, <2>4
  <2>7. s.pc \in {"migrate", "open"} => s.i <= version' /\ s.i <= Knows[p]
    BY <2>2, <2>4
  <2>8. s.pc = "open" => s.i = Knows[p]
    BY <2>3
  <2>9. opening' = [opening EXCEPT ![p] = s]
    BY <2>4
  <2> HIDE DEF s
  <2> QED
    BY <2>1, <2>5, <2>6, <2>7, <2>8, <2>9, OthersStay
<1>2. ASSUME NEW p \in Opener, MG!Migrate(p) PROVE SchemaInv'
  <2> DEFINE i == opening[p].i + 1
  <2>1. opening[p].pc = "migrate" /\ i \in Nat /\ i <= version + 1 /\ i <= Knows[p]
    BY <1>2, <1>t DEF MG!Migrate, SchemaInv
  <2>2. CASE i \in made
    <3> DEFINE s == [opening[p] EXCEPT !.pc = "failed"]
    <3>1. s \in OpenPlace /\ s.pc = "failed"
      BY <1>t
    <3>2. opening' = [opening EXCEPT ![p] = s] /\ version' = version /\ made' = made /\ crashes' = crashes
      BY <1>2, <2>2 DEF MG!Migrate
    <3>3. made' = 1 .. version'
      BY <3>2 DEF SchemaInv
    <3>4. version' \in Nat /\ version' >= version /\ crashes' \in Nat
      BY <1>t, <3>2
    <3>5. opening' = [opening EXCEPT ![p] = s]
      BY <3>2
    <3> HIDE DEF s
    <3> QED
      BY <3>1, <3>3, <3>4, <3>5, OthersStay
  <2>3. CASE i \notin made
    <3> DEFINE s == [opening[p] EXCEPT !.i = i]
    <3>1. i = version + 1
      BY <1>t, <2>1, <2>3 DEF SchemaInv
    <3>2. s \in OpenPlace /\ s.pc = "migrate" /\ s.i = i
      BY <1>t, <2>1
    <3>3. opening' = [opening EXCEPT ![p] = s] /\ version' = i /\ made' = made \cup {i} /\ crashes' = crashes
      BY <1>2, <2>3 DEF MG!Migrate
    <3>4. made' = 1 .. version'
      BY <1>t, <3>1, <3>3 DEF SchemaInv
    <3>5. version' \in Nat /\ version' >= version /\ s.i <= version' /\ s.i <= Knows[p]
      BY <1>t, <2>1, <3>1, <3>2, <3>3
    <3> HIDE DEF s, i
    <3> QED
      BY <1>t, <3>2, <3>3, <3>4, <3>5, OthersStay
  <2> QED
    BY <2>2, <2>3
<1>3. ASSUME NEW p \in Opener, MG!Opened(p) PROVE SchemaInv'
  <2> DEFINE s == [opening[p] EXCEPT !.pc = "open"]
  <2>1. opening[p].i = Knows[p] /\ opening[p].i <= version
    BY <1>3, <1>t DEF MG!Opened, SchemaInv
  <2>2. s \in OpenPlace /\ s.i = opening[p].i
    BY <1>t
  <2>3. opening' = [opening EXCEPT ![p] = s] /\ version' = version /\ made' = made /\ crashes' = crashes
    BY <1>3 DEF MG!Opened
  <2>4. made' = 1 .. version'
    BY <2>3 DEF SchemaInv
  <2>5. version' \in Nat /\ version' >= version /\ crashes' \in Nat
    BY <1>t, <2>3
  <2>6. s.i <= version' /\ s.i = Knows[p] /\ s.i <= Knows[p]
    BY <1>t, <2>1, <2>2, <2>3
  <2>7. opening' = [opening EXCEPT ![p] = s]
    BY <2>3
  <2> HIDE DEF s
  <2> QED
    BY <2>2, <2>4, <2>5, <2>6, <2>7, OthersStay
<1>4. ASSUME NEW p \in Opener, MG!Crash(p) \/ MG!StartAgain(p) PROVE SchemaInv'
  <2> DEFINE s == opening'[p]
  <2>1. s \in OpenPlace /\ s.pc \in {"failed", "read"}
    BY <1>4, <1>t DEF MG!Crash, MG!StartAgain, SchemaInv, MG!TypeOK
  <2>2. opening' = [opening EXCEPT ![p] = s] /\ version' = version /\ made' = made
    BY <1>4 DEF MG!Crash, MG!StartAgain, SchemaInv, MG!TypeOK
  <2>3. crashes' \in Nat
    BY <1>4, <1>t DEF MG!Crash, MG!StartAgain
  <2>4. made' = 1 .. version'
    BY <2>2 DEF SchemaInv
  <2>5. version' \in Nat /\ version' >= version
    BY <1>t, <2>2
  <2>6. opening' = [opening EXCEPT ![p] = s]
    BY <2>2
  <2> HIDE DEF s
  <2> QED
    BY <2>1, <2>3, <2>4, <2>5, <2>6, OthersStay
<1>5. CASE UNCHANGED schemavars
  BY <1>5 DEF schemavars, SchemaInv, MG!TypeOK
<1> QED
  BY <1>1, <1>2, <1>3, <1>4, <1>5 DEF MG!Next, MG!Goes


LEMMA SchemaHolds == SchemaInv => MG!TypeOK /\ MG!VersionTruthful
BY DEF SchemaInv, MG!VersionTruthful

-------------------------------------------------------------------------------
(***************************************************************************)
(* The snapshot of the status pages                                        *)
(***************************************************************************)

\* What OneScan rests on: the flag is up while one goroutine measures, and only
\* a goroutine that has measured every part publishes.
CacheInv ==
    /\ running \in BOOLEAN
    /\ measured \in [Scan -> -1 .. Parts]
    /\ running => \E s \in Scan : SC!Busy = {s}
    /\ ~ running => SC!Busy = {}
    /\ snapshot \in {[parts |-> 0, age |-> "never"], [parts |-> Parts, age |-> "stale"], [parts |-> Parts, age |-> "fresh"]}

LEMMA CacheConstants == Parts \in Nat \ {0}
BY PartsAssumption DEF SC!StatusAssumption

LEMMA CacheInit == SC!Init => CacheInv
<1> SUFFICES ASSUME SC!Init PROVE CacheInv
  OBVIOUS
<1>1. measured = [s \in Scan |-> -1] /\ -1 \in -1 .. Parts
  BY CacheConstants DEF SC!Init
<1>2. SC!Busy = {}
  BY <1>1 DEF SC!Busy
<1> QED
  BY <1>1, <1>2 DEF SC!Init, CacheInv

LEMMA CacheStep == CacheInv /\ [SC!Next]_cachevars => CacheInv'
<1> SUFFICES ASSUME CacheInv, [SC!Next]_cachevars PROVE CacheInv'
  OBVIOUS
<1> USE CacheConstants
<1>1. ASSUME NEW s \in Scan, SC!Ask(s) PROVE CacheInv'
  <2>1. /\ running = FALSE /\ running' = TRUE /\ snapshot' = snapshot
        /\ measured' = [measured EXCEPT ![s] = 0]
    BY <1>1 DEF SC!Ask, CacheInv
  <2>2. measured' \in [Scan -> -1 .. Parts]
    BY <2>1 DEF CacheInv
  <2>3. SC!Busy' = {s}
    BY <2>1 DEF CacheInv, SC!Busy
  <2> QED
    BY <2>1, <2>2, <2>3 DEF CacheInv
<1>2. ASSUME NEW s \in Scan, SC!Measure(s) PROVE CacheInv'
  <2>1. /\ running' = running /\ snapshot' = snapshot /\ measured[s] \in 0 .. Parts - 1
        /\ measured' = [measured EXCEPT ![s] = measured[s] + 1]
    BY <1>2 DEF SC!Measure
  <2>2. measured' \in [Scan -> -1 .. Parts]
    BY <2>1 DEF CacheInv
  <2>3. SC!Busy' = SC!Busy
    BY <2>1 DEF CacheInv, SC!Busy
  <2> QED
    BY <2>1, <2>2, <2>3 DEF CacheInv
<1>3. ASSUME NEW s \in Scan, SC!GiveUp(s) \/ SC!Publish(s) PROVE CacheInv'
  <2>1. /\ running' = FALSE /\ measured[s] >= 0 /\ measured[s] \in Int
        /\ measured' = [measured EXCEPT ![s] = -1]
    BY <1>3 DEF SC!GiveUp, SC!Publish
  <2>2. measured' \in [Scan -> -1 .. Parts]
    BY <2>1 DEF CacheInv
  <2>3. SC!Busy' = {}
    <3>1. s \in SC!Busy
      BY <2>1 DEF SC!Busy
    <3>2. SC!Busy = {s}
      BY <3>1 DEF CacheInv
    <3> QED
      BY <2>1, <3>2 DEF CacheInv, SC!Busy
  <2>4. snapshot' = snapshot \/ snapshot' = [parts |-> Parts, age |-> "fresh"]
    BY <1>3 DEF SC!GiveUp, SC!Publish
  <2> QED
    BY <2>1, <2>2, <2>3, <2>4 DEF CacheInv
<1>4. CASE SC!Age
  <2>1. /\ running' = running /\ measured' = measured
        /\ snapshot.age = "fresh" /\ snapshot' = [snapshot EXCEPT !.age = "stale"]
    BY <1>4 DEF SC!Age
  <2>2. SC!Busy' = SC!Busy
    BY <2>1 DEF SC!Busy
  <2> QED
    BY <2>1, <2>2 DEF CacheInv
<1>5. CASE UNCHANGED cachevars
  BY <1>5 DEF cachevars, CacheInv, SC!Busy
<1> QED
  BY <1>1, <1>2, <1>3, <1>4, <1>5 DEF SC!Next

LEMMA CacheHolds == CacheInv => SC!OneScan
<1> SUFFICES ASSUME CacheInv PROVE SC!OneScan
  OBVIOUS
<1>1. Cardinality(SC!Busy) = IF running THEN 1 ELSE 0
  <2>1. CASE running
    <3>1. PICK s \in Scan : SC!Busy = {s}
      BY <2>1 DEF CacheInv
    <3> QED
      BY <2>1, <3>1, FS_Singleton
  <2>2. CASE ~ running
    BY <2>2, FS_EmptySet DEF CacheInv
  <2> QED
    BY <2>1, <2>2
<1>2. snapshot.parts = IF snapshot.age = "never" THEN 0 ELSE Parts
  <2>1. CASE snapshot = [parts |-> 0, age |-> "never"]
    BY <2>1
  <2>2. CASE snapshot = [parts |-> Parts, age |-> "stale"]
    BY <2>2
  <2>3. CASE snapshot = [parts |-> Parts, age |-> "fresh"]
    BY <2>3
  <2> QED
    BY <2>1, <2>2, <2>3 DEF CacheInv
<1> QED
  BY <1>1, <1>2, SameCount DEF SC!OneScan

-------------------------------------------------------------------------------
(***************************************************************************)
(* The backfill                                                            *)
(***************************************************************************)

LEMMA BackConstants == Items \in Nat /\ Steps \in Seq(STRING) /\ Len(Steps) \in Nat /\ BatchSize \in Nat \ {0}
BY PartsAssumption DEF BF!BackfillAssumption

LEMMA LessIsWellFounded == \E R : IsWellFoundedOn(R, Nat) /\ \A x, y \in Nat : x < y => <<x, y>> \in R
<1>1. IsWellFoundedOn(OpToRel(<, Nat), Nat)
  BY NatLessThanWellFounded, Zenon
<1>2. \A x, y \in Nat : x < y => <<x, y>> \in OpToRel(<, Nat)
  BY Zenon DEF OpToRel
<1> QED
  BY <1>1, <1>2, Zenon

LEMMA LeastOf ==
    ASSUME NEW S \in SUBSET Nat, S # {}
    PROVE  \E i \in S : \A j \in S : i <= j
<1>1. PICK R : IsWellFoundedOn(R, Nat) /\ \A x, y \in Nat : x < y => <<x, y>> \in R
  BY LessIsWellFounded
<1>2. S \subseteq Nat /\ IsWellFoundedOn(R, Nat)
  BY <1>1
<1>3. \E i \in S : \A j \in S : ~ (<<j, i>> \in R)
  BY <1>2, WFMin, Zenon
<1>4. PICK i \in S : \A j \in S : ~ (<<j, i>> \in R)
  BY <1>3
<1>5. ASSUME NEW j \in S PROVE i <= j
  <2>1. ~ (j < i)
    BY <1>1, <1>4
  <2> QED
    BY <1>2, <2>1
<1> QED
  BY <1>5

LEMMA GreatestOf ==
    ASSUME NEW n \in Nat, NEW S \in SUBSET (1 .. n), S # {}
    PROVE  \E i \in S : \A j \in S : j <= i
<1> DEFINE Down == {n - i : i \in S}
<1>1. Down \in SUBSET Nat /\ Down # {}
  <2>1. \A i \in S : i \in 1 .. n /\ n - i \in Nat
    OBVIOUS
  <2> QED
    BY <2>1
<1>2. PICK d \in Down : \A e \in Down : d <= e
  <2> HIDE DEF Down
  <2> QED
    BY <1>1, LeastOf
<1>3. PICK i \in S : d = n - i
  BY <1>2
<1>4. ASSUME NEW j \in S PROVE j <= i
  <2>1. n - i <= n - j
    BY <1>2, <1>3
  <2> QED
    BY <2>1
<1> QED
  BY <1>4

\* Those of a set with fewer than n before them are n at most.
LEMMA FirstOf ==
    ASSUME NEW m \in Nat, NEW U \in SUBSET (1 .. m), NEW n \in Nat \ {0}
    PROVE  Cardinality({i \in U : Cardinality({j \in U : j < i}) < n}) <= n
<1> DEFINE First == {i \in U : Cardinality({j \in U : j < i}) < n}
<1>1. IsFiniteSet(1 .. m)
  BY FS_Interval
<1>2. IsFiniteSet(U) /\ IsFiniteSet(First)
  BY <1>1, FS_Subset
<1> SUFFICES Cardinality(First) <= n
  OBVIOUS
<1>3. CASE First = {}
  <2>1. Cardinality({}) = 0
    BY FS_EmptySet
  <2> HIDE DEF First
  <2> QED
    BY <1>3, <2>1
<1>4. CASE First # {}
  <2>1. PICK g \in First : \A j \in First : j <= g
    <3>1. First \in SUBSET (1 .. m)
      OBVIOUS
    <3> HIDE DEF First
    <3> QED
      BY <3>1, <1>4, GreatestOf
  <2> DEFINE Before == {j \in U : j < g}
  <2>2. First \ {g} \in SUBSET Before
    <3>1. ASSUME NEW j \in First, j # g PROVE j \in Before
      <4>1. j <= g /\ j \in U /\ j \in 1 .. m /\ g \in 1 .. m
        BY <2>1
      <4> QED
        BY <3>1, <4>1
    <3> QED
      BY <3>1
  <2>3. Cardinality(Before) < n /\ g \in First
    BY <2>1
  <2>4. IsFiniteSet(Before)
    BY <1>2, FS_Subset
  <2> HIDE DEF First, Before
  <2>5. Cardinality(First \ {g}) <= Cardinality(Before) /\ Cardinality(Before) \in Nat
    BY <2>2, <2>4, FS_Subset, FS_CardinalityType
  <2>6. Cardinality(First \ {g}) = Cardinality(First) - 1
    BY <1>2, <2>3, FS_RemoveElement
  <2>7. Cardinality(First) \in Nat /\ Cardinality(First \ {g}) \in Int
    BY <1>2, <2>6, FS_CardinalityType
  <2> QED
    BY <2>3, <2>5, <2>6, <2>7
<1> QED
  BY <1>3, <1>4

BackPlaces == [pc : {"list", "ask", "store", "mark"}, step : 1 .. Len(Steps) + 1, batch : SUBSET BF!Ids]

\* What MarksTruthful rests on: the loop is at a step that has a table while it
\* has a batch, and comes to mark an item only with its history in the archive.
BackInv ==
    /\ BF!TypeOK /\ BF!MarksTruthful
    /\ loop \in BackPlaces
    /\ loop.pc # "list" => loop.step <= Len(Steps) /\ BF!Step \in BF!Tables
    /\ loop.pc = "mark" => <<BF!Step, BF!Current>> \in stored

LEMMA ItemOfBatch ==
    ASSUME BackInv, loop.pc # "list"
    PROVE  BF!Current \in loop.batch /\ BF!Current \in BF!Ids
<1>1. loop.batch \in SUBSET Nat /\ loop.batch # {} /\ loop.batch \subseteq BF!Ids
  BY BackConstants DEF BackInv, BF!TypeOK, BF!Ids
<1>2. \E i \in loop.batch : \A j \in loop.batch : i <= j
  BY <1>1, LeastOf
<1>3. BF!Current \in loop.batch
  BY <1>2 DEF BF!Current
<1> QED
  BY <1>1, <1>3

LEMMA BackInit == BF!Init => BackInv
<1> SUFFICES ASSUME BF!Init PROVE BackInv
  OBVIOUS
<1> USE BackConstants
<1>1. loop = [pc |-> "list", step |-> 1, batch |-> {}] /\ Cardinality({}) = 0 /\ mishaps = 0
  BY FS_EmptySet DEF BF!Init
<1>2. BF!Cardinality(loop.batch) <= BatchSize
  BY <1>1, SameCount
<1>3. loop \in BackPlaces
  BY <1>1 DEF BackPlaces
<1>4. mark = [s \in BF!Tables |-> [i \in BF!Ids |-> "none"]] /\ listed \subseteq BF!Ids /\ low = FALSE
  BY DEF BF!Init
<1>5. BF!TypeOK
  <2>1. mark \in [BF!Tables -> [BF!Ids -> {"none", "empty", "seeded"}]]
    BY <1>4
  <2>2. stored = {} /\ unlisted = {}
    BY DEF BF!Init
  <2>3. loop.pc = "list" /\ loop.step = 1 /\ loop.batch = {} /\ 1 \in 1 .. Len(Steps) + 1
    BY <1>1
  <2> QED
    BY <1>1, <1>2, <1>4, <2>1, <2>2, <2>3 DEF BF!TypeOK
<1>6. BF!MarksTruthful
  BY <1>4 DEF BF!MarksTruthful
<1> QED
  BY <1>1, <1>3, <1>5, <1>6 DEF BackInv

BackMarks == [BF!Tables -> [BF!Ids -> {"none", "empty", "seeded"}]]

\* What a step may make of the state.
LEMMA LoopMoves ==
    ASSUME loop' \in BackPlaces, listed' \subseteq BF!Ids,
           low' \in BOOLEAN, unlisted' \subseteq BF!Tables, mishaps' \in Nat,
           (loop'.batch = {} <=> loop'.pc = "list"), Cardinality(loop'.batch) <= BatchSize,
           loop'.pc # "list" => loop'.step <= Len(Steps) /\ Steps[loop'.step] \in BF!Tables,
           loop'.pc = "mark" => (<<BF!Step, BF!Current>> \in stored)',
           mark' \in BackMarks, stored' \subseteq BF!Tables \X BF!Ids, BF!MarksTruthful'
    PROVE  BackInv'
<1>1. BF!TypeOK'
  BY SameCount DEF BF!TypeOK, BackPlaces, BackMarks
<1> QED
  BY <1>1 DEF BackInv, BF!Step

\* What is known of the state before a step.
LEMMA BackFacts ==
    ASSUME BackInv
    PROVE  /\ loop \in BackPlaces /\ listed \subseteq BF!Ids /\ low \in BOOLEAN
           /\ unlisted \subseteq BF!Tables /\ mishaps \in Nat /\ mark \in BackMarks
           /\ stored \subseteq BF!Tables \X BF!Ids /\ BF!MarksTruthful
           /\ (loop.batch = {} <=> loop.pc = "list") /\ Cardinality(loop.batch) <= BatchSize
<1>1. BF!TypeOK /\ BF!MarksTruthful /\ loop \in BackPlaces
  BY DEF BackInv
<1>2. /\ listed \subseteq BF!Ids /\ unlisted \subseteq BF!Tables /\ mishaps \in Nat
      /\ stored \subseteq BF!Tables \X BF!Ids
  BY <1>1 DEF BF!TypeOK
<1>6. low \in BOOLEAN
  BY <1>1, Zenon DEF BF!TypeOK
<1>3. mark \in BackMarks
  BY <1>1 DEF BF!TypeOK, BackMarks
<1>4. (loop.batch = {}) <=> (loop.pc = "list")
  BY <1>1, Zenon DEF BF!TypeOK
<1>5. Cardinality(loop.batch) <= BatchSize
  BY <1>1, SameCount DEF BF!TypeOK
<1> QED
  BY <1>1, <1>2, <1>3, <1>4, <1>5, <1>6

\* A mark is made for an item of the batch, and says seeded only of what is stored.
LEMMA MarkIsTrue ==
    ASSUME BackInv, loop.pc # "list", stored \subseteq stored', NEW m \in {"none", "empty", "seeded"},
           BF!Marked(m) \/ UNCHANGED mark, m = "seeded" => <<BF!Step, BF!Current>> \in stored
    PROVE  mark' \in BackMarks /\ BF!MarksTruthful'
<1>1. PICK s \in BF!Tables, i \in BF!Ids : s = BF!Step /\ i = BF!Current
  BY ItemOfBatch DEF BackInv
<1>2. mark' = mark \/ mark' = [mark EXCEPT ![s][i] = m]
  BY <1>1 DEF BF!Marked
<1>3. mark \in BackMarks /\ BF!MarksTruthful
  BY BackFacts
<1>4. mark' \in BackMarks
  BY <1>2, <1>3 DEF BackMarks
<1>5. ASSUME NEW t \in BF!Tables, NEW j \in BF!Ids, mark'[t][j] = "seeded" PROVE <<t, j>> \in stored
  <2>1. CASE t = s /\ j = i /\ mark' # mark
    <3>1. m = "seeded"
      BY <1>2, <1>3, <1>5, <2>1 DEF BackMarks
    <3> QED
      BY <1>1, <2>1, <3>1
  <2>2. CASE ~ (t = s /\ j = i /\ mark' # mark)
    <3>1. mark[t][j] = "seeded"
      BY <1>2, <1>3, <1>5, <2>2 DEF BackMarks
    <3> QED
      BY <1>3, <3>1 DEF BF!MarksTruthful
  <2> QED
    BY <2>1, <2>2
<1>6. BF!MarksTruthful'
  BY <1>5 DEF BF!MarksTruthful
<1> QED
  BY <1>4, <1>6

\* What becomes of the loop when it has done with a step, or with an item.
LEMMA LoopGoesOn ==
    ASSUME BackInv, loop.step <= Len(Steps)
    PROVE  /\ BF!NextStep => /\ loop' \in BackPlaces /\ loop'.batch = {} /\ loop'.pc = "list"
                             /\ Cardinality(loop'.batch) <= BatchSize
           /\ loop.pc # "list" /\ BF!NextItem =>
                /\ loop' \in BackPlaces /\ loop'.step = loop.step /\ loop'.pc \in {"list", "ask"}
                /\ (loop'.batch = {}) <=> (loop'.pc = "list")
                /\ Cardinality(loop'.batch) <= BatchSize
<1> USE BackConstants
<1>1. ASSUME BF!NextStep
      PROVE  /\ loop' \in BackPlaces /\ loop'.batch = {} /\ loop'.pc = "list"
             /\ Cardinality(loop'.batch) <= BatchSize
  <2>1. loop' = [pc |-> "list", step |-> loop.step + 1, batch |-> {}]
    BY <1>1 DEF BF!NextStep
  <2>2. loop.step + 1 \in 1 .. Len(Steps) + 1
    BY DEF BackInv, BackPlaces
  <2> QED
    BY <2>1, <2>2, FS_EmptySet DEF BackPlaces
<1>2. ASSUME loop.pc # "list", BF!NextItem
      PROVE  /\ loop' \in BackPlaces /\ loop'.step = loop.step /\ loop'.pc \in {"list", "ask"}
             /\ (loop'.batch = {}) <=> (loop'.pc = "list")
             /\ Cardinality(loop'.batch) <= BatchSize
  <2>1. PICK i : i = BF!Current
    OBVIOUS
  <2>2. i \in loop.batch /\ loop \in BackPlaces
    BY <1>2, <2>1, ItemOfBatch DEF BackInv
  <2>3. loop' = [loop EXCEPT !.pc = IF loop.batch = {i} THEN "list" ELSE "ask", !.batch = @ \ {i}]
    BY <1>2, <2>1 DEF BF!NextItem
  <2>4. loop' = [pc |-> IF loop.batch = {i} THEN "list" ELSE "ask", step |-> loop.step, batch |-> loop.batch \ {i}]
    BY <2>2, <2>3 DEF BackPlaces
  <2>5. loop' \in BackPlaces
    BY <2>2, <2>4 DEF BackPlaces
  <2>6. (loop'.batch = {}) <=> (loop'.pc = "list")
    BY <2>2, <2>4
  <2>7. IsFiniteSet(loop.batch)
    <3>1. IsFiniteSet(1 .. Items)
      BY FS_Interval
    <3>2. loop.batch \in SUBSET (1 .. Items)
      BY DEF BF!Ids, BackInv, BF!TypeOK
    <3> QED
      BY <3>1, <3>2, FS_Subset
  <2>8. Cardinality(loop'.batch) <= Cardinality(loop.batch) /\ Cardinality(loop'.batch) \in Nat /\ Cardinality(loop.batch) \in Nat
    <3>1. loop'.batch \in SUBSET loop.batch
      BY <2>4
    <3>2. IsFiniteSet(loop'.batch) /\ Cardinality(loop'.batch) <= Cardinality(loop.batch)
      BY <3>1, <2>7, FS_Subset
    <3> QED
      BY <3>2, <2>7, FS_CardinalityType
  <2>9. Cardinality(loop.batch) <= BatchSize
    BY SameCount DEF BackInv, BF!TypeOK
  <2>10. Cardinality(loop'.batch) <= BatchSize
    BY <2>8, <2>9
  <2> QED
    BY <2>4, <2>5, <2>6, <2>10
<1> QED
  BY <1>1, <1>2

LEMMA BackStep == BackInv /\ [BF!Next]_backvars => BackInv'
<1> SUFFICES ASSUME BackInv, [BF!Next]_backvars PROVE BackInv'
  OBVIOUS
<1> USE BackConstants
<1>t. /\ loop \in BackPlaces /\ listed \subseteq BF!Ids /\ low \in BOOLEAN
      /\ unlisted \subseteq BF!Tables /\ mishaps \in Nat /\ mark \in BackMarks
      /\ stored \subseteq BF!Tables \X BF!Ids /\ BF!MarksTruthful
      /\ (loop.batch = {} <=> loop.pc = "list") /\ Cardinality(loop.batch) <= BatchSize
  BY BackFacts
<1>u. UNCHANGED <<mark, stored>> => mark' \in BackMarks /\ stored' \subseteq BF!Tables \X BF!Ids /\ BF!MarksTruthful'
  BY <1>t DEF BF!MarksTruthful
<1>w. loop.pc # "list" => loop.step <= Len(Steps) /\ Steps[loop.step] \in BF!Tables
  BY DEF BackInv, BF!Step
<1>1. CASE BF!SkipStep \/ BF!ListFails \/ (BF!List /\ BF!NextStep)
  <2>1. loop.step <= Len(Steps) /\ BF!NextStep
    BY <1>1 DEF BF!SkipStep, BF!ListFails, BF!List, BF!At
  <2>2. /\ UNCHANGED <<listed, mark, stored, low>>
        /\ unlisted' \subseteq BF!Tables /\ mishaps' \in Nat
    BY <1>1, <1>t DEF BF!SkipStep, BF!ListFails, BF!List, BF!Trouble
  <2>3. loop' \in BackPlaces /\ loop'.batch = {} /\ loop'.pc = "list" /\ Cardinality(loop'.batch) <= BatchSize
    BY <2>1, LoopGoesOn
  <2> QED
    BY <1>t, <1>u, <2>2, <2>3, LoopMoves
<1>2. CASE BF!List /\ ~ BF!NextStep
  <2> DEFINE P == BF!Pending
  <2>1. /\ loop' = [loop EXCEPT !.pc = "ask", !.batch = P] /\ P # {}
        /\ UNCHANGED <<listed, mark, stored, low, unlisted, mishaps>>
        /\ loop.step <= Len(Steps) /\ BF!Step \in BF!Tables
    BY <1>2 DEF BF!List, BF!At
  <2>2. P \subseteq BF!Ids /\ Cardinality(P) <= BatchSize
    <3> DEFINE U == {i \in listed : mark[BF!Step][i] = "none"}
    <3>1. P = {i \in U : Cardinality({j \in U : j < i}) < BatchSize}
      BY SameCount DEF BF!Pending
    <3>2. U \in SUBSET (1 .. Items)
      BY <1>t DEF BF!Ids
    <3> HIDE DEF U, P
    <3>3. Cardinality({i \in U : Cardinality({j \in U : j < i}) < BatchSize}) <= BatchSize
      BY <3>2, FirstOf
    <3>4. Cardinality(P) <= BatchSize
      BY <3>1, <3>3
    <3> QED
      BY <3>1, <3>2, <3>4 DEF BF!Ids
  <2> HIDE DEF P
  <2>3. loop' = [pc |-> "ask", step |-> loop.step, batch |-> P]
    BY <1>t, <2>1 DEF BackPlaces
  <2>4. loop' \in BackPlaces
    BY <1>t, <2>2, <2>3 DEF BackPlaces
  <2>5. loop'.pc = "ask" /\ loop'.step = loop.step /\ loop'.batch = P
    BY <2>3
  <2> QED
    BY <1>t, <1>u, <2>1, <2>2, <2>4, <2>5, LoopMoves DEF BF!Step
<1>3. CASE BF!Answered
  <2>1. /\ loop.pc = "ask" /\ loop' = [loop EXCEPT !.pc = "store"]
        /\ UNCHANGED <<listed, mark, stored, low, unlisted, mishaps>>
    BY <1>3 DEF BF!Answered, BF!At
  <2>2. /\ loop' \in BackPlaces /\ loop'.pc = "store" /\ loop'.step = loop.step
        /\ loop'.batch = loop.batch
    BY <1>t, <2>1 DEF BackPlaces
  <2>3. (loop'.batch = {}) <=> (loop'.pc = "list")
    BY <1>t, <2>1, <2>2
  <2>4. loop'.step <= Len(Steps) /\ Steps[loop'.step] \in BF!Tables
    BY <1>w, <2>1, <2>2
  <2> QED
    BY <1>t, <1>u, <2>1, <2>2, <2>3, <2>4, LoopMoves
<1>4. CASE BF!AskFails \/ BF!StoreFails \/ BF!MarkFails \/ BF!Mark
  <2>1. /\ loop.pc # "list" /\ BF!NextItem /\ UNCHANGED <<listed, stored, low, unlisted>>
        /\ mishaps' \in Nat
    BY <1>4, <1>t DEF BF!AskFails, BF!StoreFails, BF!MarkFails, BF!Mark, BF!At, BF!Trouble
  <2>2. /\ loop' \in BackPlaces /\ loop'.step = loop.step /\ loop'.pc \in {"list", "ask"}
        /\ (loop'.batch = {}) <=> (loop'.pc = "list")
        /\ Cardinality(loop'.batch) <= BatchSize
    BY <1>w, <2>1, LoopGoesOn
  <2>3. mark' \in BackMarks /\ BF!MarksTruthful'
    <3>1. CASE BF!Mark
      <4>1. BF!Marked("seeded") /\ <<BF!Step, BF!Current>> \in stored
        BY <3>1 DEF BF!Mark, BF!At, BackInv
      <4> QED
        BY <2>1, <4>1, MarkIsTrue
    <3>2. CASE ~ BF!Mark
      <4>1. BF!Marked("empty") \/ UNCHANGED mark
        BY <1>4, <3>2 DEF BF!AskFails, BF!StoreFails, BF!MarkFails
      <4> QED
        BY <2>1, <4>1, MarkIsTrue
    <3> QED
      BY <3>1, <3>2
  <2> QED
    BY <1>t, <1>w, <2>1, <2>2, <2>3, LoopMoves
<1>5. CASE BF!Store
  <2>1. /\ loop.pc = "store" /\ loop' = [loop EXCEPT !.pc = "mark"]
        /\ stored' = stored \cup {<<BF!Step, BF!Current>>}
        /\ UNCHANGED <<listed, mark, low, unlisted, mishaps>>
    BY <1>5 DEF BF!Store, BF!At
  <2>2. /\ loop' \in BackPlaces /\ loop'.pc = "mark" /\ loop'.step = loop.step
        /\ loop'.batch = loop.batch
    BY <1>t, <2>1 DEF BackPlaces
  <2>3. BF!Step \in BF!Tables /\ BF!Current \in BF!Ids
    BY <2>1, ItemOfBatch DEF BackInv
  <2>4. BF!Step' = BF!Step /\ BF!Current' = BF!Current
    BY <2>2 DEF BF!Step, BF!Current
  <2>5. mark' \in BackMarks /\ BF!MarksTruthful'
    BY <1>t, <2>1 DEF BF!MarksTruthful
  <2>6. stored' \subseteq BF!Tables \X BF!Ids
    BY <1>t, <2>1, <2>3
  <2>7. (loop'.batch = {}) <=> (loop'.pc = "list")
    BY <1>t, <2>1, <2>2
  <2>8. loop'.step <= Len(Steps) /\ Steps[loop'.step] \in BF!Tables
    BY <1>w, <2>1, <2>2
  <2>9. (<<BF!Step, BF!Current>> \in stored)'
    BY <2>1, <2>4
  <2> QED
    BY <1>t, <2>1, <2>2, <2>5, <2>6, <2>7, <2>8, <2>9, LoopMoves
<1>6. CASE BF!NewItem \/ BF!DiskLow \/ BF!DiskFree \/ UNCHANGED backvars
  <2>1. /\ UNCHANGED <<mark, stored, loop, unlisted>> /\ low' \in BOOLEAN /\ listed' \subseteq BF!Ids
        /\ mishaps' \in Nat
    <3>1. CASE BF!NewItem
      BY <3>1, <1>t DEF BF!NewItem
    <3>2. CASE BF!DiskLow \/ BF!DiskFree
      <4>1. UNCHANGED <<mark, stored, loop, unlisted, listed>> /\ (mishaps' = mishaps \/ mishaps' = mishaps + 1)
        BY <3>2 DEF BF!DiskLow, BF!DiskFree, BF!Trouble
      <4>2. low' \in BOOLEAN
        BY <3>2 DEF BF!DiskLow, BF!DiskFree
      <4> QED
        BY <1>t, <4>1, <4>2
    <3>3. CASE UNCHANGED backvars
      BY <3>3, <1>t DEF backvars
    <3> QED
      BY <1>6, <3>1, <3>2, <3>3
  <2>2. loop.pc = "mark" => (<<BF!Step, BF!Current>> \in stored)'
    BY <2>1 DEF BackInv, BF!Step, BF!Current
  <2>3. loop' = loop
    BY <2>1
  <2> QED
    BY <1>t, <1>u, <1>w, <2>1, <2>2, <2>3, LoopMoves
<1>7. CASE BF!Restart
  <2>1. /\ UNCHANGED <<listed, mark, stored, low>> /\ unlisted' = {} /\ mishaps' \in Nat
        /\ loop' = [pc |-> "list", step |-> 1, batch |-> {}]
    BY <1>7, <1>t DEF BF!Restart, BF!Trouble
  <2>2. loop' \in BackPlaces /\ Cardinality(loop'.batch) <= BatchSize
    BY <2>1, FS_EmptySet DEF BackPlaces
  <2> QED
    BY <1>t, <1>u, <2>1, <2>2, LoopMoves
<1> QED
  BY <1>1, <1>2, <1>3, <1>4, <1>5, <1>6, <1>7 DEF BF!Next, BF!Pass
-------------------------------------------------------------------------------
(***************************************************************************)
(* The nightly timer                                                       *)
(***************************************************************************)

LEMMA NightConstants == Day \in Nat \ {0} /\ Hour \in 0 .. Day - 1 /\ Period \in Nat \ {0}
BY PartsAssumption DEF NT!NightlyAssumption

LEMMA SmallMultiple ==
    ASSUME NEW c \in Int, NEW d \in Nat \ {0}, c * d < d, - d < c * d
    PROVE  c = 0
<1>1. CASE c >= 1
  <2>1. c - 1 \in Nat /\ (c - 1) * d \in Nat
    BY <1>1
  <2>2. c * d = (c - 1) * d + d
    OBVIOUS
  <2> QED
    BY <2>1, <2>2
<1>2. CASE c <= -1
  <2>1. (-1) - c \in Nat /\ ((-1) - c) * d \in Nat
    BY <1>2
  <2>2. c * d = - (((-1) - c) * d) - d
    OBVIOUS
  <2> QED
    BY <2>1, <2>2
<1> QED
  BY <1>1, <1>2

LEMMA Division ==
    ASSUME NEW a \in Int, NEW d \in Nat \ {0}
    PROVE  \E q \in Int : a = q * d + (a % d) /\ a % d \in 0 .. d - 1
<1>1. a \div d \in Int /\ a = (a \div d) * d + (a % d) /\ a % d \in 0 .. d - 1
  OBVIOUS
<1> QED
  BY <1>1

LEMMA Remainder ==
    ASSUME NEW q \in Int, NEW d \in Nat \ {0}, NEW r \in 0 .. d - 1
    PROVE  (q * d + r) % d = r
<1>1. PICK a \in Int : a = q * d + r
  OBVIOUS
<1>2. PICK p \in Int : a = p * d + (a % d) /\ a % d \in 0 .. d - 1
  BY <1>1, Division
<1>3. p * d \in Int /\ q * d \in Int /\ (p - q) * d = p * d - q * d
  OBVIOUS
<1>4. (p - q) * d < d /\ - d < (p - q) * d
  BY <1>1, <1>2, <1>3
<1>5. p - q = 0
  BY <1>4, SmallMultiple
<1>6. p * d = q * d
  BY <1>5
<1> QED
  BY <1>1, <1>2, <1>3, <1>6

\* A day has one night.
LEMMA NightOfDay ==
    ASSUME NEW t \in Nat
    PROVE  /\ NT!NextNight(t) \in t + 1 .. t + Day /\ NT!IsNight(NT!NextNight(t))
           /\ \A n \in t + 1 .. t + Day : NT!IsNight(n) => n = NT!NextNight(t)
<1> USE NightConstants
<1>1. \E n \in t + 1 .. t + Day : NT!IsNight(n)
  <2> DEFINE k == Hour - (t + 1)
  <2>1. k \in Int
    OBVIOUS
  <2>2. PICK q \in Int : k = q * Day + (k % Day) /\ k % Day \in 0 .. Day - 1
    <3> HIDE DEF k
    <3> QED
      BY <2>1, Division
  <2>3. PICK m \in 0 .. Day - 1 : k = q * Day + m
    <3> HIDE DEF k
    <3> QED
      BY <2>2
  <2>4. (- q) * Day = - (q * Day) /\ q * Day \in Int
    OBVIOUS
  <2>5. t + 1 + m = (- q) * Day + Hour /\ t + 1 + m \in t + 1 .. t + Day
    BY <2>3, <2>4
  <2>6. ((- q) * Day + Hour) % Day = Hour
    <3>1. - q \in Int
      OBVIOUS
    <3> QED
      BY <3>1, Remainder
  <2> QED
    BY <2>5, <2>6 DEF NT!IsNight
<1>2. NT!NextNight(t) \in t + 1 .. t + Day /\ NT!IsNight(NT!NextNight(t))
  BY <1>1 DEF NT!NextNight
<1>3. ASSUME NEW n \in t + 1 .. t + Day, NEW m \in t + 1 .. t + Day, NT!IsNight(n), NT!IsNight(m)
      PROVE  n = m
  <2>1. n \in Int /\ m \in Int /\ n % Day = Hour /\ m % Day = Hour
    BY <1>3 DEF NT!IsNight
  <2>2. PICK p \in Int : n = p * Day + (n % Day)
    BY <2>1, Division
  <2>3. PICK q \in Int : m = q * Day + (m % Day)
    BY <2>1, Division
  <2>4. p * Day \in Int /\ q * Day \in Int /\ (p - q) * Day = p * Day - q * Day
    OBVIOUS
  <2>5. (p - q) * Day < Day /\ - Day < (p - q) * Day
    BY <2>1, <2>2, <2>3, <2>4
  <2>6. p - q = 0
    BY <2>5, SmallMultiple
  <2> QED
    BY <2>1, <2>2, <2>3, <2>6
<1> QED
  BY <1>2, <1>3

\* What NightsKept rests on: while the loop waits, its timer is set for the
\* first night after it began to, and that night has not gone by.
NightTyped ==
    /\ clock \in Nat /\ phase \in 0 .. Period - 1
    /\ deadline \in Nat /\ NT!IsNight(deadline)
    /\ task \in [at : {"select", "work"}, since : Nat] /\ task.since <= clock
    /\ done \subseteq Nat /\ free \subseteq Nat
    /\ \A n \in done \cup free : n <= clock /\ NT!IsNight(n)

NightInv ==
    /\ NightTyped
    /\ tick \in BOOLEAN /\ paused \in BOOLEAN
    /\ task.at = "select" => deadline = NT!NextNight(task.since) /\ clock <= deadline
    /\ \A n \in free : n \in done \/ (n = deadline /\ n = clock /\ task.at = "select" /\ ~ tick /\ ~ paused)

LEMMA NightInit == NT!Init => NightInv
<1> SUFFICES ASSUME NT!Init PROVE NightInv
  OBVIOUS
<1> USE NightConstants
<1>1. clock \in Nat /\ phase \in 0 .. Period - 1 /\ task = [at |-> "select", since |-> clock] /\ deadline = NT!NextNight(clock)
  BY DEF NT!Init
<1>2. deadline \in clock + 1 .. clock + Day /\ NT!IsNight(deadline)
  BY <1>1, NightOfDay
<1>3. done = {} /\ free = {}
  BY DEF NT!Init
<1>4. NightTyped
  BY <1>1, <1>2, <1>3 DEF NightTyped
<1>5. tick \in BOOLEAN /\ paused \in BOOLEAN
  BY DEF NT!Init
<1>6. task.since = clock /\ clock <= deadline
  BY <1>1, <1>2
<1> QED
  BY <1>1, <1>3, <1>4, <1>5, <1>6 DEF NightInv

\* The loop comes back to its select.
LEMMA Selected ==
    ASSUME NightTyped, NT!Select, deadline' = NT!NextNight(clock), UNCHANGED <<clock, phase, done, free>>,
           tick' \in BOOLEAN, paused' \in BOOLEAN, free \subseteq done
    PROVE  NightInv'
<1> USE NightConstants
<1>1. clock \in Nat /\ task' = [at |-> "select", since |-> clock] /\ clock' = clock
  BY DEF NightTyped, NT!Select
<1>2. deadline' \in clock + 1 .. clock + Day /\ NT!IsNight(deadline')
  BY <1>1, NightOfDay
<1>3. NightTyped'
  BY <1>1, <1>2 DEF NightTyped, NT!IsNight
<1>4. task'.since = clock' /\ clock' <= deadline'
  BY <1>1, <1>2
<1>5. deadline' = NT!NextNight(task'.since)
  BY <1>4
<1> QED
  BY <1>3, <1>4, <1>5 DEF NightInv, NT!NextNight, NT!IsNight

LEMMA NightStep == NightInv /\ [NT!Next]_nightvars => NightInv'
<1> SUFFICES ASSUME NightInv, [NT!Next]_nightvars PROVE NightInv'
  OBVIOUS
<1> USE NightConstants
<1>t. NightTyped /\ tick \in BOOLEAN /\ paused \in BOOLEAN
  BY DEF NightInv
<1>1. CASE NT!Check
  <2>1. /\ tick /\ deadline' = NT!NextNight(clock) /\ NT!Select /\ UNCHANGED <<clock, phase, done, free>>
        /\ tick' \in BOOLEAN /\ paused' \in BOOLEAN
    BY <1>1 DEF NT!Check
  <2>2. free \subseteq done
    BY <2>1 DEF NightInv
  <2> QED
    BY <1>t, <2>1, <2>2, Selected
<1>2. CASE NT!Maintain /\ paused
  <2>1. /\ deadline' = NT!NextNight(clock) /\ NT!Select /\ UNCHANGED <<clock, phase, done, free>>
        /\ tick' \in BOOLEAN /\ paused' \in BOOLEAN
    BY <1>2, <1>t DEF NT!Maintain
  <2>2. free \subseteq done
    BY <1>2 DEF NightInv
  <2> QED
    BY <1>t, <2>1, <2>2, Selected
<1>3. CASE NT!Maintain /\ ~ paused
  <2>1. /\ task.at = "select" /\ clock >= deadline /\ done' = done \cup {deadline}
        /\ task' = [at |-> "work", since |-> clock] /\ UNCHANGED <<clock, phase, deadline, tick, paused, free>>
    BY <1>3 DEF NT!Maintain
  <2>2. NightTyped'
    BY <1>t, <2>1 DEF NightTyped, NT!IsNight
  <2>3. tick' \in BOOLEAN /\ paused' \in BOOLEAN
    BY <1>t, <2>1
  <2>4. free' \subseteq done'
    BY <2>1 DEF NightInv
  <2>5. task'.at = "work"
    BY <2>1
  <2> QED
    BY <2>2, <2>3, <2>4, <2>5 DEF NightInv
<1>4. CASE NT!Finish
  <2>1. /\ deadline' = NT!NextNight(clock) /\ NT!Select /\ UNCHANGED <<clock, phase, done, free>>
        /\ task.at = "work" /\ tick' \in BOOLEAN /\ paused' \in BOOLEAN
    BY <1>4, <1>t DEF NT!Finish
  <2>2. free \subseteq done
    BY <2>1 DEF NightInv
  <2> QED
    BY <1>t, <2>1, <2>2, Selected
<1>5. CASE NT!Tick
  <2>1. /\ ~ NT!Ready /\ clock' = clock + 1 /\ UNCHANGED <<phase, deadline, task, paused, done>>
        /\ tick' \in BOOLEAN
    BY <1>5, <1>t DEF NT!Tick
  <2>2. free' = free \/ (/\ free' = free \cup {clock'} /\ NT!IsNight(clock') /\ ~ paused
                         /\ task.at = "select" /\ ~ tick')
    BY <1>5 DEF NT!Tick
  <2>3. NightTyped'
    <3>1. clock' \in Nat /\ clock <= clock' /\ clock' = clock + 1 /\ clock \in Nat
      BY <1>t, <2>1 DEF NightTyped
    <3>2. UNCHANGED <<phase, deadline, task, done>> /\ free \subseteq Nat /\ free' \subseteq free \cup {clock'}
      BY <1>t, <2>1, <2>2 DEF NightTyped
    <3>3. \A n \in done' \cup free' : n <= clock' /\ NT!IsNight(n)
      <4>1. ASSUME NEW n \in done \cup free PROVE n \in Nat /\ n <= clock /\ NT!IsNight(n)
        BY <1>t DEF NightTyped
      <4> QED
        BY <2>2, <3>1, <3>2, <4>1
    <3> QED
      BY <1>t, <3>1, <3>2, <3>3 DEF NightTyped, NT!IsNight
  <2>4. task.at = "select" => clock' <= deadline /\ deadline = NT!NextNight(task.since)
    BY <1>t, <2>1 DEF NightInv, NightTyped, NT!Ready
  <2>5. free \subseteq done
    BY <1>t, <2>1 DEF NightInv, NightTyped, NT!Ready
  <2>6. ASSUME NEW n \in free', n \notin done'
        PROVE  n = deadline' /\ n = clock' /\ task'.at = "select" /\ ~ tick' /\ ~ paused'
    <3>1. n = clock' /\ NT!IsNight(clock') /\ ~ paused /\ task.at = "select" /\ ~ tick'
      BY <2>1, <2>2, <2>5, <2>6
    <3>2. deadline \in task.since + 1 .. task.since + Day
      BY <1>t, <2>4, <3>1, NightOfDay DEF NightTyped
    <3>3. clock' \in task.since + 1 .. task.since + Day
      BY <1>t, <2>1, <2>4, <3>1, <3>2 DEF NightTyped
    <3>4. clock' = NT!NextNight(task.since)
      BY <1>t, <3>1, <3>3, NightOfDay DEF NightTyped
    <3> QED
      BY <2>1, <2>4, <3>1, <3>4
  <2>7. task'.at = "select" => deadline' = NT!NextNight(task'.since) /\ clock' <= deadline'
    BY <2>1, <2>4
  <2>8. paused' \in BOOLEAN
    BY <1>t, <2>1
  <2> QED
    BY <2>1, <2>3, <2>6, <2>7, <2>8 DEF NightInv, NT!NextNight, NT!IsNight
<1>6. CASE UNCHANGED nightvars
  BY <1>6 DEF nightvars, NightInv, NightTyped, NT!NextNight, NT!IsNight
<1> QED
  BY <1>1, <1>2, <1>3, <1>4, <1>5, <1>6 DEF NT!Next

LEMMA NightHolds == NightInv => NT!TypeOK /\ NT!NightsKept
<1> SUFFICES ASSUME NightInv PROVE NT!TypeOK /\ NT!NightsKept
  OBVIOUS
<1>1. /\ clock \in Nat /\ phase \in 0 .. Period - 1 /\ NT!IsNight(deadline)
      /\ task.at \in {"select", "work"} /\ task.since \in 0 .. clock
      /\ done \cup free \subseteq {n \in 0 .. clock : NT!IsNight(n)}
  BY DEF NightInv, NightTyped
<1>2. {tick, paused} \subseteq BOOLEAN
  BY DEF NightInv
<1>3. NT!NightsKept
  BY DEF NightInv, NT!NightsKept
<1> QED
  BY <1>1, <1>2, <1>3 DEF NT!TypeOK
-------------------------------------------------------------------------------
(***************************************************************************)
(* The market indices                                                      *)
(***************************************************************************)

LEMMA IndexConstants == Raw \subseteq Nat \ {0}
BY PartsAssumption DEF IX!IndicesAssumption

IndexPlaces == [pc : {"idle", "value", "base", "point"}, left : SUBSET Index,
                index : Index \cup {"none"}, base : Raw \cup {0}]

IndexTyped ==
    /\ file \subseteq Index /\ table \subseteq Index /\ doubted \subseteq Index /\ slips \in Nat
    /\ base \in [Index -> Raw \cup {0}] /\ points \in [Index -> SUBSET Raw]

\* Where a sampling of its own may be.
PlaceOK(s) ==
    /\ s \in IndexPlaces
    /\ s.pc = "idle" <=> s = IX!Resting
    /\ s.pc \in {"base", "point"} => s.index \in Index \ s.left /\ s.base \in Raw

\* A point is over the base its index has; a base is set by one process, of an
\* index that has none.
Over(s) == s.pc = "point" /\ s.index \notin doubted => base[s.index] = s.base
Sole(p) == job[p].pc = "base" /\ job[p].index \notin doubted =>
               base[job[p].index] = 0 /\ \A q \in Sampler : IX!Basing(q, job[p].index) => q = p

\* What OneBase rests on: a sampling that has yet to make its point has the
\* base everybody has, and nobody else is about to set another.
IndexInv ==
    /\ IndexTyped /\ known \in BOOLEAN
    /\ job \in [Sampler -> IndexPlaces]
    /\ \A p \in Sampler : PlaceOK(job[p]) /\ Over(job[p]) /\ Sole(p)
    /\ IX!OneBase /\ IX!PointsHaveIndex

LEMMA RestingOK == PlaceOK(IX!Resting) /\ IX!Resting.pc = "idle"
BY DEF PlaceOK, IX!Resting, IndexPlaces

LEMMA GoingOK ==
    ASSUME NEW left \in SUBSET Index
    PROVE  PlaceOK(IX!Going(left)) /\ IX!Going(left).pc \in {"idle", "value"}
<1>1. CASE left = {}
  BY <1>1, RestingOK DEF IX!Going
<1>2. CASE left # {}
  <2>1. IX!Going(left) = [pc |-> "value", left |-> left, index |-> "none", base |-> 0]
    BY <1>2 DEF IX!Going, IX!Resting
  <2>2. IX!Going(left) # IX!Resting
    BY <2>1 DEF IX!Resting
  <2> HIDE DEF IX!Going
  <2> QED
    BY <2>1, <2>2 DEF PlaceOK, IndexPlaces
<1> QED
  BY <1>1, <1>2

LEMMA IndexInit == IX!Init => IndexInv
<1> SUFFICES ASSUME IX!Init PROVE IndexInv
  OBVIOUS
<1>1. IndexTyped
  BY DEF IX!Init, IndexTyped
<1>2. known \in BOOLEAN
  BY DEF IX!Init
<1>3. job = [p \in Sampler |-> IX!Resting] /\ points = [i \in Index |-> {}]
  BY DEF IX!Init
<1>4. PlaceOK(IX!Resting) /\ IX!Resting.pc = "idle"
  BY RestingOK
<1>5. \A p \in Sampler : PlaceOK(job[p]) /\ Over(job[p]) /\ Sole(p)
  BY <1>3, <1>4 DEF Over, Sole
<1>6. job \in [Sampler -> IndexPlaces]
  BY <1>3, <1>4 DEF PlaceOK
<1>7. IX!OneBase /\ IX!PointsHaveIndex
  BY <1>3 DEF IX!OneBase, IX!PointsHaveIndex
<1> QED
  BY <1>1, <1>2, <1>5, <1>6, <1>7 DEF IndexInv

\* A sampling that has nothing on hand gives no reason to doubt a base.
LEMMA Idles ==
    ASSUME IndexInv, NEW p \in Sampler, NEW s, PlaceOK(s), s.pc \in {"idle", "value"},
           job' = [job EXCEPT ![p] = s], UNCHANGED <<base, doubted>>,
           IndexTyped', known' \in BOOLEAN, IX!OneBase', IX!PointsHaveIndex'
    PROVE  IndexInv'
<1>1. s \in IndexPlaces /\ job' \in [Sampler -> IndexPlaces]
  BY DEF PlaceOK, IndexInv
<1>2. ASSUME NEW q \in Sampler PROVE PlaceOK(job[q])' /\ Over(job[q])' /\ Sole(q)'
  <2>1. CASE q = p
    <3>1. job'[q] = s
      BY <2>1 DEF IndexInv
    <3> QED
      BY <3>1 DEF PlaceOK, Over, Sole
  <2>2. CASE q # p
    <3>1. job'[q] = job[q] /\ PlaceOK(job[q]) /\ Over(job[q]) /\ Sole(q)
      BY <2>2 DEF IndexInv
    <3>2. ASSUME NEW r \in Sampler, NEW i, IX!Basing(r, i)' PROVE IX!Basing(r, i)
      BY <3>2 DEF IX!Basing, IndexInv
    <3> QED
      BY <3>1, <3>2 DEF PlaceOK, Over, Sole
  <2> QED
    BY <2>1, <2>2
<1> QED
  BY <1>1, <1>2 DEF IndexInv

LEMMA IndexStep == IndexInv /\ [IX!Next]_indexvars => IndexInv'
<1> SUFFICES ASSUME IndexInv, [IX!Next]_indexvars PROVE IndexInv'
  OBVIOUS
<1> USE IndexConstants
<1>t. /\ IndexTyped /\ known \in BOOLEAN /\ job \in [Sampler -> IndexPlaces]
      /\ IX!OneBase /\ IX!PointsHaveIndex
      /\ \A p \in Sampler : PlaceOK(job[p]) /\ Over(job[p]) /\ Sole(p)
  BY DEF IndexInv
<1>m. IX!Mishap \/ UNCHANGED slips => slips' \in Nat
  BY <1>t DEF IndexTyped, IX!Mishap
<1>1. ASSUME NEW p \in Sampler, IX!Start(p) PROVE IndexInv'
  <2>1. /\ job' = [job EXCEPT ![p] = IX!Resting] /\ UNCHANGED <<file, known, base, doubted>> /\ slips' \in Nat
    BY <1>1, <1>m DEF IX!Start
  <2>2. \/ UNCHANGED <<table, points>>
        \/ table' = file /\ points' = [i \in Index |-> IF i \in file THEN points[i] ELSE {}]
    BY <1>1 DEF IX!Start
  <2>3. points' \in [Index -> SUBSET Raw] /\ table' \subseteq Index
    BY <1>t, <2>2 DEF IndexTyped
  <2>4. \A i \in Index : points'[i] \subseteq points[i] /\ (i \notin table' => points'[i] = {})
    BY <1>t, <2>2 DEF IX!PointsHaveIndex, IndexTyped
  <2>5. IndexTyped'
    BY <1>t, <2>1, <2>3 DEF IndexTyped
  <2>6. IX!OneBase' /\ IX!PointsHaveIndex'
    BY <1>t, <2>1, <2>4 DEF IX!OneBase, IX!PointsHaveIndex
  <2> QED
    BY <1>t, <2>1, <2>5, <2>6, RestingOK, Idles
<1>2. CASE IX!EditFile \/ IX!MappingLands \/ UNCHANGED indexvars
  <2>1. UNCHANGED <<table, base, points, job, doubted>> /\ file' \subseteq Index /\ slips' \in Nat
    BY <1>2, <1>t, <1>m DEF IX!EditFile, IX!MappingLands, indexvars, IndexTyped
  <2>2. known' \in BOOLEAN
    BY <1>2, <1>t DEF IX!EditFile, IX!MappingLands, indexvars
  <2>3. IndexTyped' /\ IX!OneBase' /\ IX!PointsHaveIndex'
    BY <1>t, <2>1 DEF IndexTyped, IX!OneBase, IX!PointsHaveIndex
  <2>4. \A p \in Sampler : (PlaceOK(job[p]) /\ Over(job[p]) /\ Sole(p))'
    BY <1>t, <2>1 DEF PlaceOK, Over, Sole, IX!Basing
  <2>5. job' \in [Sampler -> IndexPlaces]
    BY <1>t, <2>1
  <2> QED
    BY <2>2, <2>3, <2>4, <2>5 DEF IndexInv
<1>3. ASSUME NEW p \in Sampler, IX!Sample(p) \/ IX!SampleFails(p) \/ \E i \in Index : IX!PassOver(p, i)
      PROVE  IndexInv'
  <2>1. /\ UNCHANGED <<file, known, table, base, points, doubted>> /\ slips' \in Nat
        /\ \E s : job' = [job EXCEPT ![p] = s] /\ PlaceOK(s) /\ s.pc \in {"idle", "value"}
    <3>1. CASE IX!Sample(p)
      <4>1. PlaceOK(IX!Going(table)) /\ IX!Going(table).pc \in {"idle", "value"}
        BY <1>t, GoingOK DEF IndexTyped
      <4> QED
        BY <3>1, <4>1, <1>m DEF IX!Sample
    <3>2. CASE IX!SampleFails(p)
      BY <3>2, <1>m, RestingOK DEF IX!SampleFails
    <3>3. ASSUME NEW i \in Index, IX!PassOver(p, i)
          PROVE  /\ UNCHANGED <<file, known, table, base, points, doubted>> /\ slips' \in Nat
                 /\ \E s : job' = [job EXCEPT ![p] = s] /\ PlaceOK(s) /\ s.pc \in {"idle", "value"}
      <4>1. job[p].left \ {i} \in SUBSET Index
        BY <1>t DEF IndexPlaces
      <4>2. PlaceOK(IX!Going(job[p].left \ {i})) /\ IX!Going(job[p].left \ {i}).pc \in {"idle", "value"}
        BY <4>1, GoingOK
      <4> QED
        BY <3>3, <4>2, <1>m DEF IX!PassOver
    <3> QED
      BY <1>3, <3>1, <3>2, <3>3
  <2>2. IndexTyped' /\ IX!OneBase' /\ IX!PointsHaveIndex'
    BY <1>t, <2>1 DEF IndexTyped, IX!OneBase, IX!PointsHaveIndex
  <2>3. known' \in BOOLEAN
    BY <1>t, <2>1
  <2> QED
    BY <2>1, <2>2, <2>3, Idles
<1>4. ASSUME NEW p \in Sampler, NEW i \in Index, IX!Value(p, i) PROVE IndexInv'
  <2>1. PICK place \in {"base", "point"}, c \in Raw :
            /\ place = "point" => c = base[i]
            /\ job' = [job EXCEPT ![p] = [pc |-> place, left |-> job[p].left \ {i}, index |-> i, base |-> c]]
            /\ slips' \in Nat
            /\ doubted' = IF place = "base" /\ (base[i] # 0 \/ \E q \in Sampler : IX!Basing(q, i))
                          THEN doubted \cup {i} ELSE doubted
    BY <1>4, <1>m DEF IX!Value
  <2>2. UNCHANGED <<file, known, table, base, points>> /\ job[p].pc = "value"
    BY <1>4 DEF IX!Value
  <2> DEFINE s == [pc |-> place, left |-> job[p].left \ {i}, index |-> i, base |-> c]
  <2>3. job' = [job EXCEPT ![p] = s]
    BY <2>1
  <2>4. /\ s \in IndexPlaces /\ PlaceOK(s) /\ s.pc = place /\ s.index = i /\ s.base = c
    BY <1>t, <2>1 DEF PlaceOK, IndexPlaces, IX!Resting
  <2> HIDE DEF s
  <2>5. doubted \subseteq doubted' /\ doubted' \subseteq Index
    BY <1>t, <2>1 DEF IndexTyped
  <2>6. IndexTyped' /\ IX!OneBase' /\ IX!PointsHaveIndex'
    BY <1>t, <2>1, <2>2, <2>5 DEF IndexTyped, IX!OneBase, IX!PointsHaveIndex
  <2>7. job' \in [Sampler -> IndexPlaces] /\ job'[p] = s /\ \A q \in Sampler \ {p} : job'[q] = job[q]
    BY <1>t, <2>3, <2>4
  <2>8. ASSUME NEW q \in Sampler, q # p PROVE (PlaceOK(job[q]) /\ Over(job[q]) /\ Sole(q))'
    <3>1. PlaceOK(job[q]) /\ Over(job[q]) /\ Sole(q) /\ job'[q] = job[q]
      BY <1>t, <2>7, <2>8
    <3>2. PlaceOK(job[q])' /\ Over(job[q])'
      BY <3>1, <2>2, <2>5 DEF PlaceOK, Over
    <3>3. ASSUME job'[q].pc = "base", job'[q].index \notin doubted', NEW r \in Sampler, IX!Basing(r, job[q].index)'
          PROVE  r = q
      <4>1. CASE r = p
        <5>1. place = "base" /\ i = job[q].index /\ IX!Basing(q, i)
          BY <2>4, <2>7, <3>1, <3>3, <4>1 DEF IX!Basing
        <5>2. i \in doubted'
          BY <2>1, <5>1
        <5> QED
          BY <3>1, <3>3, <5>1, <5>2
      <4>2. CASE r # p
        BY <2>5, <2>7, <3>1, <3>3, <4>2 DEF Sole, IX!Basing
      <4> QED
        BY <4>1, <4>2
    <3>4. Sole(q)'
      BY <2>2, <2>5, <3>1, <3>3 DEF Sole
    <3> QED
      BY <3>2, <3>4
  <2>9. (PlaceOK(job[p]) /\ Over(job[p]) /\ Sole(p))'
    <3>1. PlaceOK(job[p])'
      BY <2>4, <2>7 DEF PlaceOK
    <3>2. Over(job[p])'
      BY <2>1, <2>2, <2>4, <2>7 DEF Over
    <3>3. ASSUME place = "base", i \notin doubted' PROVE base[i] = 0 /\ \A q \in Sampler : ~ IX!Basing(q, i)
      BY <2>1, <3>3
    <3>4. Sole(p)'
      BY <2>2, <2>4, <2>7, <3>3 DEF Sole, IX!Basing
    <3> QED
      BY <3>1, <3>2, <3>4
  <2>10. known' \in BOOLEAN
    BY <1>t, <2>2
  <2> QED
    BY <2>6, <2>7, <2>8, <2>9, <2>10 DEF IndexInv
<1>5. ASSUME NEW p \in Sampler, IX!SetBase(p) PROVE IndexInv'
  <2> DEFINE i == job[p].index
             c == job[p].base
  <2>1. /\ job[p].pc = "base" /\ base' = [base EXCEPT ![i] = c] /\ job' = [job EXCEPT ![p].pc = "point"]
        /\ UNCHANGED <<file, known, table, points, doubted, slips>>
    BY <1>5 DEF IX!SetBase
  <2>2. i \in Index \ job[p].left /\ c \in Raw /\ PlaceOK(job[p]) /\ Sole(p)
    BY <1>t, <2>1 DEF PlaceOK
  <2>3. /\ job'[p] = [pc |-> "point", left |-> job[p].left, index |-> i, base |-> c]
        /\ job' \in [Sampler -> IndexPlaces] /\ \A q \in Sampler \ {p} : job'[q] = job[q]
    BY <1>t, <2>1 DEF IndexPlaces
  <2>4. base' \in [Index -> Raw \cup {0}] /\ base'[i] = c /\ \A j \in Index \ {i} : base'[j] = base[j]
    BY <1>t, <2>1, <2>2 DEF IndexTyped
  <2>5. i \notin doubted => base[i] = 0 /\ \A q \in Sampler : IX!Basing(q, i) => q = p
    BY <2>1, <2>2 DEF Sole
  <2> HIDE DEF i, c
  <2>6. IndexTyped'
    BY <1>t, <2>1, <2>4 DEF IndexTyped
  <2>7. IX!OneBase'
    <3>1. ASSUME NEW j \in Index \ doubted PROVE points[j] \subseteq {base'[j]}
      <4>1. CASE j = i
        <5>1. points[j] \subseteq {0} /\ points[j] \subseteq Raw
          BY <1>t, <2>5, <3>1, <4>1 DEF IX!OneBase, IndexTyped
        <5> QED
          BY <5>1
      <4>2. CASE j # i
        BY <1>t, <2>4, <3>1, <4>2 DEF IX!OneBase
      <4> QED
        BY <4>1, <4>2
    <3> QED
      BY <2>1, <3>1 DEF IX!OneBase
  <2>8. IX!PointsHaveIndex'
    BY <1>t, <2>1 DEF IX!PointsHaveIndex
  <2>9. ASSUME NEW q \in Sampler, q # p PROVE (PlaceOK(job[q]) /\ Over(job[q]) /\ Sole(q))'
    <3>1. PlaceOK(job[q]) /\ Over(job[q]) /\ Sole(q) /\ job'[q] = job[q]
      BY <1>t, <2>3, <2>9
    <3>2. PlaceOK(job[q])'
      BY <3>1 DEF PlaceOK
    <3>3. ASSUME job[q].pc = "point", job[q].index \notin doubted PROVE base'[job[q].index] = job[q].base
      <4>1. base[job[q].index] = job[q].base /\ job[q].base \in Raw /\ job[q].index \in Index
        BY <3>1, <3>3 DEF Over, PlaceOK
      <4>2. job[q].index # i
        BY <2>5, <3>3, <4>1
      <4> QED
        BY <2>4, <4>1, <4>2
    <3>4. Over(job[q])'
      BY <2>1, <3>1, <3>3 DEF Over
    <3>5. ASSUME job[q].pc = "base", job[q].index \notin doubted
          PROVE  base'[job[q].index] = 0 /\ \A r \in Sampler : IX!Basing(r, job[q].index)' => r = q
      <4>1. job[q].index \in Index /\ base[job[q].index] = 0 /\ \A r \in Sampler : IX!Basing(r, job[q].index) => r = q
        BY <3>1, <3>5 DEF Sole, PlaceOK
      <4>2. job[q].index # i
        BY <2>5, <2>9, <3>5 DEF IX!Basing
      <4>3. ASSUME NEW r \in Sampler, IX!Basing(r, job[q].index)' PROVE IX!Basing(r, job[q].index)
        BY <2>3, <3>1, <4>3 DEF IX!Basing
      <4> QED
        BY <2>4, <4>1, <4>2, <4>3
    <3>6. Sole(q)'
      BY <2>1, <3>1, <3>5 DEF Sole
    <3> QED
      BY <3>2, <3>4, <3>6
  <2>10. (PlaceOK(job[p]) /\ Over(job[p]) /\ Sole(p))'
    <3>1. job'[p] \in IndexPlaces /\ job'[p].pc = "point" /\ job'[p].left = job[p].left /\ job'[p].index = i /\ job'[p].base = c
      BY <2>3
    <3>2. PlaceOK(job[p])'
      BY <2>2, <3>1, RestingOK DEF PlaceOK, i, c
    <3> QED
      BY <2>4, <3>1, <3>2 DEF Over, Sole
  <2>11. known' \in BOOLEAN
    BY <1>t, <2>1
  <2> QED
    BY <2>3, <2>6, <2>7, <2>8, <2>9, <2>10, <2>11 DEF IndexInv
<1>6. ASSUME NEW p \in Sampler, IX!SetPoint(p) PROVE IndexInv'
  <2> DEFINE i == job[p].index
             c == job[p].base
  <2>1. /\ job[p].pc = "point" /\ UNCHANGED <<file, known, table, base, doubted, slips>>
        /\ \/ i \in table /\ points' = [points EXCEPT ![i] = @ \cup {c}] /\ job' = [job EXCEPT ![p] = IX!Going(job[p].left)]
           \/ job' = [job EXCEPT ![p] = IX!Resting] /\ points' = points
    BY <1>6 DEF IX!SetPoint
  <2>2. i \in Index /\ c \in Raw /\ job[p].left \in SUBSET Index /\ (i \notin doubted => base[i] = c)
    BY <1>t, <2>1 DEF PlaceOK, Over, IndexPlaces
  <2>3. PICK s : job' = [job EXCEPT ![p] = s] /\ PlaceOK(s) /\ s.pc \in {"idle", "value"}
    BY <2>1, <2>2, GoingOK, RestingOK
  <2> HIDE DEF i, c
  <2>4. IndexTyped'
    BY <1>t, <2>1, <2>2 DEF IndexTyped
  <2>5. IX!OneBase'
    BY <1>t, <2>1, <2>2 DEF IX!OneBase, IndexTyped
  <2>6. IX!PointsHaveIndex'
    BY <1>t, <2>1, <2>2 DEF IX!PointsHaveIndex, IndexTyped
  <2>7. known' \in BOOLEAN
    BY <1>t, <2>1
  <2> QED
    BY <2>1, <2>3, <2>4, <2>5, <2>6, <2>7, Idles
<1> QED
  BY <1>1, <1>2, <1>3, <1>4, <1>5, <1>6 DEF IX!Next

LEMMA IndexHolds == IndexInv => IX!TypeOK /\ IX!OneBase /\ IX!PointsHaveIndex
<1> SUFFICES ASSUME IndexInv PROVE IX!TypeOK
  BY DEF IndexInv
<1>1. {file, table, doubted} \subseteq SUBSET Index /\ slips \in Nat
      /\ base \in [Index -> Raw \cup {0}] /\ points \in [Index -> SUBSET Raw]
  BY DEF IndexInv, IndexTyped
<1>2. known \in BOOLEAN
  BY DEF IndexInv
<1>3. ASSUME NEW p \in Sampler
      PROVE  /\ job[p].left \subseteq Index /\ (job[p].pc = "idle" <=> job[p] = IX!Resting)
             /\ job[p].pc \in {"base", "point"} => job[p].index \in Index \ job[p].left /\ job[p].base \in Raw
  BY DEF IndexInv, PlaceOK, IndexPlaces
<1> QED
  BY <1>1, <1>2, <1>3 DEF IX!TypeOK
-------------------------------------------------------------------------------
(***************************************************************************)
(* The minting of tokens                                                   *)
(***************************************************************************)

LEMMA MintConstants == MT!None \notin Token /\ MT!None \notin Browser /\ PerHour \in Nat \ {0}
BY PartsAssumption DEF MT!MintingAssumption

MintRequests == [from : Browser, n : Nat, kind : MT!Kinds, sent : Token \cup {MT!None},
                 set : Token \cup {MT!None}, done : BOOLEAN]

MintTyped ==
    /\ used \subseteq Token /\ data \subseteq used /\ loose \subseteq Browser
    /\ cookie \in [Browser -> used \cup {MT!None}]
    /\ writer \in [Token -> Browser \cup {MT!None}] /\ \A t \in data : writer[t] \in Browser
    /\ asked \in [Browser -> Nat]
    /\ requests \subseteq MintRequests
    /\ \A r \in requests : r.n < asked[r.from] /\ {r.sent, r.set} \subseteq used \cup {MT!None}

\* What was minted in the hour that ends with a half hour.
Hourly(m, t) == {k \in DOMAIN m : m[k] \in t - 1 .. t}

MintRate ==
    /\ IsFiniteSet(used) /\ Len(minted) = Cardinality(used)
    /\ time \in Nat \ {0} /\ minted \in Seq(1 .. time)
    /\ \A t \in 1 .. time : Cardinality(Hourly(minted, t)) <= PerHour

\* What StoredIsReachable rests on, for a browser that has not lost sight of
\* anything: it has asked for one thing at a time, with the cookie it still
\* has, and what it stored is the token of that cookie, or of the one that is
\* about to replace it.
Sight(b) ==
    /\ \A r \in requests : \A s \in requests : r.from = b /\ s.from = b => r = s
    /\ \A r \in requests : r.from = b /\ ~ r.done =>
           IF r.kind = "restore" THEN cookie[b] = MT!None ELSE r.sent = cookie[b]
    /\ \A t \in data : writer[t] = b =>
           /\ \A r \in requests : r.from = b /\ r.done => r.set = t
           /\ (\A r \in requests : r.from = b => ~ r.done) => cookie[b] = t

MintReach == \A b \in Browser \ loose : Sight(b)
MintInv == MintTyped /\ MintRate /\ MintReach

LEMMA MintInit == MT!Init => MintInv
<1> SUFFICES ASSUME MT!Init PROVE MintInv
  OBVIOUS
<1> USE MintConstants
<1>1. /\ cookie = [b \in Browser |-> MT!None] /\ requests = {} /\ data = {} /\ minted = <<>> /\ used = {} /\ time = 1
      /\ asked = [b \in Browser |-> 0] /\ writer = [t \in Token |-> MT!None] /\ loose = {}
  BY DEF MT!Init
<1>2. MintTyped
  BY <1>1 DEF MintTyped
<1>3. MintRate
  <2>1. IsFiniteSet(used) /\ Cardinality(used) = 0 /\ Cardinality({}) = 0
    BY <1>1, FS_EmptySet
  <2>2. minted \in Seq(1 .. time) /\ Len(minted) = 0
    BY <1>1
  <2>3. \A t \in 1 .. time : Hourly(minted, t) = {}
    BY <1>1 DEF Hourly
  <2> QED
    BY <1>1, <2>1, <2>2, <2>3 DEF MintRate
<1>4. MintReach
  BY <1>1 DEF MintReach, Sight
<1> QED
  BY <1>2, <1>3, <1>4 DEF MintInv

-------------------------------------------------------------------------------

\* The rate of the mints.

LEMMA RateStays == MintRate /\ UNCHANGED <<minted, time, used>> => MintRate'
BY DEF MintRate, Hourly

LEMMA HourlyFinite ==
    ASSUME NEW m \in Seq(Nat), NEW t
    PROVE  IsFiniteSet(Hourly(m, t)) /\ Cardinality(Hourly(m, t)) \in Nat
<1>1. IsFiniteSet(1 .. Len(m)) /\ Hourly(m, t) \in SUBSET (1 .. Len(m))
  <2>1. Len(m) \in Int /\ DOMAIN m = 1 .. Len(m)
    OBVIOUS
  <2> QED
    BY <2>1, FS_Interval DEF Hourly
<1> HIDE DEF Hourly
<1> QED
  BY <1>1, FS_Subset, FS_CardinalityType

LEMMA RateAsTimePasses == MintRate /\ MT!HalfHour => MintRate'
<1> SUFFICES ASSUME MintRate, MT!HalfHour PROVE MintRate'
  OBVIOUS
<1> USE MintConstants
<1>1. time \in Nat \ {0} /\ time' = time + 1 /\ UNCHANGED <<minted, used>> /\ minted \in Seq(1 .. time)
  BY DEF MintRate, MT!HalfHour
<1>2. \A k \in DOMAIN minted : minted[k] \in 1 .. time
  BY <1>1
<1>3. minted' \in Seq(1 .. time') /\ minted \in Seq(Nat)
  <2>1. \A k \in 1 .. Len(minted) : minted[k] \in 1 .. time' /\ minted[k] \in Nat
    BY <1>1, <1>2
  <2> QED
    BY <1>1, <2>1
<1>4. ASSUME NEW t \in 1 .. time' PROVE Cardinality(Hourly(minted, t)) <= PerHour
  <2>1. CASE t \in 1 .. time
    BY <2>1 DEF MintRate
  <2>2. CASE t = time + 1
    <3>1. Hourly(minted, t) \in SUBSET Hourly(minted, time)
      BY <1>1, <1>2, <2>2 DEF Hourly
    <3>2. Cardinality(Hourly(minted, time)) <= PerHour
      BY <1>1 DEF MintRate
    <3>3. IsFiniteSet(Hourly(minted, time)) /\ Cardinality(Hourly(minted, time)) \in Nat /\ Cardinality(Hourly(minted, t)) \in Nat
      BY <1>3, HourlyFinite
    <3>4. Cardinality(Hourly(minted, t)) <= Cardinality(Hourly(minted, time))
      BY <3>1, <3>3, FS_Subset
    <3> QED
      BY <3>2, <3>3, <3>4
  <2> QED
    BY <1>1, <2>1, <2>2
<1> QED
  BY <1>1, <1>3, <1>4 DEF MintRate

LEMMA RateAsMinted ==
    ASSUME MintRate, MT!Allowed, minted' = Append(minted, time), time' = time,
           NEW t \in Token \ used, used' = used \cup {t}
    PROVE  MintRate'
<1> USE MintConstants
<1>1. time \in Nat \ {0} /\ minted \in Seq(1 .. time) /\ IsFiniteSet(used) /\ Len(minted) = Cardinality(used)
  BY DEF MintRate
<1>2. minted' \in Seq(1 .. time') /\ Len(minted') = Len(minted) + 1
  BY <1>1
<1>3. IsFiniteSet(used') /\ Len(minted') = Cardinality(used')
  BY <1>1, <1>2, FS_AddElement
<1> DEFINE l == Len(minted)
<1>4. /\ l \in Nat /\ DOMAIN minted = 1 .. l /\ DOMAIN minted' = 1 .. l + 1
      /\ minted'[l + 1] = time /\ \A k \in 1 .. l : minted'[k] = minted[k] /\ minted[k] \in 1 .. time
  BY <1>1
<1>5. minted \in Seq(Nat)
  BY <1>1
<1> HIDE DEF l
<1>6. ASSUME NEW u \in 1 .. time PROVE Cardinality(Hourly(minted', u)) <= PerHour
  <2>1. CASE u # time
    <3>1. Hourly(minted', u) = Hourly(minted, u)
      BY <1>1, <1>4, <2>1 DEF Hourly
    <3> QED
      BY <3>1 DEF MintRate
  <2>2. CASE u = time
    <3>1. Hourly(minted', u) = Hourly(minted, u) \cup {l + 1}
      BY <1>1, <1>4, <2>2 DEF Hourly
    <3>2. Hourly(minted, u) = MT!Recent
      BY <1>1, <1>4, <2>2 DEF Hourly, MT!Recent
    <3>3. Cardinality(Hourly(minted, u)) < PerHour
      BY <3>2, SameCount DEF MT!Allowed
    <3>4. IsFiniteSet(Hourly(minted, u)) /\ Cardinality(Hourly(minted, u)) \in Nat
      BY <1>5, HourlyFinite
    <3>5. \/ Cardinality(Hourly(minted', u)) = Cardinality(Hourly(minted, u)) + 1
          \/ Cardinality(Hourly(minted', u)) = Cardinality(Hourly(minted, u))
      BY <3>1, <3>4, FS_AddElement
    <3> QED
      BY <3>3, <3>4, <3>5
  <2> QED
    BY <2>1, <2>2
<1> QED
  BY <1>1, <1>2, <1>3, <1>6 DEF MintRate

-------------------------------------------------------------------------------

\* What the browsers have sight of.

\* While its one question is open, a browser has the cookie of all it stored.
LEMMA WhileAsking ==
    ASSUME MintReach, NEW r \in requests, ~ r.done, r.from \in Browser \ loose,
           NEW t \in data, writer[t] = r.from
    PROVE  cookie[r.from] = t
<1>1. Sight(r.from)
  BY DEF MintReach
<1>2. \A s \in requests : s.from = r.from => ~ s.done
  BY <1>1 DEF Sight
<1> QED
  BY <1>1, <1>2 DEF Sight

LEMMA AnswerReach ==
    ASSUME MintTyped, MintReach, NEW r \in requests, ~ r.done, NEW token \in Token \cup {MT!None},
           MT!Answered(r, token), cookie' = cookie, loose \subseteq loose',
           \A t \in data' : /\ writer'[t] = r.from /\ r.from \notin loose' => t = token
                            /\ writer'[t] # r.from => t \in data /\ writer[t] = writer'[t]
    PROVE  MintReach'
<1> DEFINE a == [r EXCEPT !.set = token, !.done = TRUE]
<1>1. requests' = (requests \ {r}) \cup {a} /\ r \in MintRequests
  BY DEF MT!Answered, MintTyped
<1>3. a.from = r.from /\ a.set = token /\ a.done
  BY <1>1 DEF MintRequests
<1> HIDE DEF a
<1>4. ASSUME NEW b \in Browser \ loose', b # r.from PROVE Sight(b)'
  <2>1. Sight(b)
    BY <1>4 DEF MintReach
  <2>2. \A s : s.from = b => (s \in requests' <=> s \in requests)
    BY <1>1, <1>3, <1>4
  <2>3. \A t \in data' : writer'[t] = b => t \in data /\ writer[t] = b
    BY <1>4
  <2> QED
    BY <2>1, <2>2, <2>3 DEF Sight
<1>5. ASSUME r.from \in Browser \ loose' PROVE Sight(r.from)'
  <2>1. \A s \in requests' : s.from = r.from => s = a
    BY <1>1, <1>3, <1>5 DEF MintReach, Sight
  <2>2. \A t \in data' : writer'[t] = r.from => t = token
    BY <1>5
  <2>3. a \in requests'
    BY <1>1
  <2> QED
    BY <1>3, <2>1, <2>2, <2>3 DEF Sight
<1> QED
  BY <1>4, <1>5 DEF MintReach

\* A question that is over, answered or not.
LEMMA OverReach ==
    ASSUME MintTyped, MintReach, NEW r \in requests, requests' = requests \ {r},
           UNCHANGED <<data, writer>>, loose \subseteq loose',
           \/ ~ r.done /\ cookie' = cookie
           \/ r.done /\ cookie' = [cookie EXCEPT ![r.from] = r.set]
           \/ r.from \in loose' /\ cookie' = cookie
    PROVE  MintReach'
<1>1. r.from \in Browser /\ cookie \in [Browser -> used \cup {MT!None}]
  BY DEF MintTyped, MintRequests
<1>2. ASSUME NEW b \in Browser \ loose', b # r.from PROVE Sight(b)'
  <2>1. Sight(b)
    BY <1>2 DEF MintReach
  <2>2. \A s : s.from = b => (s \in requests' <=> s \in requests)
    BY <1>2
  <2>3. cookie'[b] = cookie[b]
    BY <1>1, <1>2
  <2> QED
    BY <2>1, <2>2, <2>3 DEF Sight
<1>3. ASSUME r.from \in Browser \ loose' PROVE Sight(r.from)'
  <2>1. Sight(r.from)
    BY <1>3 DEF MintReach
  <2>2. \A s \in requests' : s.from # r.from
    BY <2>1 DEF Sight
  <2>3. ASSUME NEW t \in data, writer[t] = r.from PROVE cookie'[r.from] = t
    <3>1. CASE ~ r.done /\ cookie' = cookie
      BY <1>3, <2>3, <3>1, WhileAsking
    <3>2. CASE r.done /\ cookie' = [cookie EXCEPT ![r.from] = r.set]
      BY <1>1, <2>1, <2>3, <3>2 DEF Sight
    <3> QED
      BY <1>3, <3>1, <3>2
  <2> QED
    BY <2>2, <2>3 DEF Sight
<1> QED
  BY <1>2, <1>3 DEF MintReach

-------------------------------------------------------------------------------

LEMMA AnswerTyped ==
    ASSUME MintTyped, NEW r \in requests, NEW token \in used' \cup {MT!None}, MT!Answered(r, token),
           UNCHANGED <<cookie, asked>>, loose' \subseteq Browser, used \subseteq used', used' \subseteq Token,
           data' \subseteq used', writer' \in [Token -> Browser \cup {MT!None}],
           \A t \in data' : writer'[t] \in Browser
    PROVE  MintTyped'
<1> DEFINE a == [r EXCEPT !.set = token, !.done = TRUE]
<1>1. requests' = (requests \ {r}) \cup {a} /\ r \in MintRequests
  BY DEF MT!Answered, MintTyped
<1>2. a \in MintRequests /\ a.from = r.from /\ a.n = r.n /\ a.sent = r.sent /\ a.set = token
  BY <1>1 DEF MintRequests
<1> HIDE DEF a
<1>3. requests' \subseteq MintRequests
  BY <1>1, <1>2 DEF MintTyped
<1>4. \A s \in requests' : s.n < asked'[s.from] /\ {s.sent, s.set} \subseteq used' \cup {MT!None}
  <2>1. \A s \in requests : s.n < asked[s.from] /\ {s.sent, s.set} \subseteq used \cup {MT!None}
    BY DEF MintTyped
  <2> QED
    BY <1>1, <1>2, <2>1
<1>5. cookie' \in [Browser -> used' \cup {MT!None}]
  BY DEF MintTyped
<1> QED
  BY <1>3, <1>4, <1>5 DEF MintTyped

LEMMA OverTyped ==
    ASSUME MintTyped, NEW r \in requests, requests' = requests \ {r},
           UNCHANGED <<data, writer, used, asked>>, loose' \subseteq Browser,
           cookie' = cookie \/ cookie' = [cookie EXCEPT ![r.from] = r.set]
    PROVE  MintTyped'
<1>1. cookie' \in [Browser -> used \cup {MT!None}]
  BY DEF MintTyped
<1> QED
  BY <1>1 DEF MintTyped

LEMMA SendKeeps ==
    ASSUME MintTyped, MintReach, NEW b \in Browser, NEW kind \in MT!Kinds, NEW code \in Token \cup {MT!None},
           MT!Send(b, kind, code)
    PROVE  MintTyped' /\ MintReach'
<1> DEFINE a == [from |-> b, n |-> asked[b], kind |-> kind, sent |-> code, set |-> MT!None, done |-> FALSE]
<1>1. /\ asked' = [asked EXCEPT ![b] = @ + 1] /\ requests' = requests \cup {a}
      /\ UNCHANGED <<cookie, data, minted, time, used, writer>>
      /\ code \in used \cup {MT!None}
      /\ kind # "restore" => code = cookie[b]
  <2>1. \A o \in Browser : cookie[o] \in used \cup {MT!None}
    BY DEF MintTyped
  <2> QED
    BY <2>1 DEF MT!Send
<1>2. /\ loose \subseteq loose' /\ loose' \subseteq Browser
      /\ b \notin loose' => /\ \A r \in requests : r.from # b
                            /\ kind = "restore" => cookie[b] = MT!None
  BY DEF MT!Send, MintTyped
<1>3. a \in MintRequests /\ a.from = b /\ a.n = asked[b] /\ a.kind = kind /\ a.sent = code /\ a.set = MT!None /\ ~ a.done
  BY DEF MintRequests, MintTyped
<1> HIDE DEF a
<1>4. MintTyped'
  <2>1. asked' \in [Browser -> Nat] /\ asked'[b] = asked[b] + 1 /\ \A o \in Browser \ {b} : asked'[o] = asked[o]
    BY <1>1 DEF MintTyped
  <2>2. ASSUME NEW s \in requests'
        PROVE  s \in MintRequests /\ s.n < asked'[s.from] /\ {s.sent, s.set} \subseteq used \cup {MT!None}
    <3>1. CASE s = a
      <4>1. asked[b] \in Nat
        BY DEF MintTyped
      <4> QED
        BY <1>1, <1>3, <2>1, <3>1, <4>1
    <3>2. CASE s \in requests
      <4>1. s \in MintRequests /\ s.n < asked[s.from] /\ {s.sent, s.set} \subseteq used \cup {MT!None}
        BY <3>2 DEF MintTyped
      <4>2. s.from \in Browser /\ s.n \in Nat /\ asked[s.from] \in Nat
        BY <4>1 DEF MintRequests, MintTyped
      <4>3. asked'[s.from] >= asked[s.from] /\ asked'[s.from] \in Nat
        BY <2>1, <4>2
      <4> QED
        BY <4>1, <4>2, <4>3
    <3> QED
      BY <1>1, <3>1, <3>2
  <2>3. requests' \subseteq MintRequests
    BY <2>2
  <2> QED
    BY <1>1, <1>2, <2>1, <2>2, <2>3 DEF MintTyped
<1>5. ASSUME NEW o \in Browser \ loose' PROVE Sight(o)'
  <2>1. Sight(o)
    BY <1>2, <1>5 DEF MintReach
  <2>2. CASE o # b
    <3>1. \A s : s.from = o => (s \in requests' <=> s \in requests)
      BY <1>1, <1>3, <2>2
    <3> QED
      BY <1>1, <2>1, <3>1 DEF Sight
  <2>3. CASE o = b
    <3>1. \A s \in requests' : s.from = o => s = a
      BY <1>1, <1>2, <1>5, <2>3
    <3>2. \A s \in requests : s.from # o
      BY <1>2, <1>5, <2>3
    <3>3. IF a.kind = "restore" THEN cookie[o] = MT!None ELSE a.sent = cookie[o]
      BY <1>1, <1>2, <1>3, <1>5, <2>3
    <3>4. \A t \in data : writer[t] = o => cookie[o] = t
      BY <2>1, <3>2 DEF Sight
    <3> QED
      BY <1>1, <1>3, <3>1, <3>3, <3>4 DEF Sight
  <2> QED
    BY <2>2, <2>3
<1> QED
  BY <1>4, <1>5 DEF MintReach

LEMMA WriteKeeps ==
    ASSUME MintTyped, MintReach, NEW r \in requests, MT!Write(r)
    PROVE  MintTyped' /\ MintReach'
<1>1. /\ ~ r.done /\ r.kind = "write" /\ r.sent # MT!None /\ MT!Answered(r, r.sent)
      /\ UNCHANGED <<cookie, minted, time, used, asked, loose>>
      /\ \/ data' = data \cup {r.sent} /\ writer' = [writer EXCEPT ![r.sent] = r.from]
         \/ UNCHANGED <<data, writer>>
  BY DEF MT!Write, MT!Stored
<1>2. r.sent \in used /\ r.from \in Browser /\ used \subseteq Token
  BY <1>1 DEF MintTyped, MintRequests
<1>3. writer' \in [Token -> Browser \cup {MT!None}] /\ data' \subseteq used /\ \A t \in data' : writer'[t] \in Browser
  BY <1>1, <1>2 DEF MintTyped
<1>4. MintTyped'
  BY <1>1, <1>2, <1>3, AnswerTyped DEF MintTyped
<1>5. r.from \in Browser \ loose => \A t \in data : writer[t] = r.from => t = r.sent
  <2>1. r.from \in Browser \ loose => r.sent = cookie[r.from]
    BY <1>1 DEF MintReach, Sight
  <2> QED
    BY <1>1, <2>1, WhileAsking
<1>6. \A t \in data' : /\ writer'[t] = r.from /\ r.from \notin loose' => t = r.sent
                       /\ writer'[t] # r.from => t \in data /\ writer[t] = writer'[t]
  BY <1>1, <1>2, <1>5 DEF MintTyped
<1>7. MintReach'
  BY <1>1, <1>2, <1>6, AnswerReach
<1> QED
  BY <1>4, <1>7

LEMMA MintKeeps ==
    ASSUME MintInv, NEW r \in requests, MT!Mint(r)
    PROVE  MintInv'
<1> USE MintConstants DEF MintInv
<1>1. /\ ~ r.done /\ r.kind = "write" /\ r.sent = MT!None
      /\ UNCHANGED <<cookie, time, asked, loose>>
  BY DEF MT!Mint
<1>2. CASE requests' = requests \ {r} /\ UNCHANGED <<data, minted, used, writer>>
  <2>1. MintTyped'
    BY <1>1, <1>2, OverTyped DEF MintTyped
  <2>2. MintReach'
    BY <1>1, <1>2, OverReach
  <2>3. MintRate'
    BY <1>1, <1>2, RateStays
  <2> QED
    BY <2>1, <2>2, <2>3
<1>3. ASSUME MT!Allowed, minted' = Append(minted, time), NEW t \in Token \ used, used' = used \cup {t},
             MT!Answered(r, t), MT!Stored(r, t) \/ UNCHANGED <<data, writer>>
      PROVE  MintInv'
  <2>1. \/ data' = data \cup {t} /\ writer' = [writer EXCEPT ![t] = r.from]
        \/ UNCHANGED <<data, writer>>
    BY <1>3 DEF MT!Stored
  <2>2. r.from \in Browser /\ used' \subseteq Token /\ loose' \subseteq Browser /\ t \in used' /\ used \subseteq used'
    BY <1>1, <1>3 DEF MintTyped, MintRequests
  <2>3. writer' \in [Token -> Browser \cup {MT!None}] /\ data' \subseteq used' /\ \A u \in data' : writer'[u] \in Browser
    BY <1>3, <2>1, <2>2 DEF MintTyped
  <2>4. MintTyped'
    BY <1>1, <1>3, <2>2, <2>3, AnswerTyped
  <2>5. r.from \in Browser \ loose => \A u \in data : writer[u] # r.from
    <3>1. r.from \in Browser \ loose => cookie[r.from] = MT!None
      BY <1>1 DEF MintReach, Sight
    <3>2. \A u \in data : u # MT!None
      BY DEF MintTyped
    <3> QED
      BY <1>1, <3>1, <3>2, WhileAsking
  <2>6. \A u \in data' : /\ writer'[u] = r.from /\ r.from \notin loose' => u = t
                         /\ writer'[u] # r.from => u \in data /\ writer[u] = writer'[u]
    BY <1>1, <2>1, <2>2, <2>5 DEF MintTyped
  <2>7. MintReach'
    BY <1>1, <1>3, <2>2, <2>6, AnswerReach
  <2>8. MintRate'
    BY <1>1, <1>3, RateAsMinted
  <2> QED
    BY <2>4, <2>7, <2>8
<1> QED
  BY <1>2, <1>3 DEF MT!Mint

LEMMA RestoreKeeps ==
    ASSUME MintTyped, MintReach, NEW r \in requests, MT!Restore(r)
    PROVE  MintTyped' /\ MintReach'
<1> USE MintConstants
<1>1. /\ ~ r.done /\ r.kind = "restore" /\ MT!Answered(r, r.sent)
      /\ UNCHANGED <<cookie, data, minted, time, used, asked, writer, loose>>
  BY DEF MT!Restore
<1>2. r.sent \in used \cup {MT!None} /\ r.from \in Browser /\ used \subseteq Token
  BY <1>1 DEF MintTyped, MintRequests
<1>3. MintTyped'
  BY <1>1, <1>2, AnswerTyped DEF MintTyped
<1>4. r.from \in Browser \ loose => \A t \in data : writer[t] # r.from
  <2>1. r.from \in Browser \ loose => cookie[r.from] = MT!None
    BY <1>1 DEF MintReach, Sight
  <2>2. \A u \in data : u # MT!None
    BY DEF MintTyped
  <2> QED
    BY <1>1, <2>1, <2>2, WhileAsking
<1>5. MintReach'
  BY <1>1, <1>2, <1>4, AnswerReach
<1> QED
  BY <1>3, <1>5

LEMMA ForgetKeeps ==
    ASSUME MintTyped, MintReach, NEW r \in requests, MT!Forget(r)
    PROVE  MintTyped' /\ MintReach'
<1>1. /\ ~ r.done /\ r.kind = "forget" /\ MT!Answered(r, MT!None)
      /\ UNCHANGED <<cookie, minted, time, used, asked, writer>>
      /\ data' \subseteq data /\ loose' = IF r.sent \in data' THEN loose \cup {r.from} ELSE loose
  BY DEF MT!Forget
<1>2. r.from \in Browser /\ loose' \subseteq Browser /\ loose \subseteq loose'
  BY <1>1 DEF MintTyped, MintRequests
<1>3. MintTyped'
  BY <1>1, <1>2, AnswerTyped DEF MintTyped
<1>4. r.from \notin loose' => \A t \in data' : writer[t] # r.from
  <2>1. r.from \in Browser \ loose => r.sent = cookie[r.from]
    BY <1>1 DEF MintReach, Sight
  <2> QED
    BY <1>1, <1>2, <2>1, WhileAsking
<1>5. MintReach'
  BY <1>1, <1>2, <1>4, AnswerReach
<1> QED
  BY <1>3, <1>5

LEMMA EndKeeps ==
    ASSUME MintTyped, MintReach, NEW r \in requests, MT!Arrive(r) \/ MT!Lose(r)
    PROVE  MintTyped' /\ MintReach'
<1>1. /\ requests' = requests \ {r} /\ UNCHANGED <<data, minted, time, used, asked, writer>> /\ r.done
      /\ \/ cookie' = [cookie EXCEPT ![r.from] = r.set] /\ loose' = loose
         \/ cookie' = cookie /\ loose' = loose \cup {r.from}
  BY DEF MT!Arrive, MT!Lose
<1>2. r.from \in Browser /\ loose' \subseteq Browser /\ loose \subseteq loose'
  BY <1>1 DEF MintTyped, MintRequests
<1>3. MintTyped'
  BY <1>1, <1>2, OverTyped
<1>4. MintReach'
  BY <1>1, <1>2, OverReach
<1> QED
  BY <1>3, <1>4

LEMMA MintStep == MintInv /\ [MT!Next]_mintvars => MintInv'
<1> SUFFICES ASSUME MintInv, [MT!Next]_mintvars PROVE MintInv'
  OBVIOUS
<1>t. MintTyped /\ MintRate /\ MintReach
  BY DEF MintInv
<1>1. ASSUME NEW r \in requests, MT!Write(r) \/ MT!Restore(r) \/ MT!Forget(r) \/ MT!Arrive(r) \/ MT!Lose(r)
      PROVE  MintInv'
  <2>1. MintTyped' /\ MintReach'
    BY <1>t, <1>1, WriteKeeps, RestoreKeeps, ForgetKeeps, EndKeeps
  <2>2. UNCHANGED <<minted, time, used>>
    BY <1>1 DEF MT!Write, MT!Restore, MT!Forget, MT!Arrive, MT!Lose
  <2>3. MintRate'
    BY <1>t, <2>2, RateStays
  <2> QED
    BY <2>1, <2>3 DEF MintInv
<1>2. ASSUME NEW r \in requests, MT!Mint(r) PROVE MintInv'
  BY <1>2, MintKeeps
<1>3. ASSUME NEW b \in Browser, NEW kind \in MT!Kinds, NEW code \in Token \cup {MT!None}, MT!Send(b, kind, code)
      PROVE  MintInv'
  <2>1. MintTyped' /\ MintReach'
    BY <1>t, <1>3, SendKeeps
  <2>2. UNCHANGED <<minted, time, used>>
    BY <1>3 DEF MT!Send
  <2>3. MintRate'
    BY <1>t, <2>2, RateStays
  <2> QED
    BY <2>1, <2>3 DEF MintInv
<1>4. CASE MT!HalfHour
  <2>1. UNCHANGED <<cookie, requests, data, minted, used, asked, writer, loose>>
    BY <1>4 DEF MT!HalfHour
  <2>2. MintTyped' /\ MintReach'
    BY <1>t, <2>1 DEF MintTyped, MintReach, Sight
  <2>3. MintRate'
    BY <1>t, <1>4, RateAsTimePasses
  <2> QED
    BY <2>2, <2>3 DEF MintInv
<1>5. CASE UNCHANGED mintvars
  <2>1. UNCHANGED <<cookie, requests, data, minted, time, used, asked, writer, loose>>
    BY <1>5 DEF mintvars
  <2>2. MintTyped' /\ MintReach'
    BY <1>t, <2>1 DEF MintTyped, MintReach, Sight
  <2>3. MintRate'
    BY <1>t, <2>1, RateStays
  <2> QED
    BY <2>2, <2>3 DEF MintInv
<1> QED
  BY <1>1, <1>2, <1>3, <1>4, <1>5 DEF MT!Next

LEMMA MintHolds == MintInv => MT!TypeOK /\ MT!StoredIsReachable /\ MT!MintsLimited
<1> SUFFICES ASSUME MintInv PROVE MT!TypeOK /\ MT!StoredIsReachable /\ MT!MintsLimited
  OBVIOUS
<1>1. MintTyped /\ MintRate /\ MintReach
  BY DEF MintInv
<1>2. MT!TypeOK
  <2>1. cookie \in [Browser -> Token \cup {MT!None}] /\ data \subseteq used /\ used \subseteq Token
    BY <1>1 DEF MintTyped
  <2>2. Len(minted) = MT!Cardinality(used) /\ minted \in Seq(1 .. time)
    BY <1>1, SameCount DEF MintRate
  <2>3. \A r \in requests : r.kind \in MT!Kinds /\ r.n < asked[r.from] /\ {r.sent, r.set} \subseteq used \cup {MT!None}
    BY <1>1 DEF MintTyped, MintRequests
  <2> QED
    BY <1>1, <2>1, <2>2, <2>3 DEF MintTyped, MT!TypeOK
<1>3. MT!StoredIsReachable
  <2>1. ASSUME NEW t \in data, writer[t] \notin loose, cookie[writer[t]] # t
        PROVE  \E r \in requests : r.from = writer[t] /\ r.done /\ r.set = t
    <3>1. Sight(writer[t])
      BY <1>1, <2>1 DEF MintTyped, MintReach
    <3> QED
      BY <2>1, <3>1 DEF Sight
  <2> QED
    BY <2>1 DEF MT!StoredIsReachable
<1>4. MT!MintsLimited
  BY <1>1, SameCount DEF MintRate, Hourly, MT!MintsLimited
<1> QED
  BY <1>2, <1>3, <1>4
-------------------------------------------------------------------------------
(***************************************************************************)
(* All of them together                                                    *)
(***************************************************************************)

ServiceInv ==
    /\ TypeOK /\ CallInv /\ LimiterInv /\ CacheInv /\ SchemaInv
    /\ BackInv /\ NightInv /\ IndexInv /\ MintInv

\* A step of the service is a step of one part, and the others rest.
LEMMA StepOfParts ==
    ASSUME ServiceNext
    PROVE  /\ [Next]_vars /\ [LM!Next]_limitervars /\ [SC!Next]_cachevars /\ [MG!Next]_schemavars
           /\ [BF!Next]_backvars /\ [NT!Next]_nightvars /\ [IX!Next]_indexvars /\ [MT!Next]_mintvars
<1>1. /\ live = "feed" => Next
      /\ live = "limiter" => LM!Next
      /\ live = "cache" => SC!Next
      /\ live = "schema" => MG!Next
      /\ live = "backfill" => BF!Next
      /\ live = "night" => NT!Next
      /\ live = "indices" => IX!Next
      /\ live = "mint" => MT!Next
  BY DEF ServiceNext
<1>2. /\ live # "feed" => UNCHANGED vars
      /\ live # "limiter" => UNCHANGED limitervars
      /\ live # "cache" => UNCHANGED cachevars
      /\ live # "schema" => UNCHANGED schemavars
      /\ live # "backfill" => UNCHANGED backvars
      /\ live # "night" => UNCHANGED nightvars
      /\ live # "indices" => UNCHANGED indexvars
      /\ live # "mint" => UNCHANGED mintvars
  BY DEF ServiceNext, Still
<1> QED
  BY <1>1, <1>2

LEMMA ServiceBegins == ServiceInit => ServiceInv
BY FeedInit, LimiterInit, CacheInit, SchemaInit, BackInit, NightInit, IndexInit, MintInit
   DEF ServiceInit, ServiceInv

LEMMA ServiceStep == ServiceInv /\ [ServiceNext]_servicevars => ServiceInv'
<1> SUFFICES ASSUME ServiceInv, [ServiceNext]_servicevars PROVE ServiceInv'
  OBVIOUS
<1>1. /\ [Next]_vars /\ [LM!Next]_limitervars /\ [SC!Next]_cachevars /\ [MG!Next]_schemavars
      /\ [BF!Next]_backvars /\ [NT!Next]_nightvars /\ [IX!Next]_indexvars /\ [MT!Next]_mintvars
  <2>1. CASE ServiceNext
    BY <2>1, StepOfParts
  <2>2. CASE UNCHANGED servicevars
    BY <2>2 DEF servicevars
  <2> QED
    BY <2>1, <2>2
<1> QED
  BY <1>1, FeedStep, LimiterStep, CacheStep, SchemaStep, BackStep, NightStep, IndexStep, MintStep
     DEF ServiceInv

\* At every moment of the service its requests are a gap apart, one scan runs,
\* the version of the schema and the marks of the backfill are true, no night
\* is lost, the points of an index share one base, what is stored is within
\* reach and nobody mints too much, whatever the parts do and however far.
THEOREM ServiceHolds == ServiceSpec => []ServiceSound
<1>1. ServiceInv => ServiceSound
  BY LimiterHolds, CacheHolds, SchemaHolds, NightHolds, IndexHolds, MintHolds
     DEF ServiceInv, ServiceSound, BackInv
<1> QED
  BY <1>1, ServiceBegins, ServiceStep, PTL DEF ServiceSpec

------------------------------------------------------------------------------
(* Fees *)

\* The fee before the cap: a fiftieth of the price, cut off.
Fiftieth(p) == (p * 2) \div 100

LEMMA FiftiethFacts ==
    ASSUME NEW p \in Nat
    PROVE  /\ Fiftieth(p) \in Nat
           /\ 50 * Fiftieth(p) <= p /\ p < 50 * Fiftieth(p) + 50
  BY DEF Fiftieth

LEMMA CapIsNat == TX!TaxCap \in Nat
  BY SMT DEF TX!TaxCap

LEMMA Rates == TX!TaxRateNum = 2 /\ TX!TaxRateDen = 100
  BY SMT DEF TX!TaxRateNum, TX!TaxRateDen

\* The fee is the smaller of this and the cap.
LEMMA FeeFacts ==
    ASSUME NEW p \in Nat, NEW exempt \in BOOLEAN
    PROVE  TX!Tax(exempt, p) = IF p = 0 \/ exempt THEN 0
                               ELSE IF Fiftieth(p) > TX!TaxCap THEN TX!TaxCap ELSE Fiftieth(p)
<1>1. Fiftieth(p) \in Nat /\ TX!TaxCap \in Nat
  BY FiftiethFacts, CapIsNat
<1>2. TX!Min({Fiftieth(p), TX!TaxCap}) = IF Fiftieth(p) > TX!TaxCap THEN TX!TaxCap ELSE Fiftieth(p)
  <2>1. CASE Fiftieth(p) > TX!TaxCap
    BY <1>1, <2>1, SMT DEF TX!Min
  <2>2. CASE ~(Fiftieth(p) > TX!TaxCap)
    BY <1>1, <2>2, SMT DEF TX!Min
  <2> QED
    BY <2>1, <2>2
<1>3. TX!Tax(exempt, p) = IF p = 0 \/ exempt THEN 0 ELSE TX!Min({Fiftieth(p), TX!TaxCap})
  <2>1. p <= 0 <=> p = 0
    OBVIOUS
  <2>2. (p * TX!TaxRateNum) \div TX!TaxRateDen = Fiftieth(p)
    BY Rates, SMT DEF Fiftieth
  <2> QED
    BY <2>1, <2>2, Zenon DEF TX!Tax
<1> QED
  BY <1>2, <1>3

LEMMA SqlFacts ==
    ASSUME NEW p \in Nat, NEW exempt \in BOOLEAN
    PROVE  TX!SqlTax(exempt, p) = IF p = 0 \/ exempt THEN 0
                                  ELSE IF Fiftieth(p) > TX!TaxCap THEN TX!TaxCap ELSE Fiftieth(p)
  BY Zenon DEF TX!SqlTax, Fiftieth

\* calc/tax.go and query.go: for every price, the fee of the lists (SQL) is that of
\* the pages (Go), and who sells for more is left with no less.
THEOREM FeesAreRight ==
    \A exempt \in BOOLEAN, p \in Nat, q \in Nat : TX!FeesAgree(exempt, p) /\ TX!NetRises(exempt, p, q)
<1> SUFFICES ASSUME NEW exempt \in BOOLEAN, NEW p \in Nat, NEW q \in Nat
             PROVE  TX!FeesAgree(exempt, p) /\ TX!NetRises(exempt, p, q)
  OBVIOUS
<1>1. TX!FeesAgree(exempt, p)
  BY FeeFacts, SqlFacts DEF TX!FeesAgree
<1>2. TX!NetRises(exempt, p, q)
  BY FiftiethFacts, FeeFacts, CapIsNat, SMT DEF TX!NetRises, TX!NetSale
<1> QED
  BY <1>1, <1>2

\* NewFlip and the columns of item_stats: for every two prices that were observed and
\* every limit, lists and pages agree on fee, margin and potential, and buying at
\* no less than one sells for brings no margin.
THEOREM FlipsAreRight ==
    \A exempt \in BOOLEAN, buy \in Nat \ {0}, sell \in Nat \ {0}, limit \in Nat :
        TX!FlipsAgree(exempt, buy, sell, limit) /\ TX!NoGain(exempt, buy, sell, limit)
<1> SUFFICES ASSUME NEW exempt \in BOOLEAN, NEW buy \in Nat \ {0}, NEW sell \in Nat \ {0}, NEW limit \in Nat
             PROVE  TX!FlipsAgree(exempt, buy, sell, limit) /\ TX!NoGain(exempt, buy, sell, limit)
  OBVIOUS
<1>1. TX!Tax(exempt, sell) \in Nat /\ TX!SqlTax(exempt, sell) = TX!Tax(exempt, sell)
  <2>1. sell \in Nat /\ Fiftieth(sell) \in Nat /\ TX!TaxCap \in Nat
    BY FiftiethFacts, CapIsNat
  <2>2. TX!SqlTax(exempt, sell) = TX!Tax(exempt, sell)
    BY <2>1, FeeFacts, SqlFacts, Zenon
  <2>3. TX!Tax(exempt, sell) \in Nat
    BY <2>1, FeeFacts, SMT
  <2> QED
    BY <2>2, <2>3
<1>2. TX!FlipsAgree(exempt, buy, sell, limit)
  BY <1>1 DEF TX!FlipsAgree, TX!SqlRow, TX!NewFlip, TX!NetSale
<1>3. TX!NoGain(exempt, buy, sell, limit)
  BY <1>1 DEF TX!NoGain, TX!NewFlip, TX!NetSale
<1> QED
  BY <1>2, <1>3
===============================================================================
