------------------------------- MODULE Limiter -------------------------------
(* How OpenGET asks upstream: callers take slots a gap apart from one limiter *)
(* and ask up to three times (wiki/wiki.go). A timer may fire late, so what   *)
(* is a gap apart are the slots; a slot that is not used is lost.             *)
EXTENDS Integers, Sequences

CONSTANTS Caller, Gap,
          MaxTime,      \* bound: how far the clock goes
          MaxSlots      \* bound: slots that are handed out

LimiterAssumption == Gap \in Nat /\ MaxTime \in Nat /\ MaxSlots \in Nat

VARIABLES now, next,    \* the clock, and limiter.next
          call,         \* where each caller is, how often it has tried, its slot
          slots,        \* history: the slots that were handed out
          sent          \* history: how many requests were sent
limiter == <<now, next, call, slots, sent>>

Attempts == 3
Idle == [pc |-> "idle", tries |-> 0, at |-> 0]
Later(s, t) == IF s < t THEN t ELSE s

Init ==
    /\ now = 1 /\ next = 0 /\ slots = <<>> /\ sent = 0
    /\ call = [c \in Caller |-> Idle]

\* getURL: the first attempt.
Ask(c) ==
    /\ call[c].pc = "idle"
    /\ call' = [call EXCEPT ![c] = [pc |-> "take", tries |-> 1, at |-> 0]]
    /\ UNCHANGED <<now, next, slots, sent>>

\* limiter.wait up to the unlock: nothing is saved up while nobody asks.
Take(c) ==
    /\ call[c].pc = "take" /\ Len(slots) < MaxSlots
    /\ LET at == Later(next, now) IN
       /\ next' = at + Gap
       /\ slots' = Append(slots, at)
       /\ call' = [call EXCEPT ![c].pc = "wait", ![c].at = at]
    /\ UNCHANGED <<now, sent>>

\* The timer fires, at the slot or after it.
Send(c) ==
    /\ call[c].pc = "wait" /\ now >= call[c].at
    /\ call' = [call EXCEPT ![c].pc = "sent"] /\ sent' = sent + 1
    /\ UNCHANGED <<now, next, slots>>

\* An answer, a 304, or a refusal that is the caller's fault: no further attempt.
Answer(c) ==
    /\ call[c].pc = "sent"
    /\ call' = [call EXCEPT ![c] = Idle]
    /\ UNCHANGED <<now, next, slots, sent>>

\* Another failure: once more after two units of time, then after four.
Fail(c) ==
    /\ call[c].pc = "sent"
    /\ call' = [call EXCEPT ![c] =
           IF call[c].tries = Attempts THEN Idle
           ELSE [pc |-> "backoff", tries |-> call[c].tries, at |-> now + 2^call[c].tries]]
    /\ UNCHANGED <<now, next, slots, sent>>

Retry(c) ==
    /\ call[c].pc = "backoff" /\ now >= call[c].at
    /\ call' = [call EXCEPT ![c] = [pc |-> "take", tries |-> call[c].tries + 1, at |-> 0]]
    /\ UNCHANGED <<now, next, slots, sent>>

\* The context of a caller ends while it waits; the slot stays taken.
Cancel(c) ==
    /\ call[c].pc \in {"wait", "backoff", "sent"}
    /\ call' = [call EXCEPT ![c] = Idle]
    /\ UNCHANGED <<now, next, slots, sent>>

Tick == now < MaxTime /\ now' = now + 1 /\ UNCHANGED <<next, call, slots, sent>>

Next == Tick \/ \E c \in Caller : Ask(c) \/ Take(c) \/ Send(c) \/ Answer(c) \/ Fail(c) \/ Retry(c) \/ Cancel(c)

Spec == Init /\ [][Next]_limiter
------------------------------------------------------------------------------

TypeOK ==
    /\ now \in Nat /\ next \in Nat /\ slots \in Seq(Nat) /\ sent \in Nat
    /\ call \in [Caller -> [pc : {"idle", "take", "wait", "sent", "backoff"}, tries : 0 .. Attempts, at : Nat]]

\* However many ask at once, give up or try again, any two slots are the gap
\* apart.
SlotsApart == \A j \in DOMAIN slots, i \in DOMAIN slots : i < j => slots[j] >= slots[i] + Gap

\* Upstream never gets more requests than one per gap, whatever was saved up
\* while nobody asked.
RateKept == (sent - 1) * Gap < now
=============================================================================
