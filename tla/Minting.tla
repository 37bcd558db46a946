------------------------------- MODULE Minting -------------------------------
(* How browsers come by the token their data is stored under                  *)
(* (web/personal.go): the first write mints one, every write sends the cookie *)
(* back, a restore code sets it and a forget clears it. Requests of a browser *)
(* are answered in any order, or the answer never arrives.                    *)
EXTENDS Integers, FiniteSets, Sequences

CONSTANTS Browser, Token,   \* all of one address
          PerHour,          \* mints an hour that one address is allowed
          MaxRequests,      \* bound: requests of one browser
          Halves            \* bound: half hours that pass

None == "none"

MintingAssumption ==
    None \notin Token \cup Browser /\ PerHour \in Nat \ {0} /\ MaxRequests \in Nat /\ Halves \in Nat

VARIABLES cookie,       \* what each browser sends
          requests,     \* requests on their way: who asks what, with which cookie
          data,         \* tokens something is stored under
          minted,       \* the tokens that were minted, each with its half hour
          time,         \* in half hours
          used,         \* tokens that were ever minted
          asked,        \* how many requests each browser has made
          writer,       \* history: the browser that last stored under a token
          loose         \* history: browsers that may have lost sight of a token
mint == <<cookie, requests, data, minted, time, used, asked, writer, loose>>

Kinds == {"write", "restore", "forget"}

Init ==
    /\ cookie = [b \in Browser |-> None] /\ requests = {} /\ data = {} /\ minted = <<>> /\ used = {} /\ time = 1
    /\ asked = [b \in Browser |-> 0] /\ writer = [t \in Token |-> None] /\ loose = {}

\* Cookies are those of the moment; a restore brings the code another browser
\* shows. Who asks while another answer is awaited, or takes a code over its
\* own, may lose sight of what it has.
Send(b, kind, code) ==
    /\ asked[b] < MaxRequests /\ asked' = [asked EXCEPT ![b] = @ + 1]
    /\ kind = "restore" => \E o \in Browser \ {b} : code = cookie[o] /\ code # None
    /\ kind # "restore" => code = cookie[b]
    /\ requests' = requests \cup {[from |-> b, n |-> asked[b], kind |-> kind, sent |-> code, set |-> None, done |-> FALSE]}
    /\ loose' = IF (kind = "restore" /\ cookie[b] # None) \/ \E r \in requests : r.from = b THEN loose \cup {b} ELSE loose
    /\ UNCHANGED <<cookie, data, minted, time, used, writer>>

Answered(r, token) == requests' = (requests \ {r}) \cup {[r EXCEPT !.set = token, !.done = TRUE]}

Stored(r, t) == data' = data \cup {t} /\ writer' = [writer EXCEPT ![t] = r.from]

\* requireToken with a cookie slides its expiry; what is stored brings a token
\* back that was forgotten. The write may be refused for other reasons.
Write(r) ==
    /\ r \in requests /\ ~r.done /\ r.kind = "write" /\ r.sent # None
    /\ Answered(r, r.sent) /\ (Stored(r, r.sent) \/ UNCHANGED <<data, writer>>)
    /\ UNCHANGED <<cookie, minted, time, used, asked, loose>>

\* The mints of the last hour. One that is an hour old no longer counts.
Recent == {k \in DOMAIN minted : minted[k] > time - 2}
Allowed == Cardinality(Recent) < PerHour

\* requireToken without one: mintLimiter.allow, and a token nobody has.
Mint(r) ==
    /\ r \in requests /\ ~r.done /\ r.kind = "write" /\ r.sent = None
    /\ \/ /\ Allowed /\ minted' = Append(minted, time)
          /\ \E t \in Token \ used :
                /\ used' = used \cup {t} /\ Answered(r, t)
                /\ Stored(r, t) \/ UNCHANGED <<data, writer>>
       \/ ~Allowed /\ requests' = requests \ {r} /\ UNCHANGED <<data, minted, used, writer>>
    /\ UNCHANGED <<cookie, time, asked, loose>>

Restore(r) == /\ r \in requests /\ ~r.done /\ r.kind = "restore" /\ Answered(r, r.sent)
              /\ UNCHANGED <<cookie, data, minted, time, used, asked, writer, loose>>

\* The cookie is cleared, also when the statement fails.
Forget(r) == /\ r \in requests /\ ~r.done /\ r.kind = "forget" /\ Answered(r, None)
             /\ data' \in {data, data \ {r.sent}}
             /\ loose' = IF r.sent \in data' THEN loose \cup {r.from} ELSE loose
             /\ UNCHANGED <<cookie, minted, time, used, asked, writer>>

\* The answer reaches the browser.
Arrive(r) == /\ r \in requests /\ r.done /\ requests' = requests \ {r}
             /\ cookie' = [cookie EXCEPT ![r.from] = r.set]
             /\ UNCHANGED <<data, minted, time, used, asked, writer, loose>>

\* The connection breaks before the answer does.
Lose(r) == /\ r \in requests /\ requests' = requests \ {r} /\ r.done
           /\ loose' = loose \cup {r.from}
           /\ UNCHANGED <<cookie, data, minted, time, used, asked, writer>>

HalfHour == time < Halves /\ time' = time + 1 /\ UNCHANGED <<cookie, requests, data, minted, used, asked, writer, loose>>

Next ==
    \/ HalfHour
    \/ \E b \in Browser, kind \in Kinds, code \in Token \cup {None} : Send(b, kind, code)
    \/ \E r \in requests : Write(r) \/ Mint(r) \/ Restore(r) \/ Forget(r) \/ Arrive(r) \/ Lose(r)
------------------------------------------------------------------------------

TypeOK ==
    /\ cookie \in [Browser -> Token \cup {None}] /\ data \subseteq used /\ used \subseteq Token
    /\ Len(minted) = Cardinality(used) /\ minted \in Seq(1 .. time) /\ loose \subseteq Browser
    /\ \A t \in data : writer[t] \in Browser
    /\ \A r \in requests : r.kind \in Kinds /\ r.n < asked[r.from] /\ {r.sent, r.set} \subseteq used \cup {None}

\* What a browser stored is within its reach: it sends that token, or the token
\* is about to arrive; unless it had two requests under way, lost an answer,
\* took over another code, or a forget failed.
StoredIsReachable ==
    \A t \in data : LET b == writer[t] IN
        b \in loose \/ cookie[b] = t \/ \E r \in requests : r.from = b /\ r.done /\ r.set = t

\* No address mints more tokens in any hour than it is allowed.
MintsLimited == \A t \in 1 .. time : Cardinality({k \in DOMAIN minted : minted[k] \in t - 1 .. t}) <= PerHour
=============================================================================
