------------------------------- MODULE MCAlerts -------------------------------
(* Small instances of Alerts for TLC. *)
EXTENDS Alerts

CONSTANTS a1, a2, a3, t1, t2

\* Two alerts on one item that hold at different prices, and one on its
\* margin for another token.
MCWatch ==
    [a \in AlertId |->
        CASE a = a1 -> [token |-> t1, item |-> 1, cond |-> "high_below",   threshold |-> 5]
          [] a = a2 -> [token |-> t1, item |-> 1, cond |-> "low_above",    threshold |-> 2]
          [] a = a3 -> [token |-> t2, item |-> 1, cond |-> "margin_above", threshold |-> 0]]

\* Cheap, dear, and never traded.
MCQuote ==
    { [high |-> 4,    low |-> 2,    margin |-> 2,    roi |-> 100],
      [high |-> 9,    low |-> 9,    margin |-> 0,    roi |-> 0],
      [high |-> Null, low |-> Null, margin |-> Null, roi |-> Null] }
===============================================================================
