--------------------------------- MODULE Tax ---------------------------------
(* The convenience fee of the Grand Exchange and what is derived from it: in  *)
(* Go for the pages of an item and the recipes (calc/tax.go, calc/recipe.go), *)
(* and once more in SQL for the lists (store/query.go). Quantities of recipes *)
(* are in quarters; 0 is the price of what was never observed.                *)
EXTENDS Integers, Sequences, FiniteSetsExt, Functions

TaxRateNum == 2
TaxRateDen == 100
TaxCap == 5000000
Quarters == 4

Tax(exempt, price) ==
    IF price <= 0 \/ exempt THEN 0 ELSE Min({(price * TaxRateNum) \div TaxRateDen, TaxCap})
NetSale(exempt, price) == price - Tax(exempt, price)

NoFlip == [tax |-> 0, margin |-> 0, potential |-> 0]
NewFlip(exempt, buy, sell, limit) ==
    IF buy <= 0 \/ sell <= 0 THEN NoFlip
    ELSE LET margin == NetSale(exempt, sell) - buy
         IN  [tax |-> Tax(exempt, sell), margin |-> margin, potential |-> IF limit > 0 THEN margin * limit ELSE 0]

\* Mutant of SqlTax: the cap is forgotten in SQL.
SqlTaxUncapped(exempt, high) == IF high = 0 \/ exempt THEN 0 ELSE (high * 2) \div 100

\* The columns of item_stats, where 0 stands for NULL. The query is given the cap,
\* and has the rate in its text.
SqlTax(exempt, high) ==
    IF high = 0 \/ exempt THEN 0
    ELSE IF (high * 2) \div 100 > TaxCap THEN TaxCap ELSE (high * 2) \div 100
SqlRow(exempt, low, high, limit) ==
    LET margin == IF high = 0 \/ low = 0 THEN 0 ELSE high - SqlTax(exempt, high) - low
    IN  [tax |-> SqlTax(exempt, high), margin |-> margin, potential |-> margin * limit]

\* The totals of a recipe: inputs at the price to buy now, outputs at what they
\* sell for now, less the tax of one times how many there are. A total of a
\* line is cut off below one coin.
Evaluate(recipe, buy, sell) ==
    LET cost    == SumFunction([k \in DOMAIN recipe.inputs |-> (recipe.inputs[k].qty * buy[recipe.inputs[k].item]) \div Quarters])
        total(o) == (o.qty * sell[o.item]) \div Quarters
                    - (IF recipe.untaxed THEN 0 ELSE (o.qty * Tax(FALSE, sell[o.item])) \div Quarters)
        revenue == SumFunction([k \in DOMAIN recipe.outputs |-> total(recipe.outputs[k])])
    IN  [profit |-> revenue + recipe.output - cost - recipe.fee,
         incomplete |-> \/ \E k \in DOMAIN recipe.inputs : buy[recipe.inputs[k].item] = 0
                        \/ \E k \in DOMAIN recipe.outputs : sell[recipe.outputs[k].item] = 0]
------------------------------------------------------------------------------

\* Prices at which the fee begins, steps and reaches its cap.
Prices == (0 .. 151) \cup {249999949, 249999950, 249999999, 250000000, 250000001, 250000050, 999999999}

\* What an output of a recipe brings in quarters of a coin, nothing cut off.
Exact(o, sell, untaxed) == o.qty * NetSale(untaxed, sell[o.item])

Lines == {<<>>} \cup {<<[item |-> i, qty |-> q]>> : i \in {"a", "b"}, q \in {1, 3, 4, 8}}
Books == [{"a", "b"} -> {0, 49, 50, 149}]

\* Lists and pages agree on the fee, and on a flip whose prices were observed.
FeesAgree(exempt, p) == SqlTax(exempt, p) = Tax(exempt, p)
FlipsAgree(exempt, low, high, limit) == SqlRow(exempt, low, high, limit) = NewFlip(exempt, low, high, limit)

\* A higher price never nets less.
NetRises(exempt, p, q) == q >= p => NetSale(exempt, q) >= NetSale(exempt, p)

\* Nobody gains by selling back what was bought for as much.
NoGain(exempt, low, high, limit) == low >= high => NewFlip(exempt, low, high, limit).margin <= 0

\* Fees, flips and net sales as above; and the profit of a recipe is within a
\* coin for each total that is cut off.
TaxLaws ==
    /\ \A p \in Prices, exempt \in BOOLEAN :
        FeesAgree(exempt, p) /\ \A q \in Prices : NetRises(exempt, p, q)
    /\ \A low \in Prices \ {0}, high \in {49, 50, 51, 250000000, 250000050}, exempt \in BOOLEAN, limit \in {0, 2} :
        FlipsAgree(exempt, low, high, limit) /\ NoGain(exempt, low, high, limit)
    /\ \A in \in Lines, out \in Lines, buy \in Books, sell \in Books, untaxed \in BOOLEAN :
        LET r     == Evaluate([inputs |-> in, outputs |-> out, untaxed |-> untaxed, fee |-> 2, output |-> 1], buy, sell)
            exact == SumFunction([k \in DOMAIN out |-> Exact(out[k], sell, untaxed)])
                     - SumFunction([k \in DOMAIN in |-> in[k].qty * buy[in[k].item]]) - Quarters
        IN  /\ Quarters * r.profit - exact \in -Quarters + 1 .. 2 * Quarters - 1
            /\ in = out /\ (\A i \in {"a", "b"} : sell[i] <= buy[i]) => r.profit <= 0
=============================================================================
