------------------------------ MODULE RefBook ------------------------------
(***************************************************************************)
(* services/validator/internal/replay/book.go: the price-time priority     *)
(* book the validator replays a submission's orders through. A book is two *)
(* sequences of resting orders [id, price, qty, ts], best order first: the *)
(* bids under "buy", the asks under "sell". An incoming order o also has a *)
(* kind, "limit" or "market", and a side.                                  *)
(***************************************************************************)
EXTENDS Integers, SequencesExt

Sides == {"buy", "sell"}
Other(side) == IF side = "buy" THEN "sell" ELSE "buy"

EmptyBook == [side \in Sides |-> <<>>]

min64(a, b) == IF a < b THEN a ELSE b

\* Mutant: an order only matches at a strictly better price.
Crosses_Strict(o, x) ==
    o.kind = "market" \/ IF o.side = "buy" THEN x.price < o.price ELSE x.price > o.price

\* A limit order matches a resting order at its price or better, a market
\* order any.
Crosses(o, x) ==
    o.kind = "market" \/ IF o.side = "buy" THEN x.price <= o.price ELSE x.price >= o.price

\* One round of the matching loops. A state of the loop is what is left of the
\* incoming order and the orders it can meet; a round that would break off
\* changes nothing.
Round(o, m) ==
    IF m.rest = <<>> \/ m.left = 0 \/ ~ Crosses(o, Head(m.rest))
    THEN m
    ELSE LET best == Head(m.rest)
             take == min64(m.left, best.qty)
         IN  [left |-> m.left - take,
              rest |-> IF take = best.qty THEN Tail(m.rest)
                                          ELSE [m.rest EXCEPT ![1].qty = @ - take]]

\* matchBuy, matchSell and the loops of PlaceMarket. A round takes at least one
\* unit, so o.qty rounds are enough.
Match(o, rest) ==
    LET at[i \in 0 .. o.qty] ==
            IF i = 0 THEN [left |-> o.qty, rest |-> rest] ELSE Round(o, at[i - 1])
    IN  at[o.qty]

\* Whether a resting order of this side comes after o.
Behind(side, x, o) ==
    IF x.price # o.price
    THEN IF side = "buy" THEN x.price < o.price ELSE x.price > o.price
    ELSE x.ts > o.ts

\* sort.Search: the first position that is behind o, or the end.
Search(side, rest, o) ==
    Min({i \in DOMAIN rest : Behind(side, rest[i], o)} \cup {Len(rest) + 1})

\* Mutant: a new order goes before the orders of its price.
Insert_Front(side, rest, o) ==
    InsertAt(rest, Min({i \in DOMAIN rest : Behind(side, rest[i], o) \/ rest[i].price = o.price}
                          \cup {Len(rest) + 1}), o)

\* insertBid and insertAsk: better prices first, then earlier timestamps.
Insert(side, rest, o) == InsertAt(rest, Search(side, rest, o), o)

\* Place: match, then rest the remainder. Returns the book and the fill.
Place(book, o) ==
    LET m == Match(o, book[Other(o.side)])
        remainder == [id |-> o.id, price |-> o.price, qty |-> m.left, ts |-> o.ts]
    IN  [filled |-> o.qty - m.left,
         book |-> [book EXCEPT ![Other(o.side)] = m.rest,
                               ![o.side] = IF m.left > 0 THEN Insert(o.side, @, remainder) ELSE @]]

\* PlaceMarket: match at any price and discard the remainder.
PlaceMarket(book, o) ==
    LET m == Match(o, book[Other(o.side)])
    IN  [filled |-> o.qty - m.left, book |-> [book EXCEPT ![Other(o.side)] = m.rest]]

\* Cancel: the first order with the id, bids before asks.
Cancel(book, id) ==
    LET found == [side \in Sides |-> {i \in DOMAIN book[side] : book[side][i].id = id}]
        side == IF found["buy"] # {} THEN "buy" ELSE "sell"
    IN  IF found[side] = {} THEN book ELSE [book EXCEPT ![side] = RemoveAt(@, Min(found[side]))]
=============================================================================
