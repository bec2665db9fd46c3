----------------------------- MODULE MCExchange -----------------------------
(* A small instance of Exchange: buys and sells of three users, of which one  *)
(* has limit orders on both sides, a market order and a stop order run        *)
(* concurrently or, with serial, come one at a time.                          *)
EXTENDS Exchange, TLC

CONSTANTS u1, u2, u3, o1, o2, o3, o4, o5

OwnerOf == (o1 :> u1) @@ (o2 :> u2) @@ (o3 :> u3) @@ (o4 :> u1) @@ (o5 :> u2)
SideOf == [o \in Orders |-> IF o \in {o2, o4} THEN "sell" ELSE "buy"]
KindOf == [o \in Orders |-> IF o = o3 THEN "market" ELSE IF o = o4 THEN "stop" ELSE "limit"]
PriceOf == (o1 :> 2) @@ (o2 :> 2) @@ (o3 :> 0) @@ (o4 :> 2) @@ (o5 :> 3)
QuantityOf == [o \in Orders |-> IF o = o1 THEN 2 ELSE IF o = o2 THEN 3 ELSE 1]
PaidIn == [u \in Users |-> [base |-> IF u = u3 THEN 0 ELSE 3, quote |-> 100]]
ToWithdraw == {[user |-> u1, asset |-> "quote", amount |-> 70]}
=============================================================================
