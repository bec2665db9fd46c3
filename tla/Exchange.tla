------------------------------ MODULE Exchange ------------------------------
(***************************************************************************)
(* The exchange built on the framework (binance-exchange/core): orders run *)
(* concurrently through TradePipeline, which checks and freezes a balance, *)
(* matches the order in the OrderBook of its symbol and settles its trades *)
(* in the wallets.  Every acquisition of the book's or the wallets' mutex  *)
(* is a step.  One symbol; "base" is bought and sold for "quote".          *)
(*                                                                         *)
(* An amount of quote is in twentieths of its unit, so that the slippage   *)
(* margin of 5% is exact; an absent wallet or balance is one of 0.         *)
(***************************************************************************)
EXTENDS Integers, Sequences

CONSTANTS
    Orders, Users,
    Owner, Side, Kind,       \* the order's user, "buy" | "sell", "limit" | "market" | "stop"
    Price, Quantity,         \* a market order has price 0
    Deposits,                \* Deposits[u][asset]: what user u has paid in
    Withdrawals,             \* requests [user, asset, amount] to withdraw, amount and fee
    NoAskPrice               \* the estimate of a market buy without asks (1000000)

ASSUME ExchangeAssumption ==
    /\ Owner \in [Orders -> Users]
    /\ Side \in [Orders -> {"buy", "sell"}]
    /\ Kind \in [Orders -> {"limit", "market", "stop"}]
    /\ Price \in [Orders -> Nat]
    /\ Quantity \in [Orders -> Nat \ {0}]
    /\ Deposits \in [Users -> [{"base", "quote"} -> Nat]]
    /\ Withdrawals \subseteq [user : Users, asset : {"base", "quote"}, amount : Nat]
    /\ NoAskPrice \in Nat

VARIABLES
    serial,     \* TRUE: the clients' orders come one at a time
    book,       \* the orders that rest in the book
    open,       \* open[o]: the Quantity of o's OrderBookEntry, 0 without one
    stamp,      \* stamp[o]: the book's updateID when o was added
    updateID,
    filled,     \* filled[o]: order.FilledQty, what o has taken from the book
    traded,     \* traded[o]: what the trades with o add up to, on either side
    free, locked,   \* free[u][asset], locked[u][asset]
    pc,         \* pc[o]: the pipeline's next step for o
    withdrawn,  \* the requests that ProcessWithdraw has answered
    freeze,     \* freeze[o]: freezeAmount
    trades,     \* trades[o]: o's trades that are not yet settled
    calls       \* calls[o]: the wallet calls that are left of the settlement under way

bookVars == <<book, open, stamp, updateID, filled, traded, trades>>
walletVars == <<free, locked>>
vars == <<serial, bookVars, walletVars, pc, withdrawn, freeze, calls>>

Assets == {"base", "quote"}

Trade == [with : Orders, price : Nat, qty : Nat]

Calls == [op : {"unlock", "add"}, user : Users, asset : Assets, amount : Int]

TypeOK ==
    /\ serial \in BOOLEAN
    /\ book \subseteq Orders
    /\ open \in [Orders -> Nat]
    /\ stamp \in [Orders -> Nat]
    /\ updateID \in Nat
    /\ filled \in [Orders -> Nat]
    /\ traded \in [Orders -> Nat]
    /\ free \in [Users -> [Assets -> Int]]
    /\ locked \in [Users -> [Assets -> Int]]
    /\ pc \in [Orders -> {"new", "estimate", "lock", "peek", "match", "rest", "wallet", "done", "refused"}]
    /\ withdrawn \subseteq Withdrawals
    /\ freeze \in [Orders -> Nat]
    /\ trades \in [Orders -> Seq(Trade)]
    /\ calls \in [Orders -> Seq(Calls)]

Init ==
    /\ serial \in BOOLEAN
    /\ book = {}
    /\ open = [o \in Orders |-> 0]
    /\ stamp = [o \in Orders |-> 0]
    /\ updateID = 0
    /\ filled = [o \in Orders |-> 0]
    /\ traded = [o \in Orders |-> 0]
    /\ free = Deposits
    /\ locked = [u \in Users |-> [a \in Assets |-> 0]]
    /\ pc = [o \in Orders |-> "new"]
    /\ withdrawn = {}
    /\ freeze = [o \in Orders |-> 0]
    /\ trades = [o \in Orders |-> <<>>]
    /\ calls = [o \in Orders |-> <<>>]

Money(price, qty) == 20 * price * qty

Required(o) == IF Side[o] = "buy" THEN Money(Price[o], Quantity[o]) ELSE Quantity[o]

FreezeAsset(o) == IF Side[o] = "buy" THEN "quote" ELSE "base"

Idle(o) == pc[o] \in {"new", "done", "refused"}

Goto(o, from, to) == pc[o] = from /\ pc' = [pc EXCEPT ![o] = to]

-----------------------------------------------------------------------------
(* The order book.                                                         *)

Against(o) == {p \in book : Side[p] # Side[o]}

\* p comes before q on their side of the book: by price, then by arrival (the
\* sort by price is stable on the at most 12 entries of a side).
Before(p, q) ==
    \/ IF Side[p] = "buy" THEN Price[p] > Price[q] ELSE Price[p] < Price[q]
    \/ Price[p] = Price[q] /\ stamp[p] <= stamp[q]

IsBest(p, o) == p \in Against(o) /\ \A q \in Against(o) : Before(p, q)

\* The price of a stop order is a limit to the engine.
Crosses(o, price) ==
    \/ Kind[o] = "market"
    \/ IF Side[o] = "buy" THEN Price[o] >= price ELSE Price[o] <= price

-----------------------------------------------------------------------------
(* TradePipeline.Run up to the match.                                      *)

\* OrderPort.CheckBalance; the checks before it read nothing that changes.
CheckBalance(o) ==
    LET covered == free[Owner[o]][FreezeAsset(o)] >= Required(o)
        next == IF Kind[o] = "market" /\ Side[o] = "buy" THEN "estimate" ELSE "lock"
    IN  /\ serial => \A p \in Orders : Idle(p)
        /\ Goto(o, "new", IF covered THEN next ELSE "refused")
        /\ freeze' = [freeze EXCEPT ![o] = Required(o)]
        /\ UNCHANGED <<bookVars, walletVars, withdrawn, calls>>

\* A market buy freezes the best ask with a margin of 5%.
Estimate(o) ==
    /\ Goto(o, "estimate", "lock")
    /\ \/ /\ Against(o) = {}
          /\ freeze' = [freeze EXCEPT ![o] = Money(NoAskPrice, Quantity[o])]
       \/ \E p \in Orders :
             /\ IsBest(p, o)
             /\ freeze' = [freeze EXCEPT ![o] = 21 * Price[p] * Quantity[o]]
    /\ UNCHANGED <<bookVars, walletVars, withdrawn, calls>>

\* Mutant: the balance that CheckBalance saw is taken for granted.
LockUnchecked(o) ==
    LET u == Owner[o]  a == FreezeAsset(o)
    IN  /\ Goto(o, "lock", "peek")
        /\ free' = [free EXCEPT ![u][a] = @ - freeze[o]]
        /\ locked' = [locked EXCEPT ![u][a] = @ + freeze[o]]
        /\ UNCHANGED <<bookVars, withdrawn, freeze, calls>>

LockBalance(o) ==
    LET u == Owner[o]  a == FreezeAsset(o)
        enough == free[u][a] >= freeze[o]
    IN  /\ Goto(o, "lock", IF enough THEN "peek" ELSE "refused")
        /\ free' = IF enough THEN [free EXCEPT ![u][a] = @ - freeze[o]] ELSE free
        /\ locked' = IF enough THEN [locked EXCEPT ![u][a] = @ + freeze[o]] ELSE locked
        /\ UNCHANGED <<bookVars, withdrawn, freeze, calls>>

-----------------------------------------------------------------------------
(* MatchEngine.Execute.                                                    *)

\* Mutant: an order that meets its own price does not trade.
PeekBetter(o) ==
    LET more == /\ filled[o] < Quantity[o]
                /\ \E p \in Orders : IsBest(p, o) /\ Crosses(o, Price[p]) /\ Price[p] # Price[o]
    IN  /\ Goto(o, "peek", IF more THEN "match" ELSE "rest")
        /\ UNCHANGED <<bookVars, walletVars, withdrawn, freeze, calls>>

\* BestAsk or BestBid, and the comparison with the order's price.
PeekBest(o) ==
    LET more == filled[o] < Quantity[o] /\ \E p \in Orders : IsBest(p, o) /\ Crosses(o, Price[p])
    IN  /\ Goto(o, "peek", IF more THEN "match" ELSE "rest")
        /\ UNCHANGED <<bookVars, walletVars, withdrawn, freeze, calls>>

TradeWith(o, p) ==
    LET rest == Quantity[o] - filled[o]
        qty == IF rest < open[p] THEN rest ELSE open[p]
    IN  /\ filled' = [filled EXCEPT ![o] = @ + qty]
        /\ traded' = [traded EXCEPT ![o] = @ + qty, ![p] = @ + qty]
        /\ open' = [open EXCEPT ![p] = @ - qty]
        /\ book' = IF open[p] = qty THEN book \ {p} ELSE book
        /\ trades' = [trades EXCEPT ![o] = Append(@, [with |-> p, price |-> Price[p], qty |-> qty])]
        /\ UNCHANGED <<stamp, updateID>>

\* matchWithBestAtom takes the book's lock anew and trades with the order that is
\* best by now; it gives up on an empty side and on an order of the same user.
MatchWithBest(o) ==
    /\ \/ \E p \in Orders :
             IsBest(p, o) /\ Owner[p] # Owner[o] /\ Goto(o, "match", "peek") /\ TradeWith(o, p)
       \/ /\ Against(o) = {} \/ \E p \in Orders : IsBest(p, o) /\ Owner[p] = Owner[o]
          /\ Goto(o, "match", "rest")
          /\ UNCHANGED bookVars
    /\ UNCHANGED <<walletVars, withdrawn, freeze, calls>>

Call(op, user, asset, amount) == [op |-> op, user |-> user, asset |-> asset, amount |-> amount]

\* A market order without a trade gets its money back.
Refund(o) ==
    IF Kind[o] = "market" /\ trades[o] = <<>>
    THEN <<Call("unlock", Owner[o], FreezeAsset(o), freeze[o])>>
    ELSE <<>>

\* Mutant: the entry has the order's full quantity.
RestWhole(o) ==
    LET rests == Kind[o] = "limit" /\ filled[o] < Quantity[o]
    IN  /\ Goto(o, "rest", "wallet")
        /\ IF rests
           THEN /\ book' = book \cup {o}
                /\ open' = [open EXCEPT ![o] = Quantity[o]]
                /\ stamp' = [stamp EXCEPT ![o] = updateID]
                /\ updateID' = updateID + 1
           ELSE UNCHANGED <<book, open, stamp, updateID>>
        /\ calls' = [calls EXCEPT ![o] = Refund(o)]
        /\ UNCHANGED <<filled, traded, trades, walletVars, withdrawn, freeze>>

\* The end of the match: AddOrder for what is left of a limit order (RemoveOrder
\* and UpdateQuantity find no entry of an order that has not been added).
Rest(o) ==
    LET rests == Kind[o] = "limit" /\ filled[o] < Quantity[o]
    IN  /\ Goto(o, "rest", "wallet")
        /\ IF rests
           THEN /\ book' = book \cup {o}
                /\ open' = [open EXCEPT ![o] = Quantity[o] - filled[o]]
                /\ stamp' = [stamp EXCEPT ![o] = updateID]
                /\ updateID' = updateID + 1
           ELSE UNCHANGED <<book, open, stamp, updateID>>
        /\ calls' = [calls EXCEPT ![o] = Refund(o)]
        /\ UNCHANGED <<filled, traded, trades, walletVars, withdrawn, freeze>>

-----------------------------------------------------------------------------
(* The wallets.  Run ignores the errors of its settlement's calls.         *)

UnlockBalance(u, a, amount) ==
    IF locked[u][a] >= amount
    THEN /\ free' = [free EXCEPT ![u][a] = @ + amount]
         /\ locked' = [locked EXCEPT ![u][a] = @ - amount]
    ELSE UNCHANGED walletVars

\* Execute: a negative delta needs the balance.
AddBalance(u, a, delta) ==
    /\ free' = IF delta < 0 /\ free[u][a] < 0 - delta THEN free
               ELSE [free EXCEPT ![u][a] = @ + delta]
    /\ UNCHANGED locked

\* The wallet calls that settle trade t of order o.
SettlementOf(o, t) ==
    LET u == Owner[o]  v == Owner[t.with]
        cost == Money(t.price, t.qty)
    IN  IF Side[o] = "sell"
        THEN <<Call("unlock", v, "quote", cost), Call("add", v, "base", t.qty),
               Call("unlock", u, "base", freeze[o]), Call("add", u, "base", 0 - t.qty),
               Call("add", u, "quote", cost)>>
        ELSE IF freeze[o] > cost
        THEN <<Call("unlock", v, "base", t.qty), Call("add", v, "quote", cost),
               Call("unlock", u, "quote", freeze[o] - cost), Call("add", u, "base", t.qty)>>
        ELSE <<Call("unlock", v, "base", t.qty), Call("add", v, "quote", cost),
               Call("add", u, "base", t.qty)>>

NextTrade(o) ==
    /\ pc[o] = "wallet" /\ calls[o] = <<>> /\ trades[o] # <<>>
    /\ calls' = [calls EXCEPT ![o] = SettlementOf(o, Head(trades[o]))]
    /\ trades' = [trades EXCEPT ![o] = Tail(@)]
    /\ UNCHANGED <<book, open, stamp, updateID, filled, traded, walletVars, pc, withdrawn, freeze>>

WalletCall(o) ==
    /\ pc[o] = "wallet" /\ calls[o] # <<>>
    /\ LET c == Head(calls[o])
       IN  IF c.op = "unlock" THEN UnlockBalance(c.user, c.asset, c.amount)
           ELSE AddBalance(c.user, c.asset, c.amount)
    /\ calls' = [calls EXCEPT ![o] = Tail(@)]
    /\ UNCHANGED <<bookVars, pc, withdrawn, freeze>>

Done(o) ==
    /\ calls[o] = <<>> /\ trades[o] = <<>>
    /\ Goto(o, "wallet", "done")
    /\ UNCHANGED <<bookVars, walletVars, withdrawn, freeze, calls>>

\* ProcessWithdraw: refused without the free balance.
Withdraw(w) ==
    /\ w \notin withdrawn
    /\ withdrawn' = withdrawn \cup {w}
    /\ free' = IF free[w.user][w.asset] < w.amount THEN free
               ELSE [free EXCEPT ![w.user][w.asset] = @ - w.amount]
    /\ UNCHANGED <<bookVars, locked, pc, freeze, calls>>

Run(o) ==
    \/ CheckBalance(o) \/ Estimate(o) \/ LockBalance(o)
    \/ PeekBest(o) \/ MatchWithBest(o) \/ Rest(o)
    \/ NextTrade(o) \/ WalletCall(o) \/ Done(o)

Next ==
    /\ \/ \E o \in Orders : Run(o)
       \/ \E w \in Withdrawals : Withdraw(w)
    /\ UNCHANGED serial

Spec == Init /\ [][Next]_vars

-----------------------------------------------------------------------------

\* Whatever orders race through the book, none trades more than its quantity,
\* and of a limit order what has not been traded rests in the book
\* (matchLimitOrderAtom, matchWithBestAtom, AddOrder).
QuantityConserved ==
    \A o \in Orders :
        /\ traded[o] + open[o] <= Quantity[o]
        /\ Kind[o] = "limit" /\ pc[o] \in {"wallet", "done"} => traded[o] + open[o] = Quantity[o]

\* No balance turns negative between a check and the change it is for
\* (LockBalance, UnlockBalance, Execute, ProcessWithdraw).
BalancesNonNegative ==
    \A u \in Users, a \in Assets : free[u][a] >= 0 /\ locked[u][a] >= 0

\* o could trade with a limit order of the same user that has been placed.
MeetsItsOwner(o) ==
    \E q \in Orders :
        /\ pc[q] = "done" /\ Kind[q] = "limit"
        /\ Owner[q] = Owner[o] /\ Side[q] # Side[o] /\ Crosses(o, Price[q])

LimitsRespected ==
    /\ \A o \in Orders : \A i \in DOMAIN trades[o] : Crosses(o, trades[o][i].price)
    /\ \A o \in book : \A p \in Against(o) :
          Crosses(o, Price[p]) => MeetsItsOwner(o) \/ MeetsItsOwner(p)

\* When orders come one at a time nobody trades beyond his limit, and orders that could
\* trade rest side by side only when an order of the same user was in the way
\* (matchLimitOrderAtom, and matchWithBestAtom, which gives up on it).
QueueLimitsRespected == serial => LimitsRespected

\* "A limit order stays frozen (in the book, waiting to trade or to be cancelled)"
\* (composer.go), even when orders come one at a time: once the pipeline is at rest,
\* what is in the book is covered by what its owner has locked.
QueueStaysFrozen ==
    serial /\ (\A o \in Orders : Idle(o)) =>
        \A o \in book :
            locked[Owner[o]][FreezeAsset(o)] >=
                (IF Side[o] = "buy" THEN Money(Price[o], open[o]) ELSE open[o])
=============================================================================
