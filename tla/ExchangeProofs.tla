--------------------------- MODULE ExchangeProofs ---------------------------
(* Proofs about Exchange, for any orders, users, prices and deposits: no order *)
(* trades more than its quantity, no balance turns negative, and orders that  *)
(* come one at a time respect their limits.                                   *)
EXTENDS Exchange, FiniteSetTheorems, TLAPS

-----------------------------------------------------------------------------
(* Types.  The amounts that a settlement unlocks are never negative.        *)

Settling == {c \in Calls : c.op = "unlock" => c.amount \in Nat}

Types ==
    /\ book \subseteq Orders
    /\ open \in [Orders -> Nat]
    /\ stamp \in [Orders -> Nat]
    /\ updateID \in Nat
    /\ filled \in [Orders -> Nat]
    /\ traded \in [Orders -> Nat]
    /\ pc \in [Orders -> {"new", "estimate", "lock", "peek", "match", "rest", "wallet", "done", "refused"}]
    /\ freeze \in [Orders -> Nat]
    /\ trades \in [Orders -> Seq(Trade)]
    /\ calls \in [Orders -> Seq(Settling)]

\* Where the quantity of an order is: traded by the order itself until it rests,
\* and from then on divided between its trades and its entry.
Accounts(o) ==
    /\ o \in book <=> open[o] > 0
    /\ o \in book => Kind[o] = "limit" /\ pc[o] \in {"wallet", "done"}
    /\ filled[o] <= Quantity[o]
    /\ pc[o] = "match" => filled[o] < Quantity[o]
    /\ Kind[o] # "limit" \/ pc[o] \notin {"wallet", "done"} => traded[o] = filled[o]
    /\ Kind[o] = "limit" /\ pc[o] \in {"wallet", "done"} => traded[o] + open[o] = Quantity[o]

QInv == Types /\ \A o \in Orders : Accounts(o)

\* The money for a quantity is a natural number.
LEMMA MoneyIsNat == \A p, q \in Nat : Money(p, q) \in Nat
  BY DEF Money

\* Short tuples are sequences.
LEMMA ShortSequences ==
  ASSUME NEW S
  PROVE  /\ \A a, b, c \in S : <<a, b, c>> \in Seq(S)
         /\ \A a, b, c, d \in S : <<a, b, c, d>> \in Seq(S)
         /\ \A a, b, c, d, e \in S : <<a, b, c, d, e>> \in Seq(S)
  OBVIOUS

\* What SettlementOf returns is a sequence of settling calls.
LEMMA SettlementTypes ==
  ASSUME NEW o \in Orders, NEW t \in Trade, freeze[o] \in Nat
  PROVE  SettlementOf(o, t) \in Seq(Settling)
<1> DEFINE u == Owner[o]
           v == Owner[t.with]
           cost == Money(t.price, t.qty)
<1>1. u \in Users /\ v \in Users /\ t.qty \in Nat /\ cost \in Nat
  BY ExchangeAssumption, MoneyIsNat DEF Trade
<1>2. \A w \in Users, a \in Assets, n \in Nat : Call("unlock", w, a, n) \in Settling
  BY DEF Call, Settling, Calls
<1>3. \A w \in Users, a \in Assets, n \in Int : Call("add", w, a, n) \in Settling
  BY DEF Call, Settling, Calls
<1> HIDE DEF u, v, cost
<1>4. CASE Side[o] = "sell"
  <2>1. /\ Call("unlock", v, "quote", cost) \in Settling
        /\ Call("add", v, "base", t.qty) \in Settling
        /\ Call("unlock", u, "base", freeze[o]) \in Settling
        /\ Call("add", u, "base", 0 - t.qty) \in Settling
        /\ Call("add", u, "quote", cost) \in Settling
    BY <1>1, <1>2, <1>3 DEF Assets
  <2>2. SettlementOf(o, t) =
           <<Call("unlock", v, "quote", cost), Call("add", v, "base", t.qty),
             Call("unlock", u, "base", freeze[o]), Call("add", u, "base", 0 - t.qty),
             Call("add", u, "quote", cost)>>
    BY <1>4 DEF SettlementOf, u, v, cost
  <2> QED
    BY ONLY <2>1, <2>2, ShortSequences
<1>5. CASE Side[o] # "sell" /\ freeze[o] > cost
  <2>1. /\ Call("unlock", v, "base", t.qty) \in Settling
        /\ Call("add", v, "quote", cost) \in Settling
        /\ Call("unlock", u, "quote", freeze[o] - cost) \in Settling
        /\ Call("add", u, "base", t.qty) \in Settling
    BY <1>1, <1>2, <1>3, <1>5 DEF Assets
  <2>2. SettlementOf(o, t) =
           <<Call("unlock", v, "base", t.qty), Call("add", v, "quote", cost),
             Call("unlock", u, "quote", freeze[o] - cost), Call("add", u, "base", t.qty)>>
    BY <1>5 DEF SettlementOf, u, v, cost
  <2> QED
    BY ONLY <2>1, <2>2, ShortSequences
<1>6. CASE Side[o] # "sell" /\ ~(freeze[o] > cost)
  <2>1. /\ Call("unlock", v, "base", t.qty) \in Settling
        /\ Call("add", v, "quote", cost) \in Settling
        /\ Call("add", u, "base", t.qty) \in Settling
    BY <1>1, <1>2, <1>3 DEF Assets
  <2>2. SettlementOf(o, t) =
           <<Call("unlock", v, "base", t.qty), Call("add", v, "quote", cost),
             Call("add", u, "base", t.qty)>>
    BY <1>6 DEF SettlementOf, u, v, cost
  <2> QED
    BY ONLY <2>1, <2>2, ShortSequences
<1> QED
  BY <1>4, <1>5, <1>6

\* A market order's refund unlocks what was frozen.
LEMMA RefundTypes ==
  ASSUME NEW o \in Orders, freeze[o] \in Nat
  PROVE  Refund(o) \in Seq(Settling)
<1>1. Call("unlock", Owner[o], FreezeAsset(o), freeze[o]) \in Settling
  BY ExchangeAssumption DEF Call, Settling, Calls, FreezeAsset, Assets
<1> QED
  BY <1>1 DEF Refund

-----------------------------------------------------------------------------
(* Every step keeps QInv.                                                   *)

\* Every step of an order keeps the accounts of all of them.
LEMMA QuantityStep == QInv /\ [Next]_vars => QInv'
<1> SUFFICES ASSUME QInv, [Next]_vars
             PROVE  QInv'
  OBVIOUS
<1> USE ExchangeAssumption DEF QInv, Types, Goto
<1>1. ASSUME NEW o \in Orders, CheckBalance(o) \/ Estimate(o) \/ LockBalance(o)
      PROVE  QInv'
  <2>1. UNCHANGED <<bookVars, calls>> /\ pc[o] \in {"new", "estimate", "lock"}
    BY <1>1 DEF CheckBalance, Estimate, LockBalance
  <2>2. pc' \in [Orders -> {"new", "estimate", "lock", "peek", "match", "rest", "wallet", "done", "refused"}]
    <3>1. PICK next \in {"estimate", "lock", "peek", "refused"} : pc' = [pc EXCEPT ![o] = next]
      BY <1>1 DEF CheckBalance, Estimate, LockBalance
    <3> QED
      BY <3>1
  <2>3. freeze' \in [Orders -> Nat]
    <3>1. Required(o) \in Nat /\ Money(NoAskPrice, Quantity[o]) \in Nat
      BY MoneyIsNat DEF Required
    <3>2. ASSUME NEW p \in Orders PROVE 21 * Price[p] * Quantity[o] \in Nat
      <4>1. Price[p] \in Nat /\ Quantity[o] \in Nat
        OBVIOUS
      <4>2. \A m, n \in Nat : 21 * m * n \in Nat
        OBVIOUS
      <4> QED
        BY ONLY <4>1, <4>2
    <3>3. PICK n \in Nat : freeze' = [freeze EXCEPT ![o] = n] \/ freeze' = freeze
      BY <1>1, <3>1, <3>2 DEF CheckBalance, Estimate, LockBalance
    <3> QED
      BY <3>3
  <2>4. /\ pc'[o] \in {"estimate", "lock", "peek", "refused"}
        /\ \A p \in Orders \ {o} : pc'[p] = pc[p]
    BY <1>1 DEF CheckBalance, Estimate, LockBalance
  <2>5. \A p \in Orders : Accounts(p)'
    BY <2>1, <2>4 DEF Accounts, bookVars
  <2> QED
    BY <2>1, <2>2, <2>3, <2>5 DEF bookVars
<1>2. ASSUME NEW o \in Orders, PeekBest(o)
      PROVE  QInv'
  <2>1. UNCHANGED <<bookVars, freeze, calls>>
    BY <1>2 DEF PeekBest
  <2>2. \A p \in Orders : Accounts(p)'
    BY <1>2 DEF PeekBest, Accounts, bookVars
  <2> QED
    BY <1>2, <2>1, <2>2 DEF PeekBest, bookVars
<1>3. ASSUME NEW o \in Orders, MatchWithBest(o)
      PROVE  QInv'
  <2>1. CASE Goto(o, "match", "rest") /\ UNCHANGED bookVars
    <3>1. \A p \in Orders : Accounts(p)'
      BY <2>1 DEF Accounts, bookVars
    <3> QED
      BY <1>3, <2>1, <3>1 DEF MatchWithBest, bookVars
  <2>2. ASSUME NEW p \in Orders,
               IsBest(p, o), Goto(o, "match", "peek"), TradeWith(o, p)
        PROVE  QInv'
    <3> DEFINE rest == Quantity[o] - filled[o]
               qty == IF rest < open[p] THEN rest ELSE open[p]
    <3>1. p \in book /\ p # o
      BY <2>2 DEF IsBest, Against, Accounts
    <3>2. /\ qty \in Nat /\ 0 < qty /\ qty <= open[p]
          /\ filled[o] + qty <= Quantity[o]
      <4>1. open[p] \in Nat /\ open[p] > 0 /\ filled[o] \in Nat /\ Quantity[o] \in Nat
        BY <3>1 DEF Accounts
      <4>2. filled[o] < Quantity[o]
        BY <2>2 DEF Accounts
      <4> QED
        BY ONLY <4>1, <4>2
    <3>3. /\ filled' = [filled EXCEPT ![o] = @ + qty]
          /\ traded' = [traded EXCEPT ![o] = @ + qty, ![p] = @ + qty]
          /\ open' = [open EXCEPT ![p] = @ - qty]
          /\ book' = IF open[p] = qty THEN book \ {p} ELSE book
          /\ UNCHANGED <<stamp, updateID>>
      BY <2>2 DEF TradeWith
    <3>4. [with |-> p, price |-> Price[p], qty |-> qty] \in Trade
      BY <3>2 DEF Trade
    <3>5. trades' \in [Orders -> Seq(Trade)]
      <4>1. trades' = [trades EXCEPT ![o] = Append(@, [with |-> p, price |-> Price[p], qty |-> qty])]
        BY <2>2 DEF TradeWith
      <4> HIDE DEF qty
      <4> QED
        BY <3>4, <4>1
    <3> HIDE DEF qty
    <3>6. Types'
      <4>1. open' \in [Orders -> Nat] /\ filled' \in [Orders -> Nat] /\ traded' \in [Orders -> Nat]
        <5>1. /\ open[p] - qty \in Nat /\ filled[o] + qty \in Nat
              /\ traded[o] + qty \in Nat /\ traded[p] + qty \in Nat
          <6>1. /\ open[p] \in Nat /\ traded[p] \in Nat
                /\ filled[o] \in Nat /\ traded[o] \in Nat
            OBVIOUS
          <6> QED
            BY ONLY <3>2, <6>1
        <5> QED
          BY <3>1, <3>3, <5>1
      <4>2. UNCHANGED <<freeze, calls>>
        BY <1>3 DEF MatchWithBest
      <4> QED
        BY <2>2, <3>3, <3>5, <4>1, <4>2
    <3>7. ASSUME NEW q \in Orders PROVE Accounts(q)'
      <4>1. CASE q = o
        <5>1. /\ filled'[o] = filled[o] + qty
              /\ traded'[o] = traded[o] + qty
              /\ open'[o] = open[o]
              /\ o \in book' <=> o \in book
              /\ pc'[o] = "peek"
          BY <2>2, <3>1, <3>3
        <5> QED
          BY <2>2, <3>2, <4>1, <5>1 DEF Accounts
      <4>2. CASE q = p
        <5>1. /\ filled'[p] = filled[p]
              /\ traded'[p] = traded[p] + qty
              /\ open'[p] = open[p] - qty
              /\ p \in book' <=> open[p] # qty
              /\ pc'[p] = pc[p]
          BY <2>2, <3>1, <3>2, <3>3
        <5>2. open[p] \in Nat /\ traded[p] \in Nat /\ filled[p] \in Nat /\ Quantity[p] \in Nat
          OBVIOUS
        <5>3. /\ Kind[p] = "limit" /\ pc[p] \in {"wallet", "done"} /\ filled[p] <= Quantity[p]
              /\ traded[p] + open[p] = Quantity[p]
          BY <3>1 DEF Accounts
        <5>4. open'[p] \in Nat /\ traded'[p] + open'[p] = Quantity[p] /\ (p \in book' <=> open'[p] > 0)
          BY ONLY <3>2, <5>1, <5>2, <5>3
        <5> QED
          BY <4>2, <5>1, <5>3, <5>4 DEF Accounts
      <4>3. CASE q # o /\ q # p
        <5>1. /\ filled'[q] = filled[q]
              /\ traded'[q] = traded[q]
              /\ open'[q] = open[q]
              /\ q \in book' <=> q \in book
              /\ pc'[q] = pc[q]
          BY <2>2, <3>1, <3>3, <4>3
        <5> QED
          BY <4>3, <5>1 DEF Accounts
      <4> QED
        BY <4>1, <4>2, <4>3
    <3> QED
      BY <3>6, <3>7
  <2> QED
    BY <1>3, <2>1, <2>2 DEF MatchWithBest
<1>4. ASSUME NEW o \in Orders, Rest(o)
      PROVE  QInv'
  <2>1. Refund(o) \in Seq(Settling)
    BY RefundTypes
  <2>2. calls' \in [Orders -> Seq(Settling)]
    BY <1>4, <2>1 DEF Rest
  <2>5. \/ /\ Kind[o] = "limit" /\ filled[o] < Quantity[o]
           /\ book' = book \cup {o}
           /\ open' = [open EXCEPT ![o] = Quantity[o] - filled[o]]
           /\ stamp' = [stamp EXCEPT ![o] = updateID]
           /\ updateID' = updateID + 1
        \/ /\ ~(Kind[o] = "limit" /\ filled[o] < Quantity[o])
           /\ UNCHANGED <<book, open, stamp, updateID>>
    BY <1>4 DEF Rest
  <2>6. /\ filled[o] \in Nat /\ Quantity[o] \in Nat /\ open[o] \in Nat /\ traded[o] \in Nat
        /\ pc[o] = "rest" /\ o \notin book /\ ~(open[o] > 0) /\ traded[o] = filled[o]
        /\ filled[o] <= Quantity[o]
    BY <1>4 DEF Rest, Accounts
  <2>3. Types'
    <3>1. open' \in [Orders -> Nat] /\ book' \subseteq Orders
      <4>1. filled[o] < Quantity[o] => Quantity[o] - filled[o] \in Nat
        BY ONLY <2>6
      <4>2. open \in [Orders -> Nat] /\ book \subseteq Orders
        OBVIOUS
      <4> QED
        BY ONLY <2>5, <4>1, <4>2, o \in Orders
    <3>2. stamp' \in [Orders -> Nat] /\ updateID' \in Nat
      <4>1. stamp \in [Orders -> Nat] /\ updateID \in Nat
        OBVIOUS
      <4> QED
        BY ONLY <2>5, <4>1
    <3> QED
      BY <1>4, <2>2, <3>1, <3>2 DEF Rest
  <2>4. ASSUME NEW p \in Orders PROVE Accounts(p)'
    <3>1. CASE p # o
      <4>1. /\ open'[p] = open[p] /\ pc'[p] = pc[p]
            /\ p \in book' <=> p \in book
            /\ filled' = filled /\ traded' = traded
        BY <1>4, <2>5, <3>1 DEF Rest
      <4> QED
        BY <3>1, <4>1 DEF Accounts
    <3>2. CASE p = o
      <4>1. pc'[o] = "wallet" /\ filled' = filled /\ traded' = traded
        BY <1>4 DEF Rest
      <4>2. CASE Kind[o] = "limit" /\ filled[o] < Quantity[o]
        <5>1. o \in book' /\ open'[o] = Quantity[o] - filled[o]
          BY <2>5, <4>2
        <5> QED
          <6>1. /\ filled'[o] = filled[o] /\ traded'[o] = traded[o]
                /\ open'[o] > 0 /\ traded'[o] + open'[o] = Quantity[o]
            BY ONLY <2>6, <4>1, <4>2, <5>1
          <6>2. Accounts(o)'
            BY <2>6, <4>1, <4>2, <5>1, <6>1 DEF Accounts
          <6> QED
            BY <3>2, <6>2
      <4>3. CASE ~(Kind[o] = "limit" /\ filled[o] < Quantity[o])
        <5>1. o \notin book' /\ open'[o] = open[o]
          BY <2>5, <2>6, <4>3
        <5> QED
          <6>1. /\ filled'[o] = filled[o] /\ traded'[o] = traded[o]
                /\ Kind[o] = "limit" => traded'[o] + open'[o] = Quantity[o]
            BY <2>6, <4>1, <4>3, <5>1
          <6>2. filled'[o] <= Quantity[o] /\ traded'[o] = filled'[o] /\ ~(open'[o] > 0)
            BY <2>6, <5>1, <6>1
          <6>3. Accounts(o)'
            BY <4>1, <5>1, <6>1, <6>2 DEF Accounts
          <6> QED
            BY <3>2, <6>3
      <4> QED
        BY <4>2, <4>3
    <3> QED
      BY <3>1, <3>2
  <2> QED
    BY <2>3, <2>4
<1>5. ASSUME NEW o \in Orders, NextTrade(o)
      PROVE  QInv'
  <2>1. Head(trades[o]) \in Trade /\ Tail(trades[o]) \in Seq(Trade)
    BY <1>5 DEF NextTrade
  <2>2. SettlementOf(o, Head(trades[o])) \in Seq(Settling)
    BY <2>1, SettlementTypes
  <2>3. calls' \in [Orders -> Seq(Settling)] /\ trades' \in [Orders -> Seq(Trade)]
    BY <1>5, <2>1, <2>2 DEF NextTrade
  <2>4. \A p \in Orders : Accounts(p)'
    BY <1>5 DEF NextTrade, Accounts
  <2> QED
    BY <1>5, <2>3, <2>4 DEF NextTrade
<1>6. ASSUME NEW o \in Orders, WalletCall(o)
      PROVE  QInv'
  <2>1. calls' \in [Orders -> Seq(Settling)]
    BY <1>6 DEF WalletCall
  <2>2. \A p \in Orders : Accounts(p)'
    BY <1>6 DEF WalletCall, Accounts, bookVars
  <2> QED
    BY <1>6, <2>1, <2>2 DEF WalletCall, bookVars
<1>7. ASSUME NEW o \in Orders, Done(o)
      PROVE  QInv'
  <2>1. \A p \in Orders : Accounts(p)'
    BY <1>7 DEF Done, Accounts, bookVars
  <2> QED
    BY <1>7, <2>1 DEF Done, bookVars
<1>8. ASSUME NEW w \in Withdrawals, Withdraw(w)
      PROVE  QInv'
  BY <1>8 DEF Withdraw, Accounts, bookVars
<1>9. CASE UNCHANGED vars
  BY <1>9 DEF vars, bookVars, Accounts
<1> QED
  BY <1>1, <1>2, <1>3, <1>4, <1>5, <1>6, <1>7, <1>8, <1>9 DEF Next, Run

\* However concurrent orders race through the book, none trades more than its
\* quantity, and what a limit order has not traded rests in the book.
THEOREM OrdersNeverOverfill == Spec => []QuantityConserved
<1>1. Init => QInv
  BY ExchangeAssumption DEF Init, QInv, Types, Accounts
<1>2. QInv => QuantityConserved
  <2> SUFFICES ASSUME QInv, NEW o \in Orders
               PROVE  /\ traded[o] + open[o] <= Quantity[o]
                      /\ Kind[o] = "limit" /\ pc[o] \in {"wallet", "done"}
                            => traded[o] + open[o] = Quantity[o]
    BY DEF QuantityConserved
  <2>1. /\ open[o] \in Nat /\ filled[o] \in Nat /\ traded[o] \in Nat /\ Quantity[o] \in Nat
    BY ExchangeAssumption DEF QInv, Types
  <2>2. Accounts(o)
    BY DEF QInv
  <2> QED
    BY <2>1, <2>2 DEF Accounts
<1> QED
  BY <1>1, <1>2, QuantityStep, PTL DEF Spec

-----------------------------------------------------------------------------
(* The wallets.                                                             *)

BalancesAreNat ==
    /\ free \in [Users -> [Assets -> Nat]]
    /\ locked \in [Users -> [Assets -> Nat]]

\* Every call to the wallet keeps the balances natural numbers.
LEMMA BalanceStep == QInv /\ BalancesAreNat /\ [Next]_vars => BalancesAreNat'
<1> SUFFICES ASSUME QInv, BalancesAreNat, [Next]_vars
             PROVE  BalancesAreNat'
  OBVIOUS
<1> USE ExchangeAssumption DEF BalancesAreNat
<1>1. ASSUME NEW o \in Orders, LockBalance(o)
      PROVE  BalancesAreNat'
  <2>1. Owner[o] \in Users /\ FreezeAsset(o) \in Assets /\ freeze[o] \in Nat
    BY DEF QInv, Types, FreezeAsset, Assets
  <2>2. CASE free[Owner[o]][FreezeAsset(o)] >= freeze[o]
    <3>1. /\ free[Owner[o]][FreezeAsset(o)] - freeze[o] \in Nat
          /\ locked[Owner[o]][FreezeAsset(o)] + freeze[o] \in Nat
      BY <2>1, <2>2
    <3> QED
      BY <1>1, <2>1, <2>2, <3>1 DEF LockBalance
  <2>3. CASE ~(free[Owner[o]][FreezeAsset(o)] >= freeze[o])
    BY <1>1, <2>3 DEF LockBalance
  <2> QED
    BY <2>2, <2>3
<1>2. ASSUME NEW o \in Orders, WalletCall(o)
      PROVE  BalancesAreNat'
  <2> DEFINE c == Head(calls[o])
  <2>1. c \in Settling
    BY <1>2 DEF WalletCall, QInv, Types
  <2>2. c.user \in Users /\ c.asset \in Assets /\ c.amount \in Int /\ c.op \in {"unlock", "add"}
    BY <2>1 DEF Settling, Calls
  <2>3. c.op = "unlock" => c.amount \in Nat
    BY <2>1 DEF Settling
  <2> HIDE DEF c
  <2>4. free[c.user][c.asset] \in Nat /\ locked[c.user][c.asset] \in Nat
    BY <2>2
  <2>5. CASE c.op = "unlock"
    <3>1. UnlockBalance(c.user, c.asset, c.amount)
      BY <1>2, <2>5 DEF WalletCall, c
    <3>2. locked[c.user][c.asset] >= c.amount =>
             /\ locked[c.user][c.asset] - c.amount \in Nat
             /\ free[c.user][c.asset] + c.amount \in Nat
      BY <2>3, <2>4, <2>5
    <3>3. CASE locked[c.user][c.asset] >= c.amount
      <4>1. /\ free' = [free EXCEPT ![c.user][c.asset] = @ + c.amount]
            /\ locked' = [locked EXCEPT ![c.user][c.asset] = @ - c.amount]
        BY <3>1, <3>3 DEF UnlockBalance
      <4>2. free \in [Users -> [Assets -> Nat]] /\ locked \in [Users -> [Assets -> Nat]]
        OBVIOUS
      <4>3. free' \in [Users -> [Assets -> Nat]]
        BY ONLY <2>2, <3>2, <3>3, <4>1, <4>2
      <4>4. locked' \in [Users -> [Assets -> Nat]]
        BY ONLY <2>2, <3>2, <3>3, <4>1, <4>2
      <4> QED
        BY <4>3, <4>4
    <3>4. CASE ~(locked[c.user][c.asset] >= c.amount)
      BY <3>1, <3>4 DEF UnlockBalance, walletVars
    <3> QED
      BY <3>3, <3>4
  <2>6. CASE c.op # "unlock"
    <3>1. AddBalance(c.user, c.asset, c.amount)
      BY <1>2, <2>6 DEF WalletCall, c
    <3>2. ~(c.amount < 0 /\ free[c.user][c.asset] < 0 - c.amount) =>
             free[c.user][c.asset] + c.amount \in Nat
      BY <2>2, <2>4
    <3>3. CASE c.amount < 0 /\ free[c.user][c.asset] < 0 - c.amount
      BY <3>1, <3>3 DEF AddBalance
    <3>4. CASE ~(c.amount < 0 /\ free[c.user][c.asset] < 0 - c.amount)
      <4>1. free' = [free EXCEPT ![c.user][c.asset] = @ + c.amount] /\ locked' = locked
        BY <3>1, <3>4 DEF AddBalance
      <4>2. free[c.user][c.asset] + c.amount \in Nat
        BY <3>2, <3>4
      <4>3. free \in [Users -> [Assets -> Nat]] /\ locked \in [Users -> [Assets -> Nat]]
        OBVIOUS
      <4>4. free' \in [Users -> [Assets -> Nat]]
        BY ONLY <2>2, <4>1, <4>2, <4>3
      <4> QED
        BY <4>1, <4>3, <4>4
    <3> QED
      BY <3>3, <3>4
  <2> QED
    BY <2>5, <2>6
<1>3. ASSUME NEW w \in Withdrawals, Withdraw(w)
      PROVE  BalancesAreNat'
  <2>1. w.user \in Users /\ w.asset \in Assets /\ w.amount \in Nat
    BY DEF Assets
  <2>2. ~(free[w.user][w.asset] < w.amount) => free[w.user][w.asset] - w.amount \in Nat
    BY <2>1
  <2> QED
    BY <1>3, <2>1, <2>2 DEF Withdraw
<1>4. ASSUME NEW o \in Orders,
             \/ CheckBalance(o) \/ Estimate(o) \/ PeekBest(o) \/ MatchWithBest(o)
             \/ Rest(o) \/ NextTrade(o) \/ Done(o)
      PROVE  BalancesAreNat'
  <2>1. UNCHANGED walletVars
    BY <1>4 DEF CheckBalance, Estimate, PeekBest, MatchWithBest, Rest, NextTrade, Done, walletVars
  <2> QED
    BY <2>1 DEF walletVars
<1>5. CASE UNCHANGED vars
  BY <1>5 DEF vars, walletVars
<1> QED
  BY <1>1, <1>2, <1>3, <1>4, <1>5 DEF Next, Run

\* No balance turns negative between a check and the change it is for, whatever
\* orders, settlements and withdrawals run at the same time.
THEOREM BalancesStayNonNegative == Spec => []BalancesNonNegative
<1>1. Init => QInv /\ BalancesAreNat
  BY ExchangeAssumption DEF Init, QInv, Types, Accounts, BalancesAreNat, Assets
<1>2. BalancesAreNat => BalancesNonNegative
  BY DEF BalancesAreNat, BalancesNonNegative
<1> QED
  BY <1>1, <1>2, QuantityStep, BalanceStep, PTL DEF Spec

-----------------------------------------------------------------------------
(* One order at a time.  What PeekBest has seen still holds when MatchWithBest *)
(* and Rest act on it, because nobody else touches the book in between.        *)

\* The order that is at work trades with a best order that crosses, and rests beside
\* an order that crosses only if it has met an order of its own user.
Decided(o) ==
    /\ pc[o] = "match" => \E p \in Orders : IsBest(p, o) /\ Crosses(o, Price[p])
    /\ pc[o] = "rest" /\ Kind[o] = "limit" /\ filled[o] < Quantity[o] =>
          \A p \in Against(o) : Crosses(o, Price[p]) => MeetsItsOwner(o)

Within == \A o \in Orders : \A i \in DOMAIN trades[o] : Crosses(o, trades[o][i].price)

Uncrossed ==
    \A o \in book : \A p \in Against(o) : Crosses(o, Price[p]) => MeetsItsOwner(o) \/ MeetsItsOwner(p)

SInv ==
    serial =>
        /\ \A o, p \in Orders : Idle(o) \/ Idle(p) \/ o = p
        /\ Within
        /\ Uncrossed
        /\ \A o \in Orders : Decided(o)

\* Before orders the entries of a side.
LEMMA BeforeOrders ==
  ASSUME Types, NEW s
  PROVE  LET E == {p \in Orders : Side[p] = s}
         IN  /\ \A p, q \in E : Before(p, q) \/ Before(q, p)
             /\ \A p, q, r \in E : Before(p, q) /\ Before(q, r) => Before(p, r)
             /\ \A p \in E : Before(p, p)
<1> DEFINE E == {p \in Orders : Side[p] = s}
<1>1. \A p \in E : p \in Orders /\ Side[p] = s /\ Price[p] \in Nat /\ stamp[p] \in Nat
  BY ExchangeAssumption DEF Types
<1> HIDE DEF E
<1>2. \A p, q \in E : Before(p, q) \/ Before(q, p)
  BY <1>1 DEF Before
<1>3. ASSUME NEW p \in E, NEW q \in E, NEW r \in E, Before(p, q), Before(q, r)
      PROVE  Before(p, r)
  BY <1>1, <1>3 DEF Before
<1>4. \A p \in E : Before(p, p)
  BY <1>1 DEF Before
<1> QED
  BY <1>2, <1>3, <1>4 DEF E

\* A side of the book that is not empty has a best entry.
LEMMA BestExists ==
  ASSUME Types, IsFiniteSet(book), NEW o \in Orders, Against(o) # {}
  PROVE  \E p \in Orders : IsBest(p, o)
<1> DEFINE A == Against(o)
           Best(x, B) == x \in B /\ \A q \in B : Before(x, q)
           T == {B \in FiniteSubsetsOf(A) : B # {} /\ ~ \E x \in B : Best(x, B)}
<1>1. A \subseteq book /\ A \subseteq Orders /\ IsFiniteSet(A)
  BY FS_Subset DEF Against, Types
<1>2. PICK s : \A p \in A : Side[p] = s
  <2>1. \A p \in A : Side[p] = IF Side[o] = "buy" THEN "sell" ELSE "buy"
    BY <1>1, ExchangeAssumption DEF Against
  <2> QED
    BY <2>1
<1>3. /\ \A p, q \in A : Before(p, q) \/ Before(q, p)
      /\ \A p, q, r \in A : Before(p, q) /\ Before(q, r) => Before(p, r)
      /\ \A p \in A : Before(p, p)
  BY <1>1, <1>2, BeforeOrders
<1>5. T = {}
  <2> SUFFICES ASSUME T # {}
               PROVE  FALSE
    OBVIOUS
  <2>1. T \subseteq FiniteSubsetsOf(A)
    OBVIOUS
  <2>2. PICK B \in T : \A C \in T : ~ (<<C, B>> \in StrictSubsetOrdering(A))
    <3> HIDE DEF A, T
    <3> QED
      BY <2>1, FS_StrictSubsetOrderingWellFounded, WFMin
  <2>3. B \subseteq A /\ IsFiniteSet(B) /\ B # {} /\ ~ \E x \in B : Best(x, B)
    BY DEF FiniteSubsetsOf
  <2>4. PICK x \in B : TRUE
    BY <2>3
  <2> DEFINE C == B \ {x}
  <2>5. C \in FiniteSubsetsOf(A)
    BY <2>3, FS_RemoveElement DEF FiniteSubsetsOf
  <2>6. <<C, B>> \in StrictSubsetOrdering(A)
    BY <2>3, <2>4 DEF StrictSubsetOrdering
  <2>7. CASE C = {}
    <3>1. B = {x}
      BY <2>4, <2>7
    <3>2. Best(x, B)
      BY <1>3, <2>3, <3>1
    <3> QED
      BY <2>3, <3>2
  <2>8. CASE C # {}
    <3>1. PICK y \in C : Best(y, C)
      BY <2>2, <2>5, <2>6, <2>8
    <3>2. CASE Before(y, x)
      BY <2>3, <3>1, <3>2
    <3>3. CASE Before(x, y)
      <4>1. \A q \in B : Before(x, q)
        <5> TAKE q \in B
        <5>1. CASE q = x
          BY <1>3, <2>3, <5>1
        <5>2. CASE q # x
          BY <1>3, <2>3, <3>1, <3>3, <5>2
        <5> QED
          BY <5>1, <5>2
      <4> QED
        BY <2>3, <2>4, <4>1
    <3> QED
      BY <1>3, <2>3, <2>4, <3>1, <3>2, <3>3
  <2> QED
    BY <2>7, <2>8
<1>6. A \in FiniteSubsetsOf(A)
  BY <1>1 DEF FiniteSubsetsOf
<1>7. PICK x \in A : Best(x, A)
  BY <1>5, <1>6
<1> QED
  BY <1>1, <1>7 DEF IsBest

\* If an order crosses some entry it crosses the best one.
LEMMA BestCrosses ==
  ASSUME Types, NEW o \in Orders, NEW b \in Orders, IsBest(b, o),
         NEW p \in Against(o), Crosses(o, Price[p])
  PROVE  Crosses(o, Price[b])
<1>1. /\ p \in Orders /\ Side[b] # Side[o] /\ Side[p] # Side[o] /\ Before(b, p)
  BY DEF IsBest, Against, Types
<1>2. Price[o] \in Nat /\ Price[b] \in Nat /\ Price[p] \in Nat
  BY <1>1, ExchangeAssumption
<1>3. /\ Side[o] \in {"buy", "sell"} /\ Side[b] \in {"buy", "sell"} /\ Side[p] \in {"buy", "sell"}
  BY <1>1, ExchangeAssumption
<1> QED
  BY <1>1, <1>2, <1>3 DEF Before, Crosses

\* An element of an appended sequence is the last or was there before.
LEMMA AppendElements ==
  ASSUME NEW S, NEW q \in Seq(S), NEW x \in S, NEW i \in DOMAIN Append(q, x)
  PROVE  \/ i \in DOMAIN q /\ Append(q, x)[i] = q[i]
         \/ Append(q, x)[i] = x
<1>1. /\ Append(q, x) \in Seq(S) /\ Len(Append(q, x)) = Len(q) + 1 /\ Len(q) \in Nat
      /\ \A k \in 1 .. Len(q) : Append(q, x)[k] = q[k]
      /\ Append(q, x)[Len(q) + 1] = x
  OBVIOUS
<1>2. DOMAIN q = 1 .. Len(q) /\ DOMAIN Append(q, x) = 1 .. (Len(q) + 1)
  BY <1>1
<1> QED
  BY <1>1, <1>2

\* Two limit orders cross each other or do not.
LEMMA CrossingIsMutual ==
  ASSUME NEW o \in Orders, NEW p \in Orders, Kind[o] = "limit", Kind[p] = "limit",
         Side[o] # Side[p], Crosses(o, Price[p])
  PROVE  Crosses(p, Price[o])
<1>1. Price[o] \in Nat /\ Price[p] \in Nat /\ {Side[o], Side[p]} \subseteq {"buy", "sell"}
  BY ExchangeAssumption
<1> QED
  BY <1>1 DEF Crosses

\* An order that is done stays done, and so it keeps standing in its user's way.
LEMMA DoneStays ==
  ASSUME QInv, [Next]_vars
  PROVE  /\ \A q \in Orders : pc[q] = "done" => pc'[q] = "done"
         /\ \A o \in Orders : MeetsItsOwner(o) => MeetsItsOwner(o)'
<1>1. \A q \in Orders : pc[q] = "done" => pc'[q] = "done"
  <2> SUFFICES ASSUME NEW q \in Orders, pc[q] = "done"
               PROVE  pc'[q] = "done"
    OBVIOUS
  <2>1. ASSUME NEW o \in Orders, Run(o)
        PROVE  pc'[q] = "done"
    <3>1. CASE NextTrade(o) \/ WalletCall(o)
      BY <3>1 DEF NextTrade, WalletCall
    <3>2. ASSUME NEW from, NEW to, Goto(o, from, to), from # "done"
          PROVE  pc'[q] = "done"
      BY <3>2 DEF Goto, QInv, Types
    <3>3. CASE MatchWithBest(o)
      BY <3>2, <3>3 DEF MatchWithBest
    <3>4. CASE ~(NextTrade(o) \/ WalletCall(o) \/ MatchWithBest(o))
      <4>1. \E from, to : Goto(o, from, to) /\ from # "done"
        BY <2>1, <3>4 DEF Run, CheckBalance, Estimate, LockBalance, PeekBest, Rest, Done
      <4> QED
        BY <3>2, <4>1
    <3> QED
      BY <3>1, <3>3, <3>4
  <2>2. ASSUME NEW w \in Withdrawals, Withdraw(w)
        PROVE  pc'[q] = "done"
    BY <2>2 DEF Withdraw
  <2>3. CASE UNCHANGED vars
    BY <2>3 DEF vars
  <2> QED
    BY <2>1, <2>2, <2>3 DEF Next
<1> QED
  BY <1>1 DEF MeetsItsOwner, Crosses

\* The book gains at most one order in a step.
LEMMA BookStaysFinite == IsFiniteSet(book) /\ [Next]_vars => IsFiniteSet(book)'
<1> SUFFICES ASSUME IsFiniteSet(book), [Next]_vars
             PROVE  IsFiniteSet(book)'
  OBVIOUS
<1>1. book' = book \/ \E o \in Orders : book' \in {book \cup {o}, book \ {o}}
  <2>1. ASSUME NEW o \in Orders, Run(o)
        PROVE  book' = book \/ \E p \in Orders : book' \in {book \cup {p}, book \ {p}}
    <3>1. CASE MatchWithBest(o)
      <4>1. UNCHANGED book \/ \E p \in Orders : TradeWith(o, p)
        BY <3>1 DEF MatchWithBest, bookVars
      <4> QED
        BY <4>1 DEF TradeWith
    <3>2. CASE Rest(o)
      BY <3>2 DEF Rest
    <3>3. CASE ~MatchWithBest(o) /\ ~Rest(o)
      BY <2>1, <3>3 DEF Run, CheckBalance, Estimate, LockBalance, PeekBest, NextTrade, WalletCall,
                        Done, bookVars
    <3> QED
      BY <3>1, <3>2, <3>3
  <2>2. ASSUME NEW w \in Withdrawals, Withdraw(w)
        PROVE  book' = book
    BY <2>2 DEF Withdraw, bookVars
  <2>3. CASE UNCHANGED vars
    BY <2>3 DEF vars, bookVars
  <2> QED
    BY <2>1, <2>2, <2>3 DEF Next
<1> QED
  BY <1>1, FS_AddElement, FS_RemoveElement

\* A step that leaves the book and the trades alone and takes its order to where
\* nothing is decided keeps SInv.
LEMMA QuietStep ==
  ASSUME QInv, SInv, [Next]_vars, serial, NEW o \in Orders,
         \A p \in Orders \ {o} : Idle(p) /\ pc'[p] = pc[p],
         pc'[o] \notin {"match", "rest"},
         UNCHANGED <<serial, bookVars>>
  PROVE  SInv'
<1>1. \A p, q \in Orders : Idle(p)' \/ Idle(q)' \/ p = q
  BY DEF Idle
<1>2. Within'
  BY DEF SInv, Within, Crosses, bookVars
<1>3. Uncrossed'
  <2>1. \A p \in book : p \in Orders /\ \A q \in Against(p) : q \in Orders
    BY DEF QInv, Types, Against
  <2>2. book' = book /\ \A p \in book : Against(p)' = Against(p)
    BY DEF bookVars, Against
  <2>3. Uncrossed
    BY DEF SInv
  <2> QED
    BY <2>1, <2>2, <2>3, DoneStays DEF Uncrossed, Crosses
<1>4. \A p \in Orders : Decided(p)'
  BY DEF Decided, Idle
<1> QED
  BY <1>1, <1>2, <1>3, <1>4 DEF SInv

\* Every step of the order at work keeps what it has seen of the book true.
LEMMA SerialStep == QInv /\ IsFiniteSet(book) /\ SInv /\ [Next]_vars => SInv'
<1> SUFFICES ASSUME QInv, IsFiniteSet(book), SInv, [Next]_vars, serial
             PROVE  SInv'
  BY DEF SInv, Next, vars
<1> USE ExchangeAssumption
<1>s. serial' = serial
  BY DEF Next, vars
<1>0. /\ \A o, p \in Orders : Idle(o) \/ Idle(p) \/ o = p
      /\ Within /\ Uncrossed /\ \A o \in Orders : Decided(o)
  BY DEF SInv
<1>t. Types
  BY DEF QInv
<1>m. \A o \in Orders : MeetsItsOwner(o) => MeetsItsOwner(o)'
  BY DoneStays
<1>1. ASSUME NEW o \in Orders, CheckBalance(o) \/ Estimate(o) \/ LockBalance(o) \/ Done(o)
      PROVE  SInv'
  <2>1. UNCHANGED bookVars
    BY <1>1 DEF CheckBalance, Estimate, LockBalance, Done
  <2>2. \A p \in Orders \ {o} : Idle(p) /\ pc'[p] = pc[p]
    <3>1. CASE CheckBalance(o)
      BY <3>1, <1>t DEF CheckBalance, Goto, Types
    <3>2. CASE ~CheckBalance(o)
      <4>1. ~Idle(o)
        BY <1>1, <3>2 DEF Estimate, LockBalance, Done, Goto, Idle
      <4> QED
        BY <1>0, <1>1, <1>t, <3>2, <4>1 DEF Estimate, LockBalance, Done, Goto, Types
    <3> QED
      BY <3>1, <3>2
  <2>3. pc'[o] \notin {"match", "rest"}
    BY <1>1, <1>t DEF CheckBalance, Estimate, LockBalance, Done, Goto, Types
  <2> QED
    BY <1>s, <2>1, <2>2, <2>3, QuietStep
<1>2. ASSUME NEW o \in Orders, PeekBest(o)
      PROVE  SInv'
  <2>1. /\ ~Idle(o) /\ UNCHANGED bookVars
        /\ \A p \in Orders \ {o} : pc'[p] = pc[p]
    BY <1>2, <1>t DEF PeekBest, Goto, Idle, Types
  <2>2. \A p \in Orders \ {o} : Idle(p) /\ Idle(p)'
    BY <1>0, <2>1 DEF Idle
  <2>3. /\ Against(o)' = Against(o) /\ \A p \in Orders : IsBest(p, o)' <=> IsBest(p, o)
    BY <2>1 DEF bookVars, IsBest, Against, Before
  <2>4. Decided(o)'
    <3> DEFINE more == filled[o] < Quantity[o] /\ \E p \in Orders : IsBest(p, o) /\ Crosses(o, Price[p])
    <3>1. pc'[o] = IF more THEN "match" ELSE "rest"
      BY <1>2, <1>t DEF PeekBest, Goto, Types
    <3>2. CASE more
      <4>1. PICK p \in Orders : IsBest(p, o) /\ Crosses(o, Price[p])
        BY <3>2
      <4>2. IsBest(p, o)' /\ Crosses(o, Price[p])'
        BY <2>3, <4>1 DEF Crosses
      <4> QED
        BY <3>1, <3>2, <4>2 DEF Decided
    <3>3. CASE ~more /\ filled[o] < Quantity[o]
      <4>1. \A p \in Against(o) : ~Crosses(o, Price[p])
        BY <1>t, <3>3, BestExists, BestCrosses
      <4> QED
        BY <2>3, <3>1, <3>3, <4>1 DEF Decided, Crosses
    <3>4. CASE ~(filled[o] < Quantity[o])
      BY <2>1, <3>1, <3>4 DEF Decided, bookVars
    <3> QED
      BY <3>2, <3>3, <3>4
  <2>5. \A p \in Orders : Decided(p)'
    BY <2>2, <2>4 DEF Decided, Idle
  <2>6. Within' /\ Uncrossed'
    <3>1. Within'
      BY <1>0, <2>1 DEF Within, Crosses, bookVars
    <3>2. book \subseteq Orders /\ book' = book /\ \A p \in book : Against(p)' = Against(p)
      BY <1>t, <2>1 DEF bookVars, Against, Types
    <3> QED
      BY <1>0, <1>m, <3>1, <3>2 DEF Uncrossed, Crosses, Against
  <2> QED
    BY <2>2, <2>5, <2>6 DEF SInv
<1>3. ASSUME NEW o \in Orders, MatchWithBest(o)
      PROVE  SInv'
  <2>1. /\ ~Idle(o) /\ pc[o] = "match"
        /\ \A p \in Orders \ {o} : pc'[p] = pc[p]
    BY <1>3, <1>t DEF MatchWithBest, Goto, Idle, Types
  <2>2. \A p \in Orders \ {o} : Idle(p) /\ Idle(p)'
    BY <1>0, <2>1 DEF Idle
  <2>3. PICK b \in Orders : IsBest(b, o) /\ Crosses(o, Price[b])
    BY <1>0, <2>1 DEF Decided
  <2>4. b \in Against(o)
    BY <2>3 DEF IsBest
  <2>5. \A p \in Orders : IsBest(p, o) => Crosses(o, Price[p])
    BY <1>t, <2>3, <2>4, BestCrosses
  <2>6. book' \subseteq book => Uncrossed'
    <3>1. book \subseteq Orders
      BY <1>t DEF Types
    <3> QED
      BY <1>0, <1>m, <3>1 DEF Uncrossed, Crosses, Against
  <2>7. CASE Goto(o, "match", "rest") /\ UNCHANGED bookVars
    <3>1. PICK p \in Orders : IsBest(p, o) /\ Owner[p] = Owner[o]
      BY <1>3, <1>t, <2>4, <2>7 DEF MatchWithBest, Goto, Types
    <3>2. p \in book /\ Side[p] # Side[o] /\ p # o /\ Crosses(o, Price[p])
      BY <2>5, <3>1 DEF IsBest, Against
    <3>3. Kind[p] = "limit" /\ pc[p] = "done"
      BY <2>2, <3>2 DEF QInv, Accounts, Idle
    <3>4. MeetsItsOwner(o)'
      BY <1>m, <3>1, <3>2, <3>3 DEF MeetsItsOwner
    <3>5. pc'[o] = "rest"
      BY <1>t, <2>7 DEF Goto, Types
    <3>6. \A q \in Orders : Decided(q)'
      BY <2>2, <3>4, <3>5 DEF Decided, Idle
    <3>7. Within'
      BY <1>0, <2>7 DEF Within, Crosses, bookVars
    <3> QED
      BY <2>2, <2>6, <2>7, <3>6, <3>7 DEF SInv, bookVars
  <2>8. ASSUME NEW p \in Orders, IsBest(p, o), Goto(o, "match", "peek"), TradeWith(o, p)
        PROVE  SInv'
    <3>1. book' \subseteq book
      BY <2>8 DEF TradeWith
    <3>2. PICK n \in Nat :
             trades' = [trades EXCEPT ![o] = Append(@, [with |-> p, price |-> Price[p], qty |-> n])]
      <4>1. open[p] \in Nat /\ Quantity[o] \in Nat /\ filled[o] \in Nat /\ filled[o] <= Quantity[o]
        BY <1>t DEF QInv, Accounts, Types
      <4> DEFINE rest == Quantity[o] - filled[o]
                 qty == IF rest < open[p] THEN rest ELSE open[p]
      <4>2. trades' = [trades EXCEPT ![o] = Append(@, [with |-> p, price |-> Price[p], qty |-> qty])]
        BY <2>8 DEF TradeWith
      <4>3. qty \in Nat
        BY ONLY <4>1
      <4> HIDE DEF qty
      <4> QED
        BY <4>2, <4>3
    <3>3. Within'
      <4> SUFFICES ASSUME NEW q \in Orders, NEW i \in DOMAIN trades'[q]
                   PROVE  Crosses(q, trades'[q][i].price)
        BY DEF Within, Crosses
      <4>1. CASE q # o
        BY <1>0, <1>t, <3>2, <4>1 DEF Within, Types
      <4>2. CASE q = o
        <5> DEFINE t == [with |-> p, price |-> Price[p], qty |-> n]
        <5>1. trades[o] \in Seq(Trade) /\ trades'[o] = Append(trades[o], t) /\ t \in Trade
          BY <1>t, <3>2 DEF Types, Trade
        <5> HIDE DEF t
        <5>2. \/ i \in DOMAIN trades[o] /\ trades'[o][i] = trades[o][i]
              \/ trades'[o][i] = t
          <6>1. i \in DOMAIN Append(trades[o], t)
            BY <4>2, <5>1
          <6>2. \/ i \in DOMAIN trades[o] /\ Append(trades[o], t)[i] = trades[o][i]
                \/ Append(trades[o], t)[i] = t
            BY ONLY <5>1, <6>1, AppendElements
          <6> QED
            BY ONLY <5>1, <6>2
        <5>3. t.price = Price[p]
          BY DEF t
        <5> QED
          BY <1>0, <2>5, <2>8, <4>2, <5>2, <5>3 DEF Within
      <4> QED
        BY <4>1, <4>2
    <3>4. pc'[o] = "peek"
      BY <1>t, <2>8 DEF Goto, Types
    <3>5. \A q \in Orders : Decided(q)'
      BY <2>2, <3>4 DEF Decided, Idle
    <3> QED
      BY <2>2, <2>6, <3>1, <3>3, <3>5 DEF SInv
  <2> QED
    BY <1>3, <2>7, <2>8 DEF MatchWithBest
<1>4. ASSUME NEW o \in Orders, Rest(o)
      PROVE  SInv'
  <2>1. /\ ~Idle(o) /\ pc[o] = "rest" /\ pc'[o] = "wallet"
        /\ \A p \in Orders \ {o} : pc'[p] = pc[p]
    BY <1>4, <1>t DEF Rest, Goto, Idle, Types
  <2>2. \A p \in Orders \ {o} : Idle(p) /\ Idle(p)'
    BY <1>0, <2>1 DEF Idle
  <2>3. \A p \in Orders : Decided(p)'
    BY <2>1, <2>2 DEF Decided, Idle
  <2>4. Within'
    BY <1>0, <1>4 DEF Rest, Within, Crosses
  <2>5. Uncrossed'
    <3>1. book \subseteq Orders /\ \A p \in book : Kind[p] = "limit"
      BY <1>t DEF QInv, Accounts, Types
    <3>2. CASE book' = book
      BY <1>0, <1>m, <3>1, <3>2 DEF Uncrossed, Crosses, Against
    <3>3. CASE Kind[o] = "limit" /\ filled[o] < Quantity[o] /\ book' = book \cup {o}
      <4>1. \A p \in Against(o) : Crosses(o, Price[p]) => MeetsItsOwner(o)'
        BY <1>0, <1>m, <2>1, <3>3 DEF Decided
      <4>2. ASSUME NEW p \in book', NEW q \in book', Side[q] # Side[p], Crosses(p, Price[q])
            PROVE  MeetsItsOwner(p)' \/ MeetsItsOwner(q)'
        <5>1. CASE p \in book /\ q \in book
          BY <1>0, <1>m, <3>1, <4>2, <5>1 DEF Uncrossed, Against
        <5>2. CASE p = o
          BY <3>3, <4>1, <4>2, <5>2 DEF Against
        <5>3. CASE q = o
          <6>1. p \in book /\ Crosses(o, Price[p])
            BY <3>1, <3>3, <4>2, <5>3, CrossingIsMutual
          <6> QED
            BY <4>1, <4>2, <5>3, <6>1 DEF Against
        <5> QED
          BY <3>3, <5>1, <5>2, <5>3
      <4> QED
        BY <4>2 DEF Uncrossed, Against, Crosses
    <3> QED
      BY <1>4, <3>2, <3>3 DEF Rest
  <2> QED
    BY <2>2, <2>3, <2>4, <2>5 DEF SInv
<1>5. ASSUME NEW o \in Orders, NextTrade(o)
      PROVE  SInv'
  <2>1. UNCHANGED <<book, stamp, filled, pc>>
    BY <1>5 DEF NextTrade
  <2>2. Within'
    <3> SUFFICES ASSUME NEW q \in Orders, NEW i \in DOMAIN trades'[q]
                 PROVE  Crosses(q, trades'[q][i].price)
      BY DEF Within, Crosses
    <3>1. CASE q # o
      BY <1>0, <1>5, <1>t, <3>1 DEF Within, NextTrade, Types
    <3>2. CASE q = o
      <4>1. trades[o] \in Seq(Trade) /\ trades[o] # <<>> /\ trades'[o] = Tail(trades[o])
        BY <1>5, <1>t DEF NextTrade, Types
      <4>2. i + 1 \in DOMAIN trades[o] /\ trades'[o][i] = trades[o][i + 1]
        BY <3>2, <4>1
      <4> QED
        BY <1>0, <3>2, <4>2 DEF Within
    <3> QED
      BY <3>1, <3>2
  <2>3. Uncrossed'
    <3>1. book \subseteq Orders
      BY <1>t DEF Types
    <3> QED
      BY <1>0, <1>m, <2>1, <3>1 DEF Uncrossed, Crosses, Against
  <2>4. \A p \in Orders : Decided(p)'
    <3> TAKE p \in Orders
    <3>1. Decided(p)
      BY <1>0
    <3> QED
      BY <1>m, <2>1, <3>1 DEF Decided, IsBest, Against, Before, Crosses
  <2> QED
    BY <1>0, <2>1, <2>2, <2>3, <2>4 DEF SInv, Idle
<1>6. ASSUME UNCHANGED <<bookVars, pc>>
      PROVE  SInv'
  BY <1>6, <1>0, <1>s DEF SInv, Idle, Within, Uncrossed, Decided, IsBest, Against, Before, Crosses,
                          MeetsItsOwner, bookVars
<1>7. ASSUME NEW o \in Orders, WalletCall(o)
      PROVE  SInv'
  BY <1>6, <1>7 DEF WalletCall
<1>8. ASSUME NEW w \in Withdrawals, Withdraw(w)
      PROVE  SInv'
  BY <1>6, <1>8 DEF Withdraw
<1>9. CASE UNCHANGED vars
  BY <1>6, <1>9 DEF vars
<1> QED
  BY <1>1, <1>2, <1>3, <1>4, <1>5, <1>7, <1>8, <1>9 DEF Next, Run

\* When orders come one at a time nobody trades beyond his limit, and orders that could
\* trade rest side by side only when an order of the same user was in the way.
THEOREM OneByOneRespectsLimits == Spec => []QueueLimitsRespected
<1>1. Init => QInv /\ IsFiniteSet(book) /\ SInv
  <2> SUFFICES ASSUME Init
               PROVE  QInv /\ IsFiniteSet(book) /\ SInv
    OBVIOUS
  <2>1. QInv
    BY ExchangeAssumption DEF Init, QInv, Types, Accounts
  <2>2. IsFiniteSet(book)
    BY FS_EmptySet DEF Init
  <2>3. SInv
    BY DEF Init, SInv, Idle, Within, Uncrossed, Decided
  <2> QED
    BY <2>1, <2>2, <2>3
<1>2. SInv => QueueLimitsRespected
  BY DEF SInv, QueueLimitsRespected, LimitsRespected, Within, Uncrossed
<1> QED
  BY <1>1, <1>2, QuantityStep, BookStaysFinite, SerialStep, PTL DEF Spec
=============================================================================
