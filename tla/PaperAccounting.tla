---------------------------- MODULE PaperAccounting ----------------------------
(***************************************************************************)
(* The bookkeeping of a paper experiment (services/paper_ledger/           *)
(* accounting.py): what a list of events amounts to.  Money is in cents,   *)
(* a quantity in the smallest fraction that is recorded, and rates are in  *)
(* parts of Scale.  A lot is known by the number of the event that bought  *)
(* it, which is also its place in the queue.  The upper bounds of amounts  *)
(* are left out.                                                           *)
(***************************************************************************)
EXTENDS Integers, Sequences, FiniteSetsExt

CONSTANT Scale  \* 10000 basis points in the code

ASSUME ScaleAssumption == Scale \in Nat \ {0}

\* cash_round: the quotient rounded to a cent, half to even.
HalfEven(n, d) ==
  LET q == n \div d
      r == 2 * (n % d)
  IN  IF r > d \/ (r = d /\ q % 2 = 1) THEN q + 1 ELSE q

\* trade_amounts: what a trade moves at the slipped price, and what it costs.
Principal(settings, trade) ==
  LET slip == IF trade.kind = "buy" THEN settings.slippage ELSE -settings.slippage
  IN  HalfEven(trade.quantity * trade.price * (Scale + slip), Scale)

Fee(settings, trade) == HalfEven(Principal(settings, trade) * settings.commission, Scale)

LotsOf(lots, symbol) == {i \in DOMAIN lots : lots[i].symbol = symbol}

Quantities(lots) == [i \in DOMAIN lots |-> lots[i].quantity]

Held(lots, symbol) == SumFunctionOnSet(Quantities(lots), LotsOf(lots, symbol))

Basis(lots) == SumFunction([i \in DOMAIN lots |-> lots[i].cost])

Symbols(lots) == {lots[i].symbol : i \in DOMAIN lots}

-------------------------------------------------------------------------------
(* What the request models let through: amounts that are not negative, positive
   quantities and prices, and rates of at most the whole (a tenth in the code) *)

IsSettings(settings) ==
  settings.cash \in Nat /\ settings.commission \in 0..Scale /\ settings.slippage \in 0..Scale

IsEntry(entry) ==
  /\ entry.kind = "created" => IsSettings(entry.settings)
  /\ entry.kind \in {"buy", "sell"} => entry.quantity \in Nat \ {0} /\ entry.price \in Nat \ {0}
  /\ entry.kind = "split" => entry.numerator \in Nat \ {0} /\ entry.denominator \in Nat \ {0}
  /\ entry.kind = "dividend" => entry.gross \in Nat \ {0} /\ entry.withholding \in Nat

-------------------------------------------------------------------------------
(* Trades *)

Buy(settings, state, n, trade) ==
  LET total == Principal(settings, trade) + Fee(settings, trade)
      lots == state.lots
      lot == [symbol |-> trade.symbol, quantity |-> trade.quantity, cost |-> total]
  IN  [state EXCEPT !.cash = @ - total,
                    !.lots = [i \in DOMAIN lots \cup {n} |-> IF i = n THEN lot ELSE lots[i]]]

\* First in, first out: what a sale takes from a lot after the older ones.
Used(lots, sale, i) ==
  LET older == SumFunctionOnSet(Quantities(lots), {j \in LotsOf(lots, sale.symbol) : j < i})
      rest == sale.quantity - older
  IN  IF lots[i].symbol # sale.symbol \/ rest =< 0 THEN 0 ELSE Min({rest, lots[i].quantity})

\* The last depletion of a lot takes all that is left of its cost.
CostUsed(lots, sale, i) ==
  IF Used(lots, sale, i) = lots[i].quantity THEN lots[i].cost
  ELSE HalfEven(lots[i].cost * Used(lots, sale, i), lots[i].quantity)

\* Mutant: what is left of a lot is valued by a fraction of its own.
RemainderByFraction(lots, sale, i) ==
  LET left == lots[i].quantity - Used(lots, sale, i)
  IN  [lots[i] EXCEPT !.quantity = left, !.cost = HalfEven(@ * left, lots[i].quantity)]

Remainder(lots, sale, i) ==
  [lots[i] EXCEPT !.quantity = @ - Used(lots, sale, i), !.cost = @ - CostUsed(lots, sale, i)]

Sell(settings, state, sale) ==
  LET lots == state.lots
      proceeds == Principal(settings, sale) - Fee(settings, sale)
      costs == [i \in DOMAIN lots |-> CostUsed(lots, sale, i)]
      spent == SumFunctionOnSet(costs, LotsOf(lots, sale.symbol))
      kept == {i \in DOMAIN lots : Used(lots, sale, i) < lots[i].quantity}
  IN  [state EXCEPT !.cash = @ + proceeds,
                    !.realized = @ + proceeds - spent,
                    !.lots = [i \in kept |-> Remainder(lots, sale, i)]]

-------------------------------------------------------------------------------
(* Corporate actions *)

SplitQuantity(lot, split) == lot.quantity * split.numerator

Split(state, split) ==
  [state EXCEPT !.lots =
     [i \in DOMAIN state.lots |->
        LET lot == state.lots[i]
        IN  IF lot.symbol # split.symbol THEN lot
            ELSE [lot EXCEPT !.quantity = SplitQuantity(lot, split) \div split.denominator]]]

\* A dividend per share is in parts of Scale of a cent.
Gross(lots, dividend) == HalfEven(Held(lots, dividend.symbol) * dividend.gross, Scale)

Dividend(state, dividend) ==
  LET income == Gross(state.lots, dividend) - dividend.withholding
  IN  [state EXCEPT !.cash = @ + income, !.income = @ + income]

-------------------------------------------------------------------------------
(* replay *)

\* The entries that replay does not raise PaperInvalid for, experiments that are
\* closed set aside.
Acceptable(settings, state, entry) ==
  /\ entry.kind \in {"buy", "sell", "split", "dividend"} => entry.symbol \in settings.symbols
  /\ entry.kind \in {"buy", "sell"} => Principal(settings, entry) > 0
  /\ entry.kind = "buy" => Principal(settings, entry) + Fee(settings, entry) =< state.cash
  /\ entry.kind = "sell" => entry.quantity =< Held(state.lots, entry.symbol)
  /\ entry.kind = "split" =>
       /\ LotsOf(state.lots, entry.symbol) # {}
       /\ \A i \in LotsOf(state.lots, entry.symbol) :
            SplitQuantity(state.lots[i], entry) % entry.denominator = 0
  /\ entry.kind = "dividend" =>
       /\ Held(state.lots, entry.symbol) > 0
       /\ entry.withholding =< Gross(state.lots, entry)

Initial(settings) == [cash |-> settings.cash, realized |-> 0, income |-> 0, lots |-> <<>>]

\* The entry of event number n.
Apply(settings, state, n, entry) ==
  CASE entry.kind = "buy" -> Buy(settings, state, n, entry)
    [] entry.kind = "sell" -> Sell(settings, state, entry)
    [] entry.kind = "split" -> Split(state, entry)
    [] entry.kind = "dividend" -> Dividend(state, entry)
    [] OTHER -> state

Settings(events) == events[1].entry.settings

\* The projection after each of the events.
Projections(events) ==
  LET p[n \in DOMAIN events] ==
        IF n = 1 THEN Initial(Settings(events))
        ELSE Apply(Settings(events), p[n - 1], n, events[n].entry)
  IN  p

Projection(events) == Projections(events)[Len(events)]

Accepts(events, entry) == Acceptable(Settings(events), Projection(events), entry)

Positions(events) == Symbols(Projection(events).lots)

Closed(events) == events[Len(events)].entry.kind = "close"

===============================================================================
