---------------------------- MODULE MCCatalogue -----------------------------
(* Instances of Catalogue for TLC. *)
EXTENDS Catalogue

Offer(name, amount, currency, interval) ==
    [name |-> name, slug |-> name, amount |-> amount, currency |-> currency,
     interval |-> interval]

(* Two offers; and one offer in two currencies, whose rows share their actions. *)
TwoOffers == <<Offer("basic", 1, "eur", "month"), Offer("repair", 2, "eur", "month")>>
TwoCurrencies == <<Offer("repair", 2, "eur", "once"), Offer("repair", 2, "usd", "once")>>
SomeCatalogues == {TwoOffers, TwoCurrencies}

(* One offer that is paid for by the month or by the year. *)
TwoIntervals ==
    {<<Offer("basic", 1, "eur", "month"), Offer("basic", 2, "eur", "year")>>}
=============================================================================
