-------------------------------- MODULE MCOffers --------------------------------
EXTENDS Offers, TLC

\* Tenths of a dollar and quarters of a fare; profiles that scale, that do not, and that name no currency
SomeRates == "USD" :> 10 @@ "EUR" :> 11 @@ "BRL" :> 2
SomeProfiles == "IB" :> [code |-> "IB", currency |-> "EUR", scale |-> 5]
             @@ "AA" :> [code |-> "AA", currency |-> "USD", scale |-> 4]
             @@ "CM" :> [code |-> "CM", currency |-> "none", scale |-> 6]

Says(carrier, cur, amt, text) ==
    [trip |-> "reference", carrier |-> carrier, fare |-> [cur |-> cur, amt |-> amt], text |-> text]
Block(id, item) == [offer |-> id, item |-> item]
Like(id, text) == Block(id, [id EXCEPT !.text = text])

\* Two offers a cycle apart, a fare too small to convert, an offer and an item that
\* disagree, and identifiers that say little or nothing
Twins == <<Like(Says("LA", "BRL", 1000, "a"), "b"), Like(Says("LA", "BRL", 2000, "c"), "d")>>
Tiny == <<Like(Says("LA", "BRL", 1, "a"), "b")>>
Apart == <<Block(Says("LA", "BRL", 700, "a"), Says("LA", "USD", 300, "b"))>>
Bare == [trip |-> "reference", carrier |-> "", fare |-> [cur |-> "none", amt |-> 0], text |-> "a"]
Mute == <<Block(Bare, Says("LA", "BRL", 700, "b")),
          Block([Bare EXCEPT !.trip = "none", !.text = "c"], [Bare EXCEPT !.trip = "none", !.text = "d"])>>

Deployed(refs) == [reference : refs, offers : {0, 1, 3}, maxOffers : {0, 2}, airline : {"", "IB"}]
Every == Deployed({Twins, Tiny, Apart, Mute})
Plain == Deployed({Twins})
================================================================================
