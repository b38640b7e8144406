----------------------------- MODULE NftMarket ------------------------------
(***************************************************************************)
(* The NFT marketplace of the counter contract                             *)
(* (counter/src/nft_marketplace.rs, with the registries of nft_storage.rs) *)
(* and the loans on the same NFTs (NftLending).  Prices move no money      *)
(* here: a sale records them.  The sales modelled are of single NFTs; the  *)
(* statistics of collections, which nothing reads, are left out.           *)
(***************************************************************************)
EXTENDS Integers, Sequences, FiniteSets

CONSTANTS
    Users, Nfts, Pools, Frozen, Split, MaxRate, RateUnit, Precision, Optimal,
    Slope1, Slope2, BaseRate, MaxLtv, TriggerLtv, PartialLtv, LtvUnit, MinCover,
    Grace, QueueSize, Amounts, Rates, Days, Values, Bids, MaxLoans, MaxDeposit,
    MaxTime,                \* as in NftLending
    Prices,                 \* bound: prices, bids and offers
    Durations,              \* bound: how long a listing or an offer stands
    MaxListings, MaxOffers  \* bounds

VARIABLES
    owner, loans, collateral, activeCount, taken, given, pools, deposits, value,
    queue, bids, paused, now,       \* as in NftLending
    listings,       \* the listings, in the order of their ids
    offers,         \* the offers, in the order of their ids
    activeListings, activeOffers    \* the counters of each portfolio

NFTListing == [nft : Nfts, seller : Users, price : Nat, expires : Nat, auction : BOOLEAN,
               minBid : Nat, best : Nat, bidder : Users, active : BOOLEAN]

NFTOffer == [nft : Nfts, buyer : Users, amount : Nat, expires : Nat, active : BOOLEAN]

Loans == INSTANCE NftLending WITH
    listed <- {listings[i].nft : i \in {j \in DOMAIN listings : listings[j].active}}

MarketAssumption ==
    /\ Loans!LendingAssumption
    /\ Prices \union Durations \subseteq Nat /\ MaxListings \in Nat /\ MaxOffers \in Nat

bookVars == <<listings, offers, activeListings, activeOffers>>
pledgeVars == <<loans, collateral, activeCount, taken, given>>
loanVars == <<pledgeVars, pools, deposits, value, queue, bids, paused, now>>
vars == <<owner, loanVars, bookVars>>

Init ==
    /\ listings = <<>> /\ offers = <<>>
    /\ Loans!Init
    /\ activeListings = [u \in Users |-> 0] /\ activeOffers = [u \in Users |-> 0]

-----------------------------------------------------------------------------

Trading(user) == ~paused /\ user \notin Frozen

\* execute_trade: the seller must own the NFT; a pledge is not looked at
Trade(n, seller, buyer) ==
    /\ owner[n] = seller
    /\ owner' = [owner EXCEPT ![n] = buyer]
    /\ UNCHANGED loanVars

\* deactivate_listing refuses a listing that is not active
DeactivateListing(i) ==
    /\ listings[i].active
    /\ listings' = [listings EXCEPT ![i].active = FALSE]

DeactivateOffer(i) ==
    /\ offers[i].active
    /\ offers' = [offers EXCEPT ![i].active = FALSE]

CountListing(user, delta) ==
    activeListings' = [activeListings EXCEPT ![user] = IF @ + delta < 0 THEN 0 ELSE @ + delta]

CountOffer(user, delta) ==
    activeOffers' = [activeOffers EXCEPT ![user] = IF @ + delta < 0 THEN 0 ELSE @ + delta]

\* An NFT that was pledged once is never listed again
CreateListing(seller, n, price, duration, auction, minBid) ==
    /\ Trading(seller) /\ Len(listings) < MaxListings
    /\ price > 0 /\ (auction => minBid > 0)
    /\ owner[n] = seller /\ collateral[n] = 0
    /\ listings' = Append(listings,
            [nft |-> n, seller |-> seller, price |-> price, expires |-> now + duration,
             auction |-> auction, minBid |-> IF auction THEN minBid ELSE 0,
             best |-> 0, bidder |-> seller, active |-> TRUE])
    /\ CountListing(seller, 1)
    /\ UNCHANGED <<owner, loanVars, offers, activeOffers>>

CancelListing(seller, i) ==
    /\ listings[i].seller = seller
    /\ DeactivateListing(i)
    /\ CountListing(seller, -1)
    /\ UNCHANGED <<owner, loanVars, offers, activeOffers>>

\* is_valid of listings and offers
Valid(entry) == entry.active /\ now <= entry.expires

\* A bid's amount is only recorded
PlaceBid(bidder, i, bid) ==
    /\ Trading(bidder)
    /\ listings[i].auction /\ Valid(listings[i]) /\ listings[i].seller # bidder
    /\ bid >= listings[i].minBid /\ bid > listings[i].best
    /\ listings' = [listings EXCEPT ![i].best = bid, ![i].bidder = bidder]
    /\ UNCHANGED <<owner, loanVars, offers, activeListings, activeOffers>>

CreateOffer(buyer, n, amount, duration) ==
    /\ Trading(buyer) /\ Len(offers) < MaxOffers
    /\ amount > 0 /\ owner[n] # buyer
    /\ offers' = Append(offers, [nft |-> n, buyer |-> buyer, amount |-> amount,
                                 expires |-> now + duration, active |-> TRUE])
    /\ CountOffer(buyer, 1)
    /\ UNCHANGED <<owner, loanVars, listings, activeListings>>

CancelOffer(buyer, i) ==
    /\ offers[i].buyer = buyer
    /\ DeactivateOffer(i)
    /\ CountOffer(buyer, -1)
    /\ UNCHANGED <<owner, loanVars, listings, activeListings>>

\* Neither a pledge nor a listing of the NFT stands in the way
AcceptOffer(seller, i) ==
    /\ ~paused
    /\ Valid(offers[i])
    /\ Trade(offers[i].nft, seller, offers[i].buyer)
    /\ DeactivateOffer(i)
    /\ CountOffer(offers[i].buyer, -1)
    /\ UNCHANGED <<listings, activeListings>>

BuyNft(buyer, i) ==
    /\ Trading(buyer)
    /\ ~listings[i].auction /\ Valid(listings[i]) /\ listings[i].seller # buyer
    /\ Trade(listings[i].nft, listings[i].seller, buyer)
    /\ DeactivateListing(i)
    /\ CountListing(listings[i].seller, -1)
    /\ UNCHANGED <<offers, activeOffers>>

\* By anybody, pause or no pause
FinalizeAuction(i) ==
    /\ listings[i].auction /\ now > listings[i].expires /\ listings[i].best > 0
    /\ Trade(listings[i].nft, listings[i].seller, listings[i].bidder)
    /\ DeactivateListing(i)
    /\ CountListing(listings[i].seller, -1)
    /\ UNCHANGED <<offers, activeOffers>>

ListingNext ==
    \/ \E user \in Users, n \in Nfts, price \in Prices, duration \in Durations :
        \/ \E auction \in BOOLEAN : CreateListing(user, n, price, duration, auction, price)
        \/ CreateOffer(user, n, price, duration)
    \/ \E i \in DOMAIN listings :
        \/ \E user \in Users : \/ CancelListing(user, i)
                               \/ BuyNft(user, i)
                               \/ \E bid \in Prices : PlaceBid(user, i, bid)
        \/ FinalizeAuction(i)

MarketNext ==
    \/ ListingNext
    \/ \E i \in DOMAIN offers, user \in Users : AcceptOffer(user, i) \/ CancelOffer(user, i)

Next == MarketNext \/ (Loans!Next /\ UNCHANGED bookVars)

Spec == Init /\ [][Next]_vars

-----------------------------------------------------------------------------
(* Properties; OneDealPerMove is about steps.                             *)

\* Every variable of the marketplace has its type (the loans have theirs).
TypeOK ==
    /\ listings \in Seq(NFTListing) /\ offers \in Seq(NFTOffer)
    /\ activeListings \in [Users -> Nat] /\ activeOffers \in [Users -> Nat]

\* However sales, cancellations, late finalizations and loans interleave, the
\* counters of every portfolio are the numbers of its active listings and
\* offers (update_ and decrement_portfolio_*, which saturate and so would
\* hide a second decrement).
PortfoliosCountBooks ==
    \A u \in Users :
        /\ activeListings[u] = Cardinality({i \in DOMAIN listings :
                                    listings[i].active /\ listings[i].seller = u})
        /\ activeOffers[u] = Cardinality({i \in DOMAIN offers :
                                    offers[i].active /\ offers[i].buyer = u})

\* An NFT changes hands by one deal that was open and is closed by it: an
\* active listing of the owner, an active offer, or a live loan that is short
\* or overdue and is liquidated.  A cancelled or settled deal, or a repaid
\* loan that is funded again, never moves it again.
OneDealPerMove ==
    \A n \in Nfts : owner'[n] # owner[n] =>
        \/ \E i \in DOMAIN listings : /\ listings[i].nft = n /\ listings[i].active
                                      /\ listings[i].seller = owner[n] /\ ~listings'[i].active
        \/ \E i \in DOMAIN offers : /\ offers[i].nft = n /\ offers[i].active
                                    /\ offers[i].buyer = owner'[n] /\ ~offers'[i].active
        \/ Loans!Seized(n)
=============================================================================
