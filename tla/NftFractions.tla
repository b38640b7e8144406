---------------------------- MODULE NftFractions ----------------------------
(***************************************************************************)
(* Shares of NFTs in the counter contract (counter/src/nft_fractional.rs,  *)
(* with the registries of counter/src/nft_storage.rs): an NFT is split     *)
(* into shares that are bought, sold, transferred and joined again, or     *)
(* locked in a vault whose shares are minted and withdrawn.                *)
(*                                                                         *)
(* Prices only reach events, so they are left out; so are the totals of a  *)
(* portfolio, which nothing reads.                                         *)
(***************************************************************************)
EXTENDS Integers, Sequences, FiniteSets, Sums

CONSTANTS
    Users, Nfts,
    Frozen,         \* the users the emergency module has frozen
    Collateral,     \* the NFTs a loan is recorded for
    MinShares, MaxShares,   \* MIN_SHARES, MAX_SHARES
    MinVaultMint,   \* MIN_VAULT_MINT_AMOUNT
    Delay,          \* WITHDRAWAL_DELAY
    FeeParts, FeeUnit,      \* MAX_WITHDRAWAL_FEE_BPS of 10000
    Amounts,        \* bound: the numbers of shares in calls
    MaxVaults, MaxTime, MaxHeld     \* bounds: vaults, time, shares of one user

FractionsAssumption ==
    /\ IsFiniteSet(Users) /\ Frozen \subseteq Users /\ Collateral \subseteq Nfts
    /\ MinShares \in Nat /\ MaxShares \in Nat /\ MinVaultMint \in Nat
    /\ Delay \in Nat /\ FeeParts \in Nat /\ FeeUnit \in Nat \ {0}
    /\ Amounts \subseteq Nat
    /\ MaxVaults \in Nat /\ MaxTime \in Nat /\ MaxHeld \in Nat

VARIABLES
    nfts,           \* the NFT records
    shares,         \* shares of (NFT, user), absent as 0
    holders,        \* token_shareholders, the list beside them
    vaults,         \* vaults, in the order of their ids
    vaultShares,    \* vault_shares, absent as 0, with last_deposit
    paused,         \* MARKETPLACE_PAUSED_KEY
    now

vars == <<nfts, shares, holders, vaults, vaultShares, paused, now>>

NFT == [owner : Users, split : BOOLEAN, supply : Nat, circulating : Nat]

Vault == [nft : Nfts, owner : Users, total : Nat, supply : Nat, active : BOOLEAN]

TypeOK ==
    /\ nfts \in [Nfts -> NFT]
    /\ shares \in [Nfts \X Users -> Nat] /\ holders \in [Nfts -> SUBSET Users]
    /\ vaults \in Seq(Vault)
    /\ vaultShares \in [(1..MaxVaults) \X Users -> [shares : Nat, last : Nat]]
    /\ paused \in BOOLEAN /\ now \in 0..MaxTime

\* One user has minted every NFT
Init ==
    /\ \E minter \in Users \ Frozen :
        nfts = [n \in Nfts |-> [owner |-> minter, split |-> FALSE,
                                supply |-> 1, circulating |-> 1]]
    /\ shares = [entry \in Nfts \X Users |-> 0]
    /\ holders = [n \in Nfts |-> {}]
    /\ vaults = <<>>
    /\ vaultShares = [entry \in (1..MaxVaults) \X Users |-> [shares |-> 0, last |-> 0]]
    /\ paused = FALSE /\ now = 0

-----------------------------------------------------------------------------
(* The registry of shares: set_shares and remove_shareholder.              *)

SetShares(old, n, user, count) == [old EXCEPT ![<<n, user>>] = count]

Listed(old, n, user, count) ==
    [old EXCEPT ![n] = IF count = 0 THEN @ \ {user} ELSE @ \union {user}]

\* saturating_sub
Minus(x, y) == IF x > y THEN x - y ELSE 0

MaySplit(user, n, total) ==
    /\ ~paused /\ user \notin Frozen
    /\ total >= MinShares /\ total <= MaxShares
    /\ nfts[n].owner = user /\ ~nfts[n].split
    /\ n \notin Collateral

\* The owner gets every share, and as many again are for sale
FractionalizeNft(user, n, total) ==
    /\ MaySplit(user, n, total)
    /\ nfts' = [nfts EXCEPT ![n].split = TRUE, ![n].supply = total,
                            ![n].circulating = 0]
    /\ shares' = SetShares(shares, n, user, total)
    /\ holders' = Listed(holders, n, user, total)
    /\ UNCHANGED <<vaults, vaultShares, paused, now>>

BuyFractionalShares(user, n, count) ==
    /\ ~paused /\ user \notin Frozen /\ count > 0 /\ nfts[n].split
    /\ count <= Minus(nfts[n].supply, nfts[n].circulating)
    /\ shares[n, user] + count <= MaxHeld
    /\ nfts' = [nfts EXCEPT ![n].circulating = @ + count]
    /\ shares' = SetShares(shares, n, user, shares[n, user] + count)
    /\ holders' = Listed(holders, n, user, count)
    /\ UNCHANGED <<vaults, vaultShares, paused, now>>

\* Nobody asks whether the NFT is still split
SellFractionalShares(user, n, count) ==
    /\ ~paused /\ count > 0 /\ shares[n, user] >= count
    /\ nfts' = [nfts EXCEPT ![n].circulating = Minus(@, count)]
    /\ shares' = SetShares(shares, n, user, shares[n, user] - count)
    /\ holders' = Listed(holders, n, user, shares[n, user] - count)
    /\ UNCHANGED <<vaults, vaultShares, paused, now>>

TransferFractionalShares(from, to, n, count) ==
    /\ ~paused /\ from \notin Frozen /\ count > 0 /\ from # to
    /\ nfts[n].split /\ shares[n, from] >= count
    /\ shares[n, to] + count <= MaxHeld
    /\ shares' = [shares EXCEPT ![<<n, from>>] = @ - count, ![<<n, to>>] = @ + count]
    /\ holders' = Listed(Listed(holders, n, from, shares[n, from] - count), n, to, count)
    /\ UNCHANGED <<nfts, vaults, vaultShares, paused, now>>

\* One who holds as many shares as the supply joins the NFT; every listed
\* holder loses theirs
DefractionalizeNft(user, n) ==
    /\ ~paused /\ nfts[n].split
    /\ user \in holders[n] /\ shares[n, user] = nfts[n].supply
    /\ nfts' = [nfts EXCEPT ![n].split = FALSE, ![n].supply = 1, ![n].circulating = 1]
    /\ shares' = [entry \in DOMAIN shares |->
            IF entry[1] = n /\ entry[2] \in holders[n] THEN 0 ELSE shares[entry]]
    /\ holders' = [holders EXCEPT ![n] = {}]
    /\ UNCHANGED <<vaults, vaultShares, paused, now>>

-----------------------------------------------------------------------------
(* Vaults.                                                                 *)

\* The NFT stays with its owner, marked as split; all shares are minted
CreateFractionalVault(user, n, total) ==
    /\ MaySplit(user, n, total)
    /\ Len(vaults) < MaxVaults /\ total >= MinVaultMint
    /\ vaults' = Append(vaults, [nft |-> n, owner |-> user, total |-> total,
                                 supply |-> total, active |-> TRUE])
    /\ vaultShares' = [vaultShares EXCEPT ![<<Len(vaults) + 1, user>>] =
            [shares |-> @.shares + total, last |-> now]]
    /\ nfts' = [nfts EXCEPT ![n].split = TRUE, ![n].supply = total,
                            ![n].circulating = total]
    /\ UNCHANGED <<shares, holders, paused, now>>

\* Mutation: what has been minted before is forgotten
MintVaultSharesUnlimited(user, v, count) ==
    /\ count >= MinVaultMint /\ vaults[v].active
    /\ count <= vaults[v].total
    /\ vaults' = [vaults EXCEPT ![v].supply = @ + count]
    /\ vaultShares' = [vaultShares EXCEPT ![<<v, user>>] =
            [shares |-> @.shares + count, last |-> now]]
    /\ nfts' = [nfts EXCEPT ![vaults[v].nft].circulating = @ + count]
    /\ UNCHANGED <<shares, holders, paused, now>>

\* Anybody mints what has been withdrawn
MintVaultShares(user, v, count) ==
    /\ count >= MinVaultMint /\ vaults[v].active
    /\ vaults[v].supply + count <= vaults[v].total
    /\ vaults' = [vaults EXCEPT ![v].supply = @ + count]
    /\ vaultShares' = [vaultShares EXCEPT ![<<v, user>>] =
            [shares |-> @.shares + count, last |-> now]]
    /\ nfts' = [nfts EXCEPT ![vaults[v].nft].circulating = @ + count]
    /\ UNCHANGED <<shares, holders, paused, now>>

\* The burnt shares leave the supply whole, the circulation without the fee;
\* the owner who empties the vault gets the NFT back.  The circulation is
\* set before it is reduced, and a reduction below zero fails the call.
WithdrawVaultShares(user, v, count) ==
    LET vault   == vaults[v]
        n       == vault.nft
        paid    == count - (count * FeeParts) \div FeeUnit
        emptied == vault.supply = count /\ vault.owner = user
        joined  == IF ~emptied THEN nfts[n]
                   ELSE [owner |-> user, split |-> FALSE, supply |-> 1, circulating |-> 1]
    IN  /\ count > 0 /\ vaultShares[v, user].shares >= count
        /\ Delay = 0 \/ now >= vaultShares[v, user].last + Delay
        /\ joined.circulating >= paid
        /\ vaults' = [vaults EXCEPT ![v].supply = @ - count,
                                    ![v].active = @ /\ ~emptied]
        /\ vaultShares' = [vaultShares EXCEPT ![<<v, user>>].shares = @ - count]
        /\ nfts' = [nfts EXCEPT ![n] = [joined EXCEPT !.circulating = @ - paid]]
        /\ UNCHANGED <<shares, holders, paused, now>>

SetPaused(flag) ==
    /\ paused' = flag
    /\ UNCHANGED <<nfts, shares, holders, vaults, vaultShares, now>>

Tick ==
    /\ now < MaxTime
    /\ now' = now + 1
    /\ UNCHANGED <<nfts, shares, holders, vaults, vaultShares, paused>>

Next ==
    \/ \E user \in Users, n \in Nfts, count \in Amounts :
        \/ FractionalizeNft(user, n, count)
        \/ BuyFractionalShares(user, n, count)
        \/ SellFractionalShares(user, n, count)
        \/ \E to \in Users : TransferFractionalShares(user, to, n, count)
        \/ CreateFractionalVault(user, n, count)
    \/ \E user \in Users, n \in Nfts : DefractionalizeNft(user, n)
    \/ \E user \in Users, v \in DOMAIN vaults, count \in Amounts :
        \/ MintVaultShares(user, v, count)
        \/ WithdrawVaultShares(user, v, count)
    \/ \E flag \in BOOLEAN : SetPaused(flag)
    \/ Tick

Spec == Init /\ [][Next]_vars

-----------------------------------------------------------------------------
(* Properties.                                                             *)

\* The list of an NFT's holders, by which defractionalize_nft finds the
\* shares to remove, is exact through purchases, sales, transfers and joins.
HoldersListed ==
    \A n \in Nfts : holders[n] = {user \in Users : shares[n, user] > 0}

\* A vault never owes more shares than its total, and its supply is what its
\* holders have, whoever mints and withdraws, and however often the NFT goes
\* into a vault again (mint_vault_shares, withdraw_vault_shares).
VaultSharesBacked ==
    \A v \in DOMAIN vaults :
        /\ SetTotal([user \in Users |-> vaultShares[<<v, user>>].shares], Users) = vaults[v].supply
        /\ vaults[v].supply <= vaults[v].total
=============================================================================
