---------------------------- MODULE Marketplace ----------------------------
(***************************************************************************)
(* Several listings over the one GlobalStates account: initialisation,     *)
(* configuration updates, the mock clock, the two allowlists with their    *)
(* index, the ids creators race for, the fixed space of a listing's        *)
(* account, and revenue claims that name the fee treasury.                 *)
(*                                                                         *)
(* Auction and Raffle have what happens inside a listing. Here a listing   *)
(* keeps its end, what fills its account, and whether its revenue can      *)
(* leave, and did. Outsiders may send tokens to an escrow, and lamports to *)
(* the address of an index page.                                           *)
(* Clients build a transaction from the global states they fetched; it     *)
(* lands later, on whatever these have become, or never.                   *)
(***************************************************************************)
EXTENDS IntegerDivision, Sequences, FiniteSets

CONSTANTS
  Signers,         \* wallets that may call init_justies_program
  Creators,        \* clients that want to list something
  Curators,        \* clients that add to the allowlists
  Deployments,     \* what init_justies_program may be called with, by whom
  Nobody,          \* none of its callers
  None,            \* no timestamp
  Treasuries,      \* addresses the authority may set as the fee treasury
  Currencies,      \* mints of currency tokens
  Collections,     \* mints of NFT collections
  Intentions,      \* what clients may want to list and add, outsiders to fund
  DefaultConfig,   \* what init_justies_program sets but for its arguments
  Updates,         \* inputs of update_configs: values of some of the fields
  MockTimestamps,  \* timestamps the authority may set in a test
  OverflowKinds,   \* bound: kinds of listing that may earn an excessive amount
  ExtendMinutes,   \* auction_extend_minutes = last_minutes_for_auction_extend
  MaxTime          \* bound: the clock stops here

VARIABLES
  clock,             \* the cluster's unix timestamp
  authority,         \* GlobalStates.authority, Nobody before the account is
  cfg,               \* GlobalStates: the configuration
  mock_timestamp,    \* GlobalStates.mock_timestamp, None if unset
  total,             \* GlobalStates.total_auctions and total_raffles
  listings,          \* by kind and id, the accounts of auctions and raffles
  total_allowed,     \* total_allowed_currency_tokens, .._nft_collections
  allowed,           \* keys with a TokenAllowlistStates account
  index,             \* the pages of each allowlist's index
  prefunded,         \* <<list, p>>: page p holds lamports but was not made
  treasury_accounts, \* <<t, m>>: t's token account for mint m exists
  wish,              \* what some of the creators want to list
  additions,         \* the lists and keys each curator wants to add
  donations,         \* the pages outsiders may send lamports to
  tx                 \* the transaction each client has under way

adminVars == <<authority, cfg, mock_timestamp>>
listVars  == <<total, listings>>
allowVars == <<total_allowed, allowed, index, prefunded, treasury_accounts>>
wants     == <<wish, additions, donations>>
vars == <<clock, adminVars, listVars, allowVars, wants, tx>>
-----------------------------------------------------------------------------
Kinds == {"auction", "raffle"}

Lists == {"token", "nft"}

Clients == Creators \cup Curators

ConfigRecord ==
  [market_fee_rate_bps: Nat, fee_treasury_address: Treasuries,
   min_auction_duration: Nat, max_auction_duration: Nat,
   min_raffle_duration: Nat, max_raffle_duration: Nat,
   max_raffled_nfts: Nat,
   auction_creation_enabled: BOOLEAN, raffle_creation_enabled: BOOLEAN,
   num_keys_per_index_page: Nat \ {0}, is_test_environment: BOOLEAN]

WishRecord ==
  [kind: Kinds, currency: Currencies, collection: Collections,
   duration: Nat, groups: Nat, receivers: Nat, num_raffled_nfts: Nat]

(* What the escrow of the revenue holds: what is due; more than the top     *)
(* bid, by a deposit; or so much that the product with a share overflows.   *)
Escrows == {"due", "more", "overflowing"}

ListingRecord ==
  [creator: Creators, terms: WishRecord, expired_timestamp: Nat,
   filled: BOOLEAN, escrow: Escrows, claimed: BOOLEAN]

Transactions ==
  [op: {"none"}]
    \cup [op: {"create"}, id: Nat]
    \cup [op: {"claim"}, id: Nat, treasury: Treasuries]
    \cup [op: {"add_token"}, key: Currencies, page: Nat, treasury: Treasuries]
    \cup [op: {"add_nft"}, key: Collections, page: Nat]

NoTransaction == [op |-> "none"]

ASSUME ClientsAssumption ==
  /\ Nobody \notin Signers
  /\ Creators \cap Curators = {}
  /\ \A i \in Intentions :
       /\ \E S \in SUBSET Creators : i.wish \in [S -> WishRecord]
       /\ i.additions \in [Curators -> SUBSET (({"token"} \X Currencies)
                                          \cup ({"nft"} \X Collections))]
       /\ i.donations \subseteq Lists \X Nat

ASSUME ConfigAssumption ==
  /\ Deployments \subseteq
       [authority: Signers, market_fee_rate_bps: Nat,
        fee_treasury_address: Treasuries, is_test_environment: BOOLEAN]
  /\ DefaultConfig \in ConfigRecord
  /\ \A u \in Updates :
       [f \in DOMAIN DefaultConfig |->
          IF f \in DOMAIN u THEN u[f] ELSE DefaultConfig[f]] \in ConfigRecord
  /\ MockTimestamps \subseteq Nat
  /\ None \notin Nat
  /\ ExtendMinutes \in Nat \ {0}
  /\ MaxTime \in Nat
-----------------------------------------------------------------------------
(* The space of an account is fixed when it is made; what is stored in it   *)
(* is longer or shorter, and a transaction that stores more aborts. Of the  *)
(* data only the parts that differ from what was reserved are counted.      *)

MAX_GROUP_CONFIGS     == 10
MAX_REVENUE_RECEIVERS == 6
MAX_RAFFLED_NFTS      == 15

(* Faulty: the type of a group takes space too. *)
KeyOnlySpace == 32

GroupConfigSpace == 4 + 32

RevenueShareSpace == 32 + 2

(* Both reserve four bytes for the status, which takes one. *)
Space(kind) ==
  MAX_GROUP_CONFIGS * GroupConfigSpace
    + MAX_REVENUE_RECEIVERS * RevenueShareSpace + 4
    + (IF kind = "auction" THEN 1 + 32 ELSE 2 * MAX_RAFFLED_NFTS)

(* An auction is filled by its top bidder, a raffle by its winners.         *)
DataSize(w, filled) ==
  w.groups * (1 + 32) + w.receivers * RevenueShareSpace + 1
    + (IF w.kind = "auction"
       THEN IF filled THEN 1 + 32 ELSE 1
       ELSE IF filled THEN 2 * w.num_raffled_nfts ELSE 0)

Fits(w, filled) == DataSize(w, filled) <= Space(w.kind)
-----------------------------------------------------------------------------
(* get_current_timestamp *)
Now ==
  IF cfg.is_test_environment /\ mock_timestamp # None
  THEN mock_timestamp ELSE clock

IsEnded(l) == Now > l.expired_timestamp

(* Faulty: the environment can be updated like everything else. *)
UpdatableAny == DOMAIN cfg

(* The fields of UpdateConfigsInput that update_configs copies. *)
Updatable ==
  (DOMAIN cfg \ {"is_test_environment", "num_keys_per_index_page"})
    \cup (IF cfg.is_test_environment THEN {"num_keys_per_index_page"} ELSE {})

Updated(input) ==
  [f \in DOMAIN cfg |->
     IF f \in DOMAIN input \cap Updatable THEN input[f] ELSE cfg[f]]

(* validate, after the update. *)
ValidConfig(c) ==
  /\ c.market_fee_rate_bps < BPS
  /\ c.min_auction_duration # 0
  /\ c.max_auction_duration # 0
  /\ c.min_auction_duration < c.max_auction_duration
  /\ c.min_raffle_duration # 0
  /\ c.max_raffle_duration # 0
  /\ c.min_raffle_duration < c.max_raffle_duration

(* Faulty: the page of the next key but one. *)
NextPageId(total_keys, page_size) == (total_keys + 1) \div page_size

PageId(total_keys, page_size) == total_keys \div page_size

CurrentPage(list) ==
  PageId(total_allowed[list], cfg.num_keys_per_index_page)

(* index_pubkey, which makes the page when it is new. *)
Indexed(pages, page, key) ==
  [p \in DOMAIN pages \cup {page} |->
     IF p # page THEN pages[p]
     ELSE IF page \in DOMAIN pages THEN Append(pages[page], key) ELSE <<key>>]

CreationEnabled(kind) ==
  IF kind = "auction"
  THEN cfg.auction_creation_enabled ELSE cfg.raffle_creation_enabled

(* The checks of init_auction and init_raffle, and the limit on receivers,  *)
(* which create_raffle does not have.                                       *)
ValidTerms(w) ==
  IF w.kind = "auction"
  THEN /\ w.duration >= cfg.min_auction_duration
       /\ w.duration <= cfg.max_auction_duration
       /\ w.receivers <= MAX_REVENUE_RECEIVERS
  ELSE /\ w.duration >= cfg.min_raffle_duration
       /\ w.duration <= cfg.max_raffle_duration
       /\ w.num_raffled_nfts # 0
       /\ w.num_raffled_nfts <= cfg.max_raffled_nfts

(* What create_auction and create_raffle ask of states that others change,  *)
(* but for the id. What only the creator decides is taken to be right: the  *)
(* shares, the supply of tickets, the NFTs to be deposited.                 *)
Acceptable(w) ==
  /\ authority # Nobody
  /\ CreationEnabled(w.kind)
  /\ w.currency \in allowed["token"]
  /\ w.collection \in allowed["nft"]
  /\ ValidTerms(w)
  /\ Fits(w, FALSE)

(* Faulty: the first listing is number one. *)
IsIdFromOne(kind, id) == id = total[kind] + 1

(* The id named is the next, and the account it addresses is new. *)
IsNextId(kind, id) == id = total[kind] /\ id \notin DOMAIN listings[kind]

(* Faulty: listings are not counted. *)
UncountedTotal(kind) == total[kind]

CountedTotal(kind) == total[kind] + 1

(* A listing of c of which P holds. *)
HasListing(c, P(_)) ==
  \E k \in Kinds : \E id \in DOMAIN listings[k] :
    listings[k][id].creator = c /\ P(listings[k][id])

Listed(c) == HasListing(c, LAMBDA l : TRUE)

(* Something has been earned: a top bid of an auction that ended, or the    *)
(* tickets of a raffle that was made.                                       *)
IsEarned(l) ==
  /\ l.filled
  /\ ~l.claimed
  /\ l.terms.kind = "auction" => IsEnded(l)

(* The escrow account holds the bid, and the distribution does not abort:   *)
(* the fee, unchecked when the program was initialised, leaves a remainder, *)
(* and the products fit.                                                    *)
Distributes(l) == l.escrow = "due" /\ cfg.market_fee_rate_bps <= BPS

(* What a bid, or the sale of the tickets, leaves in the escrow. *)
Earnings(kind) ==
  IF kind \in OverflowKinds THEN {"due", "overflowing"} ELSE {"due"}

(* Faulty: switching off the creation of listings stops claims as well. *)
MayClaimWhileEnabled(l, t) ==
  IsEarned(l) /\ Distributes(l) /\ CreationEnabled(l.terms.kind)
    /\ <<t, l.terms.currency>> \in treasury_accounts

(* The treasury's token account must exist: claims do not make it. Only an  *)
(* auction's claim compares the treasury named with the configured one.     *)
MayClaim(l, t) ==
  /\ IsEarned(l)
  /\ Distributes(l)
  /\ <<t, l.terms.currency>> \in treasury_accounts
  /\ l.terms.kind = "auction" => t = cfg.fee_treasury_address
-----------------------------------------------------------------------------
Init ==
  /\ clock = 0
  /\ authority = Nobody
  /\ cfg = DefaultConfig
  /\ mock_timestamp = None
  /\ total = [k \in Kinds |-> 0]
  /\ listings = [k \in Kinds |-> <<>>]
  /\ total_allowed = [l \in Lists |-> 0]
  /\ allowed = [l \in Lists |-> {}]
  /\ index = [l \in Lists |-> <<>>]
  /\ prefunded = {}
  /\ treasury_accounts = {}
  /\ \E i \in Intentions :
       wish = i.wish /\ additions = i.additions /\ donations = i.donations
  /\ tx = [c \in Clients |-> NoTransaction]

(* init makes the account: there is no second time. *)
InitJustiesProgram(d) ==
  /\ authority = Nobody
  /\ authority' = d.authority
  /\ cfg' = [cfg EXCEPT !.market_fee_rate_bps = d.market_fee_rate_bps,
                        !.fee_treasury_address = d.fee_treasury_address,
                        !.is_test_environment = d.is_test_environment]
  /\ UNCHANGED <<clock, mock_timestamp, listVars, allowVars, wants, tx>>

(* Signed by the authority, as the next. *)
UpdateConfigs(input) ==
  /\ authority # Nobody
  /\ ValidConfig(Updated(input))
  /\ cfg' = Updated(input)
  /\ UNCHANGED <<clock, authority, mock_timestamp, listVars, allowVars, wants,
                 tx>>

SetMockTimestamp(t) ==
  /\ authority # Nobody
  /\ cfg.is_test_environment
  /\ mock_timestamp' = t
  /\ UNCHANGED <<clock, authority, cfg, listVars, allowVars, wants, tx>>

Send(c, t) ==
  /\ authority # Nobody
  /\ tx[c] = NoTransaction
  /\ tx' = [tx EXCEPT ![c] = t]
  /\ UNCHANGED <<clock, adminVars, listVars, allowVars, wants>>

(* addCurrencyTokenToAllowlist and addNftCollectionToAllowlist of the      *)
(* client, with the page, and the treasury, of the states it fetched.      *)
SendCurrencyToken(c) ==
  \E m \in Currencies \ allowed["token"] :
    /\ <<"token", m>> \in additions[c]
    /\ Send(c, [op |-> "add_token", key |-> m, page |-> CurrentPage("token"),
                treasury |-> cfg.fee_treasury_address])

SendNftCollection(c) ==
  \E m \in Collections \ allowed["nft"] :
    /\ <<"nft", m>> \in additions[c]
    /\ Send(c, [op |-> "add_nft", key |-> m, page |-> CurrentPage("nft")])

(* createAuction and createRaffle of the client. *)
SendCreation(c) ==
  /\ c \in DOMAIN wish
  /\ ~Listed(c)
  /\ Send(c, [op |-> "create", id |-> total[wish[c].kind]])

(* claimAuctionRevenue and claimRaffleRevenue of the client. *)
SendClaim(c) ==
  /\ c \in DOMAIN wish
  /\ \E id \in DOMAIN listings[wish[c].kind] :
       /\ listings[wish[c].kind][id].creator = c
       /\ IsEarned(listings[wish[c].kind][id])
       /\ Send(c, [op |-> "claim", id |-> id,
                   treasury |-> cfg.fee_treasury_address])

Landed(c) == tx' = [tx EXCEPT ![c] = NoTransaction]

(* Both additions: the account of a key is new, and the page named is the   *)
(* page it goes to, which index_pubkey can make or load. The signer is not  *)
(* compared with the authority.                                             *)
Allow(list, key, page) ==
  /\ key \notin allowed[list]
  /\ page = CurrentPage(list)
  /\ <<list, page>> \notin prefunded
  /\ allowed' = [allowed EXCEPT ![list] = @ \cup {key}]
  /\ index' = [index EXCEPT ![list] = Indexed(@, page, key)]
  /\ total_allowed' = [total_allowed EXCEPT ![list] = @ + 1]
  /\ UNCHANGED prefunded

(* The treasury gets its token account, init_if_needed. *)
AddCurrencyToken(c) ==
  /\ tx[c].op = "add_token"
  /\ Allow("token", tx[c].key, tx[c].page)
  /\ tx[c].treasury = cfg.fee_treasury_address
  /\ treasury_accounts' =
       treasury_accounts \cup {<<tx[c].treasury, tx[c].key>>}
  /\ Landed(c)
  /\ UNCHANGED <<clock, adminVars, listVars, wants>>

AddNftCollection(c) ==
  /\ tx[c].op = "add_nft"
  /\ Allow("nft", tx[c].key, tx[c].page)
  /\ Landed(c)
  /\ UNCHANGED <<clock, adminVars, listVars, treasury_accounts, wants>>

Create(c) ==
  LET w == wish[c]
      new == [creator |-> c, terms |-> w,
              expired_timestamp |-> Now + w.duration,
              filled |-> FALSE, escrow |-> "due", claimed |-> FALSE]
  IN /\ tx[c].op = "create"
     /\ Acceptable(w)
     /\ IsNextId(w.kind, tx[c].id)
     /\ total' = [total EXCEPT ![w.kind] = CountedTotal(w.kind)]
     /\ listings' =
          [listings EXCEPT ![w.kind] =
             [i \in DOMAIN @ \cup {tx[c].id} |->
                IF i = tx[c].id THEN new ELSE @[i]]]
     /\ Landed(c)
     /\ UNCHANGED <<clock, adminVars, allowVars, wants>>

ClaimRevenue(c) ==
  LET kind == wish[c].kind
  IN /\ tx[c].op = "claim"
     /\ MayClaim(listings[kind][tx[c].id], tx[c].treasury)
     /\ listings' = [listings EXCEPT ![kind][tx[c].id].claimed = TRUE]
     /\ Landed(c)
     /\ UNCHANGED <<clock, adminVars, total, allowVars, wants>>

(* Refused by a check, or its blockhash expires before it lands.            *)
Drop(c) ==
  /\ tx[c] # NoTransaction
  /\ Landed(c)
  /\ UNCHANGED <<clock, adminVars, listVars, allowVars, wants>>

(* make_bid, of any bidder: writes top_bidder and may extend the auction.   *)
(* It makes the bidder's escrow equal to the bid, which only rises.         *)
MakeBid(id) ==
  LET l == listings["auction"][id]
      needs_to_extend == Now > l.expired_timestamp - ExtendMinutes
  IN /\ id \in DOMAIN listings["auction"]
     /\ ~IsEnded(l)
     /\ Fits(l.terms, TRUE)
     /\ \E e \in Earnings("auction") :
          /\ l.escrow = "overflowing" => e = l.escrow
          /\ listings' =
               [listings EXCEPT !["auction"][id].filled = TRUE,
                                !["auction"][id].escrow = e,
                                !["auction"][id].expired_timestamp =
                                  IF needs_to_extend THEN Now + ExtendMinutes
                                  ELSE @]
     /\ UNCHANGED <<clock, adminVars, total, allowVars, wants, tx>>

(* make_raffle, by the authority, once there are winners enough: writes     *)
(* winner_ids.                                                              *)
MakeRaffle(id) ==
  LET l == listings["raffle"][id]
  IN /\ id \in DOMAIN listings["raffle"]
     /\ IsEnded(l)
     /\ ~l.filled
     /\ Fits(l.terms, TRUE)
     /\ \E e \in Earnings("raffle") :
          listings' = [listings EXCEPT !["raffle"][id].filled = TRUE,
                                       !["raffle"][id].escrow = e]
     /\ UNCHANGED <<clock, adminVars, total, allowVars, wants, tx>>

(* Anybody may send tokens to the top bidder's escrow. The claim of a       *)
(* raffle distributes whatever its escrow holds.                            *)
Deposit(id) ==
  LET l == listings["auction"][id]
  IN /\ id \in DOMAIN listings["auction"]
     /\ l.filled /\ ~l.claimed
     /\ l.escrow = "due"
     /\ listings' = [listings EXCEPT !["auction"][id].escrow = "more"]
     /\ UNCHANGED <<clock, adminVars, total, allowVars, wants, tx>>

(* Anybody may send lamports to the address of a page. It makes a           *)
(* difference to one that was not made.                                     *)
Prefund(list, p) ==
  /\ <<list, p>> \in donations
  /\ p \notin DOMAIN index[list]
  /\ prefunded' = prefunded \cup {<<list, p>>}
  /\ UNCHANGED <<clock, adminVars, listVars, total_allowed, allowed, index,
                 treasury_accounts, wants, tx>>

(* Anybody may make an associated token account, outside of the program.    *)
CreateTreasuryAccount(t, m) ==
  /\ <<t, m>> \notin treasury_accounts
  /\ treasury_accounts' = treasury_accounts \cup {<<t, m>>}
  /\ UNCHANGED <<clock, adminVars, listVars, total_allowed, allowed, index,
                 prefunded, wants, tx>>

Tick ==
  /\ clock < MaxTime
  /\ clock' = clock + 1
  /\ UNCHANGED <<adminVars, listVars, allowVars, wants, tx>>

Next ==
  \/ \E d \in Deployments : InitJustiesProgram(d)
  \/ \E input \in Updates : UpdateConfigs(input)
  \/ \E t \in MockTimestamps \cup {None} : SetMockTimestamp(t)
  \/ \E c \in Curators : SendCurrencyToken(c)
  \/ \E c \in Curators : SendNftCollection(c)
  \/ \E c \in Creators : SendCreation(c)
  \/ \E c \in Creators : SendClaim(c)
  \/ \E c \in Curators : AddCurrencyToken(c)
  \/ \E c \in Curators : AddNftCollection(c)
  \/ \E c \in Creators : Create(c)
  \/ \E c \in Creators : ClaimRevenue(c)
  \/ \E c \in Clients : Drop(c)
  \/ \E id \in DOMAIN listings["auction"] : MakeBid(id)
  \/ \E id \in DOMAIN listings["raffle"] : MakeRaffle(id)
  \/ \E id \in DOMAIN listings["auction"] : Deposit(id)
  \/ \E d \in donations : Prefund(d[1], d[2])
  \/ \E t \in Treasuries, m \in Currencies : CreateTreasuryAccount(t, m)
  \/ Tick

Spec == Init /\ [][Next]_vars

(* A creator's client tries again until the transaction lands; one that     *)
(* could land again and again does (between two attempts another listing    *)
(* may take the id, the treasury may change). The treasury's accounts are   *)
(* made by whoever wants the claim to go through. Nobody else is assumed to *)
(* do anything.                                                             *)
RetryFairness ==
  /\ \A c \in Creators :
       /\ WF_vars(SendCreation(c))
       /\ SF_vars(Create(c))
       /\ WF_vars(SendClaim(c))
       /\ SF_vars(ClaimRevenue(c))
       /\ WF_vars(Drop(c))
  /\ \A t \in Treasuries, m \in Currencies :
       WF_vars(CreateTreasuryAccount(t, m))

RetrySpec == Spec /\ RetryFairness
-----------------------------------------------------------------------------
(* The sets each variable ranges over. Ids are dense: the accounts of a     *)
(* kind of listing are those below its total.                               *)
TypeOK ==
  /\ clock \in Nat
  /\ authority \in Signers \cup {Nobody}
  /\ cfg \in ConfigRecord
  /\ mock_timestamp \in Nat \cup {None}
  /\ total \in [Kinds -> Nat]
  /\ DOMAIN listings = Kinds
  /\ \A k \in Kinds :
       listings[k] \in [0..(total[k] - 1) -> ListingRecord]
  /\ total_allowed \in [Lists -> Nat]
  /\ allowed["token"] \subseteq Currencies
  /\ allowed["nft"] \subseteq Collections
  /\ DOMAIN index = Lists
  /\ prefunded \subseteq Lists \X Nat
  /\ treasury_accounts \subseteq Treasuries \X Currencies
  /\ \E i \in Intentions :
       wish = i.wish /\ additions = i.additions /\ donations = i.donations
  /\ tx \in [Clients -> Transactions]

(* In production the client's arithmetic finds every allowed key, and       *)
(* nothing else, in the pages, however additions and updates raced.         *)
AllowlistsIterable ==
  ~cfg.is_test_environment =>
    \A list \in Lists :
      LET size == cfg.num_keys_per_index_page
          IsRead(k) == /\ k \div size \in DOMAIN index[list]
                       /\ k % size < Len(index[list][k \div size])
          Read(k) == index[list][k \div size][(k % size) + 1]
          places == 0..(total_allowed[list] - 1)
      IN /\ \A k \in places : IsRead(k)
         /\ {Read(k) : k \in places} = allowed[list]
         /\ Cardinality(allowed[list]) = total_allowed[list]

(* Within the limits the types document, twice the default number of        *)
(* winners included, whoever takes part in a listing finds room in its      *)
(* account, although nothing checks the number of groups.                   *)
WithinLimitsFit ==
  \A kind \in Kinds : \A id \in DOMAIN listings[kind] :
    LET w == listings[kind][id].terms
    IN /\ w.groups <= MAX_GROUP_CONFIGS
       /\ w.receivers <= MAX_REVENUE_RECEIVERS
       /\ w.num_raffled_nfts <= 2 * MAX_RAFFLED_NFTS
       => Fits(w, TRUE)

(* In production a listing that has ended stays ended, whatever is updated: *)
(* no bid revives it and the mock clock of the tests cannot.                *)
EndedStaysEnded ==
  [][~cfg.is_test_environment =>
       \A kind \in Kinds : \A id \in DOMAIN listings[kind] :
         IsEnded(listings[kind][id]) => IsEnded(listings[kind][id])']_vars

(* Creators race for the next id with ids they read before; each who tries  *)
(* again and stays acceptable gets a listing.                               *)
CreatorsList ==
  \A c \in Creators :
    <>[](c \in DOMAIN wish /\ Acceptable(wish[c])) => <>Listed(c)

(* What a listing has earned is paid out to its creator in production,      *)
(* however often the authority replaces the treasury, whose account for the *)
(* currency was made for the first treasury only, and switches creation;    *)
(* unless the escrow does not hold the bid any more, the fee rate is not    *)
(* valid, or the products overflow.                                         *)
RevenueIsCollected ==
  \A c \in Creators :
    ~cfg.is_test_environment /\ HasListing(c, IsEarned)
    ~> HasListing(c, LAMBDA l : l.claimed \/ ~Distributes(l))
-----------------------------------------------------------------------------
(* Statements of the repository's documents that the code does not keep.    *)

(* README.md:31: users can make bids to an ongoing auction as long as all   *)
(* requirements on the bid are met.                                         *)
OngoingAuctionsTakeBids ==
  \A id \in DOMAIN listings["auction"] :
    Fits(listings["auction"][id].terms, TRUE)
=============================================================================
