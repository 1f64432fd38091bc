# Verification of the justies program

`justies` is a Solana program (Anchor, Rust) that runs English auctions of NFTs
and ticket raffles of them. This directory holds its formal model: TLA+ modules
of the program's components, TLC configurations that check them on small
instances, and proofs of the main properties, for every value of the constants,
that TLAPS checks. Paths below are under `src/programs/justies/src/` unless they
start with `src/`.

## 1. Inventory

Every instruction of the program is a transaction: it has its whole effect, or,
when an account constraint, a check or checked arithmetic (`src/Cargo.toml:6`)
aborts it, none. Transactions that write the same account are serialised by the
cluster in an order nobody controls. So inside the program there is no
concurrency; what is hard is the order of transactions of different signers,
what a client read before its transaction runs, parties that stop acting,
integer arithmetic, and money that no later transaction can move. And not every
transaction is the program's: a token account takes a transfer from anybody, and
so does any address take lamports, which the program's account constraints see.

| Component | State it keeps | Operations | Interacts with |
|---|---|---|---|
| Auction (`auction/`, `common/auction_strategy.rs`, `common/bid_strategy.rs`) | `Auction` (end, status, top bid, top bidder, number of bids), one `AuctionBid` and one escrow token account per bidder, the lot escrow | `create_auction`, `make_bid`, `cancel_auction_bid`, `cancel_auction`, `claim_lot_nft`, `claim_auction_revenue` | reads the global states; indexes bids; distributes revenue |
| Raffle (`raffle/`, `common/raffle_strategy.rs`) | `Raffle` (terms, tickets sold, winners, claim mask), one `RaffleTicketPosition` per buyer, the shared `TicketPositionStats`, rewards and revenue escrows | `create_raffle`, `buy_raffle_tickets`, `cancel_raffle`, `make_raffle`, `set_raffle_winners`, `claim_raffle_reward`, `claim_raffle_revenue`, `claim_remaining_raffle_rewards` | reads the global states; draws winners; indexes positions; distributes revenue |
| Winner drawing (`common/random_utils.rs`) | none beyond a call | `create_alias_table`, `sample`, `pick_winners` | called by `make_raffle` |
| Revenue distribution (`common/revenue_distribution_strategy.rs`) | none beyond a claim | validation of shares and accounts, fee, shares, close of the escrow | called by both revenue claims |
| Pubkey indexing (`common/pubkey_indexing.rs`, `common/types.rs`) | pages of keys | `index_pubkey` | called by `make_bid`, `buy_raffle_tickets` and the allowlists; read by clients |
| Admin and configuration (`admin/`, `common/configs_strategy.rs`) | `GlobalStates`: rates, limits, switches, counters of listings, mock clock | `init_justies_program`, `update_configs`, `set_mock_timestamp` | read by every instruction |
| Allowlists (`admin/add_*`) | one account per collection or currency, and their index | additions only | read when a listing is created |
| Eligibility check (`common/eligibility_check_strategy.rs`) | none | accepts or refuses a signer | guards `make_bid` and `buy_raffle_tickets` |
| CPI helpers (`common/cpi_utils.rs`, `common/utils.rs`) | none | token transfer, close, account creation and resize, the clock | used by all |
| TypeScript client (`src/libraries/`) | what it fetched | reads accounts, assembles transactions, iterates index pages | races other clients |

What makes each correct, and what is hard about it:

* **Auction.** Nobody but the winner pays, and the winner pays the top bid once;
  an escrow always holds what the bid account says; the cached leader is the
  highest bidder and still funded; the lot goes to the winner or back; the end
  is final. Hard: cancel and bid again, claims in any order with the status
  written by whichever comes first, configuration updates in between, parties
  that never act again, transfers to escrows whose exact balance is compared,
  the rounding of the minimum raise, overflow.
* **Raffle.** The stats the drawing weighs agree with the positions it pays;
  the revenue escrow holds the price of the tickets; winners are different
  holders of tickets; each gets one reward, and the escrow keeps those of
  winners who have not claimed. Hard: interleaved first and further purchases,
  claims in any order from one escrow that closes with the last, the test
  environment's repeated draws, the limits under which a draw is possible.
* **Winner drawing.** The odds are the tickets, and the loop can end. Hard:
  integer thresholds, two stacks, 16 bits.
* **Revenue distribution.** The escrow is empty when it is closed (a close
  otherwise aborts, and the money is locked in), and no share is rounded in
  anybody's disfavour beyond the token it is rounded down by.
* **Indexing.** Keys in pages without gaps or doubles while clients race with
  stale counts and readers iterate growing pages, and somebody may have sent
  lamports to the address of a page before it is made.
* **Global states, allowlists, several listings.** Ids without gaps or doubles
  while creators race with stale totals; allowed keys that clients can iterate;
  revenue that can still be claimed after the treasury was replaced; accounts
  whose space, fixed when they are made, takes what is written later; ends that
  no update revives.
* **Eligibility.** Who passes is a member of a group of the listing, and every
  member can pass. Hard: accounts handed over by the signer, which may be of
  the wrong kind or somebody else's.

`PROJECT.json` lists every hazard at its line, with the properties about it.

## 2. Modules

| Module | What it is |
|---|---|
| `IntegerDivision` | `amount * bps / 10000` in checked arithmetic |
| `ArithmeticProof` | the lemmas about it, about the page and place of a key, and about sums over finite sets |
| `AuctionPromise` | abstract: a price that never falls, one funded leader, one sale or none, everybody else refunded |
| `Auction`, `AuctionProof` | the auction: one action per instruction, the clock, configuration updates; it implements `AuctionPromise`; its theorems |
| `RevenueDistribution`, `RevenueDistributionProof` | one claim, step by step, with every abort; its theorems |
| `RafflePromise` | abstract: tickets at one price, one drawing of as many different holders as rewards, rewards and revenue taken once |
| `Raffle`, `RaffleProof` | the raffle: one action per instruction; it implements `RafflePromise`; its theorems |
| `DrawPromise` | abstract: some set of as many participants as rewards is chosen, once |
| `WinnerDrawing`, `WinnerDrawingProof` | the alias table, loop by loop, and the sampling; it implements `DrawPromise`; its theorems |
| `PubkeyIndex`, `PubkeyIndexProof` | `index_pubkey`, racing clients, an iterating reader; its theorems |
| `Marketplace`, `MarketplaceProof` | several listings over one `GlobalStates`: ids, allowlists, updates, mock clock, treasury, account space; its theorems |
| `Eligibility`, `EligibilityProof` | the eligibility check as operators; its theorems |
| `MC*` | instances for TLC |

How they fit:

* `Raffle!MakeRaffle` may draw any list of `Draws` when `CanDraw` holds, and
  `WinnerDrawing` justifies both: what it returns is what `DrawPromise` says,
  and it panics just where `CanDraw` is false (`PanicsOnlyPastWidth`).
* `Auction` and `Raffle` lump the receivers of revenue together and have the
  abort conditions of a distribution as `CanDistribute`; `RevenueDistribution`
  shows that, given well-formed shares, nothing else aborts it and that the
  escrow ends empty.
* `make_bid` indexes the bids it counts: `Auction!CountedBids` and
  `PubkeyIndex!Land` are the two sides of it.
* `Auction!KeepsPromise` hides escrows, statuses, extensions and slippage and
  shows that what is left is `AuctionPromise`: a stake is what the bid escrow
  holds, the phase is read off status and clock, the sale off the lot and what
  was paid.
* `Raffle!KeepsPromise` does the same with `RafflePromise`: winners are the users
  whose positions were drawn, those served the users who hold a reward. It
  speaks of production; the test environment, which draws again and sets winners
  by hand, is mapped to a raffle that is never listed.
* `Marketplace` has what listings share. A listing in it keeps only what the
  shared state touches: its end, what fills its account, whether its revenue
  left. What bids and tickets do inside is `Auction` and `Raffle`.
* `Eligibility!EligibleUsers` is the constant set `Eligible` of `Auction` and
  `Raffle`; `MCAuction` computes its set with it, from the groups of a listing
  and the accounts users own.

State and actions follow the source's names: a variable is an account's field
(`top_bid` is `Auction.top_bid`, `escrow[u]` the balance of `u`'s bid escrow),
an action is an instruction handler with the constraints of its `Accounts`
struct, and a set such as `open` says which token accounts exist. Operators
introduced by "Faulty:" are wrong variants of the definition that follows them;
no specification uses them. Putting one in the definition's place makes a named
property fail, which shows that the property depends on that piece of code.

### Abstractions

* `Auction` and `Raffle` are one listing each: what listings share is in
  `Marketplace`, and their money never meets.
* Only the program takes tokens out of escrows, which its own addresses control.
  Anybody may put tokens in: `Deposit` and `DepositLot` of `Auction`, `Deposit`
  and `DepositReward` of `Raffle`, `Deposit` of `Marketplace`. The history
  variables `deposits`, `surplus`, `revenue_deposits` and `reward_deposits` say
  how much, so that properties can tell the party's own tokens from them. A
  user's wallet changes by the program only; income from elsewhere would only
  enable more bids and purchases.
* Likewise `Prefund` of `PubkeyIndex` and `Marketplace` sends lamports to the
  address of an index page. That `buy_raffle_tickets` and `make_bid` meet such a
  page is shown in `PubkeyIndex`, not again in `Raffle` and `Auction`.
* `SupplyAssumption` of `Auction`: nobody can bid above `i64::MAX`, half of what a
  u64 supply could be. `MinEligibleBid` follows the code beyond it, where `top_bid
  as i64` wraps; the proofs about prices need the assumption.
* `CanDraw` has every limit of a drawing that is in the program: the loop, the 16
  bits, the space for the winners. The cluster's limits on the compute units and
  the heap of a transaction are not in it.
* `Marketplace!Acceptable` is what a creation asks of states that others change;
  what only the creator decides (shares, ticket supply, the NFTs deposited) is
  taken to be right. It is the condition of `CreatorsList`, so leaving that out
  claims nothing more about others' interference.
* A listing of `Marketplace` has in `escrow` whether the balance is what is due, so
  that a claim meets the same refusals as in `Auction` (`Distributes`).
* Account rents, bumps, error codes, `latest_change_timestamp` and
  `last_purchase_timestamp`, which nothing reads, are left out.
* The clock of `Auction` and `Raffle` is monotone, as in production. The mock
  clock of the test environment, which can go back, is in `Marketplace`.
* In `Marketplace` what clients may want to list and to add (`Intentions`), how
  the program is deployed and what the authority may set are constants. An
  account's space counts only the parts whose reserved size differs from what is
  stored. Anybody may add to the allowlists: the handlers do not compare the
  signer with the authority. Currencies and collections are opaque: that a mint
  is a collection NFT with metadata is taken as given.
* In `Eligibility` an unverified collection counts as none, and an account of
  the wrong kind as a missing one: both abort alike.
* `SplitShare` stands for the largest share the distribution multiplies out,
  `WinnerCapacity` for the winners that fit in the account's fixed space,
  `MaskBits` for the width of `claim_mask`.
* `RevenueDistribution` and `WinnerDrawing` have the steps of one call as
  actions, to check the loops; the call is atomic in `Raffle` and `Auction`.

## 3. What TLC checks

| Run | Question |
|---|---|
| `auction` | Do custody, payments, the leader, the lot and the end survive every interleaving, outsiders' transfers included; who is refused what after one; are bidders and creator settled once the auction has ended, and is every step one of the abstract auction? |
| `auction_transfer` | *violated:* "the net transfer amount has to be positive" |
| `revenue` | Is every amount distributed to the last token, for every split? |
| `raffle` | Do tickets, positions, revenue, winners and rewards agree, in production and in the test environment, are winners and creator served, what does a transfer to an escrow stop, and is every step in production one of the abstract raffle? |
| `raffle_fee` | *violated:* the fee of a raffle goes to the Justies treasury |
| `raffle_few` | *violated:* remaining rewards are claimable with few participants |
| `raffle_overflow` | *violated:* revenue is claimable, when the drawing does not fit 16 bits |
| `drawing` | Is the alias table exact, and does the drawing keep its promise? |
| `index` | Are all bids indexed once and iterable while clients race, and what does a prefunded page stop? |
| `index_race` | *violated:* indexing introduces no race for making bids |
| `market` | Are ids dense, allowlists iterable, ends final, accounts large enough, and are creators who try again listed and paid, whatever the authority updates meanwhile, but for what makes the distribution abort? |
| `market_space` | *violated:* an ongoing auction takes bids that meet all requirements |

The passing runs reach 148,326 (`auction`), 18,174 (`revenue`), 348,424
(`raffle`), 4,637 (`drawing`), 376,290 (`index`) and 105,226 (`market`) distinct
states.

**Bounds.** `auction`: two bidders and a creator who may bid as well (and is
refused), six tokens (four of the second bidder), `MaxTime` = 7 minutes, three
configurations of which one is refused, auctions of up to three minutes extended
by later bids, one token transferred to each escrow by outsiders (`Gifts`,
`MaxDeposits`) and one spare unit of the lot's mint (`SpareLots`). Two bidders
are enough for each to lose and regain the lead around the other's refund and
re-bid; amounts up to six at a 50% raise include raises that round to nothing
and raises that do not. One token is enough for a balance to differ, before a bid
that absorbs it and after; larger transfers only repeat it.
Listings that would outlive the bounded clock are not made, but bids may extend
one beyond it: then the auction never ends in the model, which stands for a
leader who extends it for ever. `raffle`: three buyers, up to three tickets, one
or two rewards, so there are fewer, as many and more participants than rewards,
and claims of two winners in both orders; `MaxTime` = 3 leaves time after the
end; one token and one unit of the NFT from outsiders; the fee may be paid to the
treasury or to an account of the creator (`FeeOwners`).
`revenue`: amounts 0 to 14, 101 and 1003, five fee rates from 0 to 120%,
all splits of up to three receivers over seven shares including 0, and some of
four. `drawing`: all weightings of up to three participants with one to five tickets, many of four, and
some with up to 23 tickets; `I16Max` = 11 so that the width is exceeded in every way the
code can exceed it (a product, a total above it, a total that becomes negative).
`index`: three bidders and pages of two keys, so the page changes while clients
hold either page, or a page size of one in the test environment; lamports sent
to one page (`MaxPrefunded`), the one that is next or a later one.
`market`: two creators after the same id, or one with a raffle as full as the
limits allow (ten groups, six receivers, thirty winners after an update), or two
curators filling an allowlist of three keys in pages of two, whose second page
an outsider may have sent lamports to (`donations`); two treasuries the
authority alternates between; a deployment in production whose fee rate, 100.01%,
has to be updated before a claim can land; raffles whose revenue may be too large
to multiply (`OverflowKinds`); a clock of four timestamps and a mock clock that
goes back to the first. Each intention is one instance: the shared state is
disputed by two clients at most in each, and a third would only wait longer.
`market_space`: 10, 13 or 14 groups, on both sides of what creation accepts.

Widths are scaled down where an overflow is the question (`I16Max` = 3 in
`raffle_overflow`, 11 in `drawing`) and large elsewhere: what fails is a comparison with the width, the same at any scale.

Two invariants are stated and proved but not in a run: the type invariant of
`WinnerDrawing` (`OddsAreTickets`, `StacksPartition` and `PanicsOnlyPastWidth` say
more of the same state), and `WinnersHoldTickets` of `Raffle`, which the step to
`RafflePromise!Draw` checks.

**Fairness.** `Auction!FairFor(u)`: the clock advances, the creator keeps
submitting `claim_auction_revenue` and bidder `u` the refund or claim that
concerns `u`, until they land; weak fairness, because a transaction that stays
enabled and is resubmitted is eventually included by the cluster. Nobody else,
the authority included, is assumed to do anything. The clock passing does not mean
that an auction ends, since its leader can extend it again and again: `AnnSettles`
and `CreatorIsPaid` promise what happens once it has ended, unless an outsider's
transfer, which they name, is in the way, or the fee does not fit the bid.
`Raffle!FairFor(u)` adds the
authority's `make_raffle`, which only the authority can sign: the code has no
other way to finish a raffle in which tickets were sold, and without that
assumption nothing is promised. `PubkeyIndex!RetrySpec`: a client goes on after
what it fetched, a transaction that was sent lands, is refused or expires, and one that could
land again and again does land (strong fairness, since between two attempts the
page can move away; it can do so only as often as there are new bidders). A
prefunded page, which `FirstBidsLand` names, ends it for all who have not bid yet.
`Marketplace!RetryFairness`: creators send their creations and claims again
until they land, and one that could land again and again does; the fairness is
strong because between two attempts another listing may take the id or the
authority may replace the treasury. Nothing makes a balance right again that a
transfer made differ from the bid, nor an invalid fee rate valid: `RevenueIsCollected`
names both. Somebody makes the token account of a new
treasury, which a claim needs and does not make; anybody may, and the creator has
the interest to. Curators and the authority are assumed to do nothing.

**Deadlock** is checked in every run but `drawing`, whose call really ends: in
`done`, or `panicked`.

## 4. What TLAPS proves

Each holds for every number of users, all amounts, configurations, durations
and widths, under the named assumptions on constants (finite sets, naturals, no
confusion of users with escrows), which TLC evaluates on every run.

* **Auction.** `AuctionProof!IInv` joins the checked invariants, none of which is
  inductive alone (the refund's guard needs the custody of bids, payments need
  the leader's bid to be the top bid, the cancellation's guard needs the count of
  bidders), and adds `BiddersAreBuyers`: the creator has no bid, and an auction
  that does not exist has no leader, price or end, so that `create_auction`,
  which resets them, resets nothing. One lemma per action shows that it is preserved; the
  theorems are custody (`EscrowsAreBacked`: bid plus what outsiders transferred
  since), payments (`MoneyIsSafe`), the leader
  (`LeaderIsFunded`), the lot (`LotIsSafe`), the count of bidders
  (`BiddersAreCounted`), that a due claim is refused after an outsider's transfer or
  for the fee, and for nothing else (`ClaimsStayOpen`), that after the end such a
  transfer is final (`DepositsStayLocked`), that the subtraction in
  `get_transfer_amount`, of the escrow's real balance, underflows by such transfers
  only (`TransferShortOfDepositsOnly`), the action properties (`EndStaysFinal`,
  `StatusStaysFinal`, `LeadTakenOnlyByRaise`, `SlippageIsBounded`,
  `ExtensionsExtend`), and the refinement (`AuctionKeepsPromise`): initial states
  map to initial states of `AuctionPromise`, each action to the abstract one or
  a stutter, using the invariant for the stakes of those who do not lead. That
  prices do not fall (`LeaderIsFunded`, `LeadTakenOnlyByRaise` and the refinement)
  rests on `SupplyAssumption`: the wrapped cast of a top bid above `i64::MAX` would
  ask for less.
* **Raffle.** `RaffleProof!IInv` adds the shape of a sale in each status (a raffle
  in progress has all its rewards in escrow, an undrawn one an empty mask);
  theorems: `PositionsMatch`, `CounterIsTheSum` (`ticket_sold` is the sum of the
  stats and of the positions: a first purchase appends to one and sets the other,
  a further one changes one summand of each), `SaleAccounts`, `WinnersAreHolders`,
  `RewardsAreReserved`, `NoSecondReward`, `CancellationReturnsAll`,
  `FinishedMeansDrawn`, `ClaimsStayOpen` (with the refusals it names: currency in the
  revenue escrow of a raffle without buyers, the width of the mask, the fee),
  `DepositKeepsRewards` (that first refusal is final after the end),
  `DrawingIsFinal`, `SaleEnds`, and the
  refinement (`RaffleKeepsPromise`), for which `WinnersAreCounted` shows by a
  bijection that different ids are as many different users. The lemma
  `NothingRemains` shows that in production `claim_remaining_raffle_rewards` is
  never enabled.
* **Revenue distribution.** The loop invariant is that the remaining money times
  10000 covers the total times the remaining share; it gives that no subtraction
  underflows, that the receiver of the remainder is not shortchanged and gets at
  most one token per receiver beyond its rounded share (`SharesArePaid`), and that
  the escrow is empty for the close. The share paid so far is the sum of the first
  shares of the list, by `SumOfFirst` never above the whole.
* **Winner drawing.** A first layer (`IInv`): the stacks partition the columns, no
  threshold leaves 16 bits, some random numbers make any given participant win
  (so the loop can end), and the drawing implements `DrawPromise`. A second layer
  (`JInv`) keeps the mass. What the columns still stacked hold above or below the
  total (`Surplus`) sums to 0, because at the start it is n times the tickets less
  n times the total, and a pairing moves as much as it takes. A participant has
  what its own column holds and what the columns it filled up lack (`Given`), n
  times its tickets in all. When one stack is empty, the surpluses left have one
  sign and sum to 0, so each is 0 (`LeftoversFull`): setting the leftovers to the
  total changes nothing, and the odds are exact (`OddsAreExact`). The same layer
  keeps that the total is the sum of the tickets and that the columns filed did
  not overflow. If each n times w fits 16 bits, so does the total, hence no step
  panics (`FittingGoesOn`); and who returns has filed all columns
  (`PanicIsPastWidth`).
* **Pubkey indexing.** The invariant joins the count of keys (`CountInv`), the
  pages in the production environment (`PagesInv`: every place below the count is
  filled, in its page, and none above) and what the reader holds (`ReaderInv`).
  The count alone does not place a key, and the reader's claim needs that pages
  only grow at the end, hence the three together. `PagesAreFull` and
  `BidsAreIterable` hold for every page size and number of bidders, with prefunded
  pages too. `PrefundedPageStops`: once the next page is prefunded nothing is indexed
  any more, and it stays the next page.
* **Marketplace.** `TypeCorrect` is where ids are dense. It needs that a creation
  under way belongs to a client with a wish (`SendersWish`). `LimitsFit` is
  arithmetic over all terms; `EndsStay` compares the end before and after every
  action; `AllowlistsRead` is proved with `Paged`, which says of a list of any
  length where each key is, and `Fresh`: nothing exists before initialisation,
  which alone decides the environment and the page size.
* **Eligibility.** Who passes is a member (`OnlyMembersPass`), and the users who
  can pass are exactly the members of the groups (`EligibleAreMembers`), for all
  lists of groups and all accounts.
* **Arithmetic** (`ArithmeticProof`). A portion at up to 100% never exceeds the amount; it is
  positive exactly from 10000 / rate on, which is the arithmetic behind the
  finding of the raise that rounds to nothing. Page and offset of a key grow
  together: the place after the last one of a page is the first of the next.
  Sums are those of the library (`SumFunctionOnSet`), defined by a recursion that
  takes out a chosen element after the other. Induction schemes with an operator
  parameter cannot be used, so `FiniteSubsetInduction` states one about a *set* of
  subsets, from the fact that proper inclusion is well-founded below a finite set.
  With it, the recursion has a solution, any element can be taken out first
  (`SumTheory`), and one changed, added or renamed summand changes the sum as it
  should (`SumChange`, `SumAdd`, `SumRenamed`).

Some properties are proved and not listed in a run, because a listed one or the
theorem says more: `StatusIsHonest`, `BidsCountedOnce`, `TransferShortByDeposits`,
`StatusIsFinal`, `LeadTakenByRaise`, `SlippageRespected`, `NeverShortened` of
`Auction`; `WinnersHoldTickets`, `CancelReturnsAll`, `StatusIsHonest`,
`WinnersAreFinal`, `SaleEndsWithTheClock` of `Raffle`; `TypeOK`, `AnotherCanWin` of
`WinnerDrawing`.

Each safety property that a passing run checks is the statement of a theorem, in
every case for all constants. Only model-checked are the liveness properties
(`AnnSettles`, `AnnIsServed`, `CreatorIsPaid` of auction and raffle,
`FirstBidsLand`, `CreatorsList`, `RevenueIsCollected`): they need `ENABLED` and
fairness, which the provers do not handle. What the auction and the raffle
contribute to them, that no due claim is refused but for a named reason, is proved
(`ClaimsStayOpen`).

## 5. Findings

Where the code does not do what its documents say, a run shows it:

1. A minimum raise below one token is nothing: the lead can be taken at the same
   price, and a leader repeats a bid with a transfer of zero (`auction_transfer`).
2. The market fee of a raffle goes to whatever account the creator who claims names
   as the treasury: no constraint compares it with the global states, as
   `claim_auction_revenue` does (`raffle_fee`).
3. A raffle with fewer participants than rewards can never be drawn
   (`raffle_few`); the instruction documented for that case is out of reach.
4. Participants times tickets beyond 16 bits make a draw impossible although the
   supply is within the configured limits (`raffle_overflow`).
5. Every bid, a raise too, fails when its client named the page before the last
   one was filled (`index_race`).
6. The number of eligible groups is not limited when a listing is created: with 13
   groups and five receivers an auction is listed in which no bid fits
   (`market_space`); the creator can only cancel it.

Observed without a run:

* `claim_auction_revenue.rs:13` and the allowlists (`add_*_to_allowlist.rs:14`)
  say "Only callable by" the creator or the authority, but the handlers do not
  compare the signer; what an auction's claim pays is the same whoever sends it;
* a transfer of tokens to an escrow stops what compares its exact balance, as
  `DepositsLockEscrows`, `ClaimsNeverBlocked` and `DepositLocksRewards` state and the
  proofs confirm: `cancel_auction_bid.rs:53` and `claim_auction_revenue.rs:58` (one
  token; the bidder's next bid absorbs it, but after the end there is none),
  `claim_lot_nft.rs:48` and the close in `cancel_auction` (a second unit of the
  lot's mint), `bid_strategy.rs:124` (more than the raise), `cancel_raffle.rs:92`.
  The tokens and what the instruction would have paid stay in the escrow;
* lamports sent to the address of the next index page stop every first bid, first
  purchase or addition on it (`pubkey_indexing.rs:27-40` with
  `cpi_utils.rs:101-103`, `PrefundedPageStops`);
* with an extension shorter than the final window, which `update_configs` accepts
  (`configs_strategy.rs:58-62`), a bid in the window brings the end nearer, although
  `admin/state.rs:28-32` calls it an extension. The default minutes are equal, and
  then it does not (`ExtensionsExtend`);
* a leader who repeats a bid for nothing (finding 1) in each final window keeps the
  auction from ending, for ever;
* above `i64::MAX` the cast of the top bid (`auction_strategy.rs:108`) wraps and the
  minimum bid falls below it; below that, from `i64::MAX / rate` on, the product
  aborts every further bid;
* a fee or share product beyond 64 bits aborts the distribution
  (`CanDistribute`), at amounts far beyond the supply of usual tokens;
* `max_raffled_nfts` (15 by default) may be configured beyond the 64 bits of
  `claim_mask`: a winner after the 64th cannot claim (the guard `k <= MaskBits` of
  `MayClaimReward`). It may also exceed the space of the account: with all groups
  and receivers used, from the 32nd winner on. A seventh receiver, which
  `create_raffle` does not refuse, makes a full raffle undrawable at the default
  maximum;
* a new treasury has no token account for the currencies that were allowed before
  it: claims wait until somebody makes one (`RevenueIsCollected` needs it);
* `auction/state.rs:21` says ten receivers where the code allows
  `MAX_REVENUE_RECEIVERS`.

## 6. Not modelled, and what could follow

Not modelled: byte layouts and rents; the lamports `resize_account` moves; the
hash that seeds the generator, and the generator; the dispatch in `lib.rs` and
the list of error codes, which keep no state; the part of the client that
assembles accounts for single transactions; tests and deployment scripts.

What could follow:

1. The raffle's tickets indexed by `PubkeyIndex` in one composition: the two meet
   in the count of positions only.
2. The mock clock inside `Auction` and `Raffle`, stating what still holds of money
   when time goes back; `Marketplace` has it for ends only.
