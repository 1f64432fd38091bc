---------------------------- MODULE PubkeyIndex ----------------------------
(***************************************************************************)
(* The paged index that makes the bids of an auction (or the ticket        *)
(* positions of a raffle) iterable, with the clients that race for it. A   *)
(* client reads the count and the page size, names the page account they   *)
(* give in a transaction, and sends it; the program computes the page anew *)
(* and refuses another. A reader fetches one account after the other while *)
(* bids keep landing. Bids only differ here in who makes them.             *)
(***************************************************************************)
EXTENDS Integers, Sequences, FiniteSets

CONSTANTS
  Bidders,         \* each with one bid account, the key to be indexed
  KeysPerPage,     \* PubkeyIndexPage::KEYS_PER_PAGE
  PageSizes,       \* page sizes the authority may set (test environment)
  MaxPrefunded     \* bound: pages outsiders may send lamports to

ASSUME PageSizesAssumption ==
  /\ IsFiniteSet(Bidders)
  /\ KeysPerPage \in Nat \ {0}
  /\ PageSizes \subseteq Nat \ {0}
  /\ MaxPrefunded \in Nat

VARIABLES
  is_test_environment,
  num_keys_per_index_page,
  total_bids,      \* Auction.total_bids
  initialized,     \* bidders whose bid account is initialised
  keys,            \* PubkeyIndexPage.keys by page id, <<>> if not created
  prefunded,       \* ids of pages that hold lamports but were not created
  client,          \* what each bidder's client is at
  reader           \* what a client iterating the bids is at

programVars ==
  <<is_test_environment, num_keys_per_index_page, total_bids, initialized,
    keys, prefunded>>
vars == <<programVars, client, reader>>
-----------------------------------------------------------------------------
PageIds == 0..Cardinality(Bidders)

(* What a client holds: nothing, the count it fetched, or a transaction    *)
(* that names a page.                                                      *)
Idle       == [at |-> "idle", value |-> 0]
Fetched(t) == [at |-> "fetched", value |-> t]
Sent(p)    == [at |-> "sent", value |-> p]

NotReading ==
  [at |-> "idle", total |-> 0, size |-> 1, page |-> <<>>, yielded |-> <<>>]

(* Faulty: the page of the key after the next. *)
NextPageId == (total_bids + 1) \div num_keys_per_index_page

(* PubkeyIndexPage::page_id, at the time the transaction runs. *)
PageId == total_bids \div num_keys_per_index_page

(* index_pubkey creates a page whose address holds no lamports and loads    *)
(* any other. Loading one that the program does not own aborts the bid.     *)
PageLoads == PageId \notin prefunded

(* Faulty: a raise is indexed again. *)
AlwaysIndexed(b) == TRUE

(* newly_initialized *)
NewlyInitialized(b) == b \notin initialized

(* Faulty: the first page is never left. *)
FirstPageOnly(idx, size) == idx = 0

(* getIndexedKeys fetches a page when it starts with it. *)
FetchesPage(idx, size) == idx % size = 0
-----------------------------------------------------------------------------
Init ==
  /\ is_test_environment \in BOOLEAN
  /\ num_keys_per_index_page = KeysPerPage
  /\ total_bids = 0
  /\ initialized = {}
  /\ keys = [p \in PageIds |-> <<>>]
  /\ prefunded = {}
  /\ client = [b \in Bidders |-> Idle]
  /\ reader = NotReading

(* makeBid of the client: the auction is fetched ... *)
FetchAuction(b) ==
  /\ client[b].at = "idle"
  /\ client' = [client EXCEPT ![b] = Fetched(total_bids)]
  /\ UNCHANGED <<programVars, reader>>

(* ... then the global states, and the transaction is sent. *)
Send(b) ==
  /\ client[b].at = "fetched"
  /\ client' =
       [client EXCEPT ![b] = Sent(client[b].value \div num_keys_per_index_page)]
  /\ UNCHANGED <<programVars, reader>>

(* make_bid runs; index_pubkey creates the page or makes room in it. *)
Land(b) ==
  /\ client[b] = Sent(PageId)
  /\ NewlyInitialized(b) => PageLoads
  /\ client' = [client EXCEPT ![b] = Idle]
  /\ IF NewlyInitialized(b)
     THEN /\ initialized' = initialized \cup {b}
          /\ keys' = [keys EXCEPT ![PageId] = Append(@, b)]
          /\ total_bids' = total_bids + 1
     ELSE UNCHANGED <<initialized, keys, total_bids>>
  /\ UNCHANGED <<is_test_environment, num_keys_per_index_page, prefunded,
                 reader>>

(* The seeds constraint of bid_index fails, for new bids and for raises. *)
Refuse(b) ==
  /\ client[b].at = "sent"
  /\ client[b] # Sent(PageId)
  /\ client' = [client EXCEPT ![b] = Idle]
  /\ UNCHANGED <<programVars, reader>>

(* The page is the one to be made, but is taken for one that exists: a      *)
(* first bid fails, a raise does not get that far.                          *)
Abort(b) ==
  /\ client[b] = Sent(PageId)
  /\ NewlyInitialized(b) /\ ~PageLoads
  /\ client' = [client EXCEPT ![b] = Idle]
  /\ UNCHANGED <<programVars, reader>>

(* The transaction expires, or fails for a reason of its own. *)
Lose(b) ==
  /\ client[b].at = "sent"
  /\ client' = [client EXCEPT ![b] = Idle]
  /\ UNCHANGED <<programVars, reader>>

UpdateConfigs(size) ==
  /\ is_test_environment
  /\ num_keys_per_index_page' = size
  /\ UNCHANGED <<is_test_environment, total_bids, initialized, keys,
                 prefunded, client, reader>>

(* Anybody may send lamports to the address of a page, made or not. It      *)
(* makes a difference to one that is not.                                   *)
Prefund(p) ==
  /\ keys[p] = <<>>
  /\ Cardinality(prefunded) < MaxPrefunded
  /\ prefunded' = prefunded \cup {p}
  /\ UNCHANGED <<is_test_environment, num_keys_per_index_page, total_bids,
                 initialized, keys, client, reader>>

(* getAuctionBids: the auction is fetched, then the global states. *)
StartReading ==
  /\ reader = NotReading
  /\ reader' = [NotReading EXCEPT !.at = "counted", !.total = total_bids]
  /\ UNCHANGED <<programVars, client>>

FetchGlobalStates ==
  /\ reader.at = "counted"
  /\ reader' =
       [reader EXCEPT !.at = "reading", !.size = num_keys_per_index_page]
  /\ UNCHANGED <<programVars, client>>

(* A turn of getIndexedKeys' loop. A page that does not exist, and a key   *)
(* beyond the page that was fetched, end it with an error.                 *)
ReadKey ==
  LET idx == Len(reader.yielded)
      page == IF FetchesPage(idx, reader.size)
              THEN keys[idx \div reader.size] ELSE reader.page
      place == (idx % reader.size) + 1
  IN /\ reader.at = "reading"
     /\ idx < reader.total
     /\ reader' =
          IF place <= Len(page)
          THEN [reader EXCEPT !.page = page, !.yielded = Append(@, page[place])]
          ELSE [reader EXCEPT !.at = "failed"]
     /\ UNCHANGED <<programVars, client>>

StopReading ==
  /\ \/ reader.at = "failed"
     \/ reader.at = "reading" /\ Len(reader.yielded) = reader.total
  /\ reader' = NotReading
  /\ UNCHANGED <<programVars, client>>

Next ==
  \/ \E b \in Bidders :
       \/ FetchAuction(b) \/ Send(b)
       \/ Land(b) \/ Refuse(b) \/ Abort(b) \/ Lose(b)
  \/ \E size \in PageSizes : UpdateConfigs(size)
  \/ \E p \in PageIds : Prefund(p)
  \/ StartReading
  \/ FetchGlobalStates
  \/ ReadKey
  \/ StopReading

Spec == Init /\ [][Next]_vars

(* A bidder's client keeps fetching and sending; a transaction that was    *)
(* sent runs, fails or expires; and of transactions that could run again   *)
(* and again, one does.                                                    *)
RetrySpec ==
  /\ Spec
  /\ \A b \in Bidders :
       /\ WF_vars(FetchAuction(b))
       /\ WF_vars(Send(b))
       /\ WF_vars(Land(b) \/ Refuse(b) \/ Abort(b) \/ Lose(b))
       /\ SF_vars(Land(b))
-----------------------------------------------------------------------------
(* The key of bid number i, from 0, in pages of the production size. *)
KeyAt(i) == keys[i \div KeysPerPage][(i % KeysPerPage) + 1]

(* The sets each variable ranges over. *)
TypeOK ==
  /\ is_test_environment \in BOOLEAN
  /\ num_keys_per_index_page \in PageSizes \cup {KeysPerPage}
  /\ total_bids \in 0..Cardinality(Bidders)
  /\ initialized \subseteq Bidders
  /\ keys \in [PageIds -> Seq(Bidders)]
  /\ prefunded \in SUBSET PageIds
  /\ client \in
       [Bidders -> [at: {"idle", "fetched", "sent"},
                    value: 0..Cardinality(Bidders)]]
  /\ reader \in
       [at: {"idle", "counted", "reading", "failed"},
        total: 0..Cardinality(Bidders), size: PageSizes \cup {KeysPerPage, 1},
        page: Seq(Bidders), yielded: Seq(Bidders)]

(* Whatever the order in which stale and current transactions arrive, the   *)
(* pages are filled one after the other without a gap, and hold the key of  *)
(* every bid account once.                                                  *)
PagesHoldAll ==
  ~is_test_environment =>
    /\ \A p \in PageIds :
         Len(keys[p]) = IF p < PageId THEN KeysPerPage
                        ELSE IF p = PageId THEN total_bids % KeysPerPage ELSE 0
    /\ total_bids = Cardinality(initialized)
    /\ {KeyAt(i) : i \in 0..(total_bids - 1)} = initialized

(* An iteration that starts at any time ends with every bid there was when  *)
(* it started, each once, though it reads the accounts one by one while the *)
(* index grows.                                                             *)
AlwaysIterable ==
  ~is_test_environment =>
    /\ reader.at # "failed"
    /\ \A i \in 1..Len(reader.yielded) : reader.yielded[i] = KeyAt(i - 1)

(* A bidder who tries again after a refusal gets a first bid in: only first *)
(* bids move the page, and there are only so many. Lamports that somebody   *)
(* sent to the address of the page that comes next are the one obstacle.    *)
FirstBidsLand ==
  ~is_test_environment ~> initialized = Bidders \/ PageId \in prefunded
-----------------------------------------------------------------------------
(* bid_strategy.rs:171-172: "race-condition free bids key indexing. All    *)
(* bids are iterable without introducing race-conditions for making bids." *)
(* A raise indexes nothing; so no other bid should get it refused.         *)
RaisesDoNotRace ==
  [][\A b \in Bidders : ~is_test_environment /\ b \in initialized
       => ~Refuse(b)]_vars
=============================================================================
