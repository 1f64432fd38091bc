-------------------------- MODULE MarketplaceProof --------------------------
(***************************************************************************)
(* Properties of Marketplace for every number of clients, listings, keys   *)
(* and updates: ids are dense, both allowlists can be read page by page,   *)
(* documented terms fit their account, and an end is final in production.  *)
(***************************************************************************)
EXTENDS Marketplace, ArithmeticProof
-----------------------------------------------------------------------------
Wants ==
  \E i \in Intentions :
    wish = i.wish /\ additions = i.additions /\ donations = i.donations

(* The parts of TypeOK that handlers change together. *)
AdminOK ==
  /\ authority \in Signers \cup {Nobody}
  /\ cfg \in ConfigRecord
  /\ mock_timestamp \in Nat \cup {None}

ListingsOK ==
  /\ total \in [Kinds -> Nat]
  /\ DOMAIN listings = Kinds
  /\ \A k \in Kinds : listings[k] \in [0..(total[k] - 1) -> ListingRecord]

AllowOK ==
  /\ total_allowed \in [Lists -> Nat]
  /\ DOMAIN allowed = Lists
  /\ allowed["token"] \subseteq Currencies
  /\ allowed["nft"] \subseteq Collections
  /\ DOMAIN index = Lists
  /\ prefunded \subseteq Lists \X Nat
  /\ treasury_accounts \subseteq Treasuries \X Currencies

ClientsOK == Wants /\ tx \in [Clients -> Transactions]

TypeInv == clock \in Nat /\ AdminOK /\ ListingsOK /\ AllowOK /\ ClientsOK

LEMMA TypeInit == Init => TypeInv
<1> SUFFICES ASSUME Init PROVE TypeInv
  OBVIOUS
<1>1. clock \in Nat /\ AdminOK
  BY ConfigAssumption DEF Init, AdminOK
<1>2. ListingsOK
  <2>1. 0..(0 - 1) = {}
    OBVIOUS
  <2>2. \A k \in Kinds : listings[k] = <<>> /\ total[k] = 0
    BY DEF Init
  <2>3. <<>> \in [{} -> ListingRecord]
    OBVIOUS
  <2> QED BY <2>1, <2>2, <2>3 DEF Init, ListingsOK
<1>3. AllowOK
  BY DEF Init, AllowOK, Lists
<1>4. ClientsOK
  BY DEF Init, ClientsOK, Wants, Transactions, NoTransaction
<1> QED BY <1>1, <1>2, <1>3, <1>4 DEF TypeInv

(* What somebody wants is of the kind the clients can ask for. *)
LEMMA WishOK ==
  ASSUME ClientsOK
  PROVE  /\ \E S \in SUBSET Creators : wish \in [S -> WishRecord]
         /\ additions \in [Curators -> SUBSET (({"token"} \X Currencies)
                                          \cup ({"nft"} \X Collections))]
        /\ donations \subseteq Lists \X Nat
BY ClientsAssumption DEF ClientsOK, Wants

(* update_configs keeps the configuration in its types. *)
LEMMA UpdatedOK ==
  ASSUME AdminOK, NEW input \in Updates
  PROVE  Updated(input) \in ConfigRecord
<1> DEFINE c == [f \in DOMAIN DefaultConfig |->
                   IF f \in DOMAIN input THEN input[f] ELSE DefaultConfig[f]]
<1>1. c \in ConfigRecord /\ DefaultConfig \in ConfigRecord
  BY ConfigAssumption
<1>2. DOMAIN cfg = DOMAIN DefaultConfig
  BY <1>1 DEF AdminOK, ConfigRecord
<1>3. \A f \in DOMAIN cfg : Updated(input)[f] = c[f] \/ Updated(input)[f] = cfg[f]
  BY <1>2 DEF Updated
<1> HIDE DEF c
<1> QED BY <1>1, <1>3 DEF AdminOK, ConfigRecord, Updated

LEMMA NowOK == TypeInv => Now \in Nat
BY DEF TypeInv, AdminOK, ConfigRecord, Now

LEMMA CurrentPageOK ==
  ASSUME TypeInv, NEW list \in Lists
  PROVE  /\ CurrentPage(list) \in Nat
         /\ cfg.num_keys_per_index_page \in Nat \ {0}
         /\ total_allowed[list] \in Nat
<1>1. total_allowed[list] \in Nat
  BY DEF TypeInv, AllowOK
<1>2. cfg.num_keys_per_index_page \in Nat \ {0}
  BY DEF TypeInv, AdminOK, ConfigRecord
<1> DEFINE t == total_allowed[list]  k == cfg.num_keys_per_index_page
<1> HIDE DEF t, k
<1>3. t \div k \in Nat
  BY <1>1, <1>2, DivMod DEF t, k
<1> QED BY <1>1, <1>2, <1>3 DEF CurrentPage, PageId, t, k

(* A transaction under way that lists or claims belongs to somebody who     *)
(* wanted to list something.                                                *)
SendersWish ==
  \A c \in Clients : tx[c].op \in {"create", "claim"} => c \in DOMAIN wish

TInv == TypeInv /\ SendersWish

LEMMA TInvInit == Init => TInv
BY TypeInit DEF TInv, Init, SendersWish, NoTransaction

(* A client sends a transaction, or has one no longer. *)
LEMMA SendOK ==
  ASSUME TInv, NEW c \in Clients, NEW t \in Transactions,
         tx' = [tx EXCEPT ![c] = t],
         t.op \in {"create", "claim"} => c \in DOMAIN wish,
         UNCHANGED <<wish, additions, donations>>
  PROVE  ClientsOK' /\ SendersWish'
BY DEF TInv, TypeInv, ClientsOK, Wants, SendersWish

LEMMA LandedOK ==
  ASSUME TInv, NEW c \in Clients, Landed(c), UNCHANGED wants
  PROVE  ClientsOK' /\ SendersWish'
<1>1. NoTransaction \in Transactions /\ NoTransaction.op = "none"
  BY DEF NoTransaction, Transactions
<1> QED BY <1>1, SendOK DEF Landed, wants

(* What landed is what somebody sent. *)
LEMMA SentOK ==
  ASSUME TInv, NEW c \in Clients
  PROVE  /\ tx[c].op = "create" => tx[c].id \in Nat
         /\ tx[c].op = "add_token" =>
              /\ tx[c].key \in Currencies /\ tx[c].page \in Nat
              /\ tx[c].treasury \in Treasuries
         /\ tx[c].op = "add_nft" =>
              tx[c].key \in Collections /\ tx[c].page \in Nat
<1>1. tx[c] \in Transactions
  BY DEF TInv, TypeInv, ClientsOK
<1>2. CASE tx[c] \in [op: {"none"}]
  BY <1>2
<1>3. CASE tx[c] \in [op: {"create"}, id: Nat]
  BY <1>3
<1>4. CASE tx[c] \in [op: {"claim"}, id: Nat, treasury: Treasuries]
  BY <1>4
<1>5. CASE tx[c] \in [op: {"add_token"}, key: Currencies, page: Nat,
                      treasury: Treasuries]
  BY <1>5
<1>6. CASE tx[c] \in [op: {"add_nft"}, key: Collections, page: Nat]
  BY <1>6
<1> QED BY <1>1, <1>2, <1>3, <1>4, <1>5, <1>6 DEF Transactions

LEMMA WisherOK ==
  ASSUME TInv, NEW c \in DOMAIN wish
  PROVE  c \in Creators /\ wish[c] \in WishRecord /\ wish[c].kind \in Kinds
<1>1. PICK S \in SUBSET Creators : wish \in [S -> WishRecord]
  BY WishOK DEF TInv, TypeInv
<1>2. wish[c] \in WishRecord /\ c \in Creators
  BY <1>1
<1> QED BY <1>2 DEF WishRecord

LEMMA AdminSteps ==
  ASSUME TInv
  PROVE  /\ \A d \in Deployments : InitJustiesProgram(d) => TInv'
         /\ \A input \in Updates : UpdateConfigs(input) => TInv'
         /\ \A t \in MockTimestamps \cup {None} : SetMockTimestamp(t) => TInv'
<1>1. ASSUME UNCHANGED <<clock, listVars, allowVars, wants, tx>>, AdminOK'
      PROVE  TInv'
  BY <1>1 DEF TInv, TypeInv, ListingsOK, AllowOK, ClientsOK, Wants,
              SendersWish, listVars, allowVars, wants
<1>2. ASSUME NEW d \in Deployments, InitJustiesProgram(d) PROVE TInv'
  <2>1. /\ d.authority \in Signers /\ d.market_fee_rate_bps \in Nat
        /\ d.fee_treasury_address \in Treasuries
        /\ d.is_test_environment \in BOOLEAN
    BY ConfigAssumption
  <2>2. cfg \in ConfigRecord
    BY DEF TInv, TypeInv, AdminOK
  <2>3. cfg' \in ConfigRecord
    BY <1>2, <2>1, <2>2 DEF InitJustiesProgram, ConfigRecord
  <2>4. AdminOK'
    BY <1>2, <2>1, <2>3 DEF InitJustiesProgram, TInv, TypeInv, AdminOK
  <2> QED BY <1>1, <1>2, <2>4 DEF InitJustiesProgram
<1>3. ASSUME NEW input \in Updates, UpdateConfigs(input) PROVE TInv'
  <2>1. Updated(input) \in ConfigRecord
    BY UpdatedOK DEF TInv, TypeInv
  <2>2. AdminOK'
    BY <1>3, <2>1 DEF UpdateConfigs, TInv, TypeInv, AdminOK
  <2> QED BY <1>1, <1>3, <2>2 DEF UpdateConfigs
<1>4. ASSUME NEW t \in MockTimestamps \cup {None}, SetMockTimestamp(t)
      PROVE  TInv'
  <2>1. t \in Nat \cup {None}
    BY ConfigAssumption
  <2>2. AdminOK'
    BY <1>4, <2>1 DEF SetMockTimestamp, TInv, TypeInv, AdminOK
  <2> QED BY <1>1, <1>4, <2>2 DEF SetMockTimestamp
<1> QED BY <1>2, <1>3, <1>4

(* Sending changes nothing but the client. *)
LEMMA SendSteps ==
  ASSUME TInv
  PROVE  /\ \A c \in Curators : SendCurrencyToken(c) => TInv'
         /\ \A c \in Curators : SendNftCollection(c) => TInv'
         /\ \A c \in Creators : SendCreation(c) => TInv'
         /\ \A c \in Creators : SendClaim(c) => TInv'
         /\ \A c \in Clients : Drop(c) => TInv'
<1>1. ASSUME UNCHANGED <<clock, adminVars, listVars, allowVars, wants>>,
             ClientsOK', SendersWish'
      PROVE  TInv'
  BY <1>1 DEF TInv, TypeInv, AdminOK, ListingsOK, AllowOK, adminVars,
              listVars, allowVars
<1>2. ASSUME NEW c \in Clients, NEW t \in Transactions, Send(c, t),
             t.op \in {"create", "claim"} => c \in DOMAIN wish
      PROVE  TInv'
  BY <1>1, <1>2, SendOK DEF Send, wants
<1>3. Creators \subseteq Clients /\ Curators \subseteq Clients
  BY DEF Clients
<1>4. cfg.fee_treasury_address \in Treasuries
  BY DEF TInv, TypeInv, AdminOK, ConfigRecord
<1>5. ASSUME NEW c \in Curators, SendCurrencyToken(c) PROVE TInv'
  <2>1. PICK m \in Currencies :
          Send(c, [op |-> "add_token", key |-> m, page |-> CurrentPage("token"),
                   treasury |-> cfg.fee_treasury_address])
    BY <1>5 DEF SendCurrencyToken
  <2>2. CurrentPage("token") \in Nat
    BY CurrentPageOK DEF Lists, TInv
  <2> QED BY <1>2, <1>3, <1>4, <2>1, <2>2 DEF Transactions
<1>6. ASSUME NEW c \in Curators, SendNftCollection(c) PROVE TInv'
  <2>1. PICK m \in Collections :
          Send(c, [op |-> "add_nft", key |-> m, page |-> CurrentPage("nft")])
    BY <1>6 DEF SendNftCollection
  <2>2. CurrentPage("nft") \in Nat
    BY CurrentPageOK DEF Lists, TInv
  <2> QED BY <1>2, <1>3, <2>1, <2>2 DEF Transactions
<1>7. ASSUME NEW c \in Creators, SendCreation(c) PROVE TInv'
  <2>1. /\ c \in DOMAIN wish
        /\ Send(c, [op |-> "create", id |-> total[wish[c].kind]])
    BY <1>7 DEF SendCreation
  <2>2. total[wish[c].kind] \in Nat
    BY <2>1, WisherOK DEF TInv, TypeInv, ListingsOK
  <2> QED BY <1>2, <1>3, <2>1, <2>2 DEF Transactions
<1>8. ASSUME NEW c \in Creators, SendClaim(c) PROVE TInv'
  <2>1. c \in DOMAIN wish
    BY <1>8 DEF SendClaim
  <2>2. PICK id \in DOMAIN listings[wish[c].kind] :
          Send(c, [op |-> "claim", id |-> id,
                   treasury |-> cfg.fee_treasury_address])
    BY <1>8 DEF SendClaim
  <2>3. id \in Nat
    BY <2>1, WisherOK DEF TInv, TypeInv, ListingsOK
  <2> QED BY <1>2, <1>3, <1>4, <2>1, <2>2, <2>3 DEF Transactions
<1>9. ASSUME NEW c \in Clients, Drop(c) PROVE TInv'
  BY <1>1, <1>9, LandedOK DEF Drop
<1> QED BY <1>5, <1>6, <1>7, <1>8, <1>9

(* Allowing a key counts it and gives it a place in the index. *)
LEMMA AllowedOK ==
  ASSUME TInv, NEW list \in Lists, NEW key, NEW page,
         key \in (IF list = "token" THEN Currencies ELSE Collections),
         Allow(list, key, page), treasury_accounts' \subseteq Treasuries \X Currencies
  PROVE  AllowOK'
BY DEF TInv, TypeInv, AllowOK, Allow, Lists

LEMMA AllowSteps ==
  ASSUME TInv
  PROVE  /\ \A c \in Curators : AddCurrencyToken(c) => TInv'
         /\ \A c \in Curators : AddNftCollection(c) => TInv'
         /\ \A t \in Treasuries, m \in Currencies :
              CreateTreasuryAccount(t, m) => TInv'
         /\ \A d \in donations : Prefund(d[1], d[2]) => TInv'
<1>1. ASSUME UNCHANGED <<clock, adminVars, listVars>>,
             AllowOK', ClientsOK', SendersWish'
      PROVE  TInv'
  BY <1>1 DEF TInv, TypeInv, AdminOK, ListingsOK, adminVars, listVars
<1>2. Curators \subseteq Clients /\ "token" \in Lists /\ "nft" \in Lists
  BY DEF Clients, Lists
<1>3. treasury_accounts \subseteq Treasuries \X Currencies
  BY DEF TInv, TypeInv, AllowOK
<1>4. ASSUME NEW c \in Curators, AddCurrencyToken(c) PROVE TInv'
  <2>1. tx[c].key \in Currencies /\ tx[c].treasury \in Treasuries
    BY <1>2, <1>4, SentOK DEF AddCurrencyToken
  <2>2. treasury_accounts' \subseteq Treasuries \X Currencies
    BY <1>3, <1>4, <2>1 DEF AddCurrencyToken
  <2>3. AllowOK'
    BY <1>2, <1>4, <2>1, <2>2, AllowedOK DEF AddCurrencyToken
  <2> QED BY <1>1, <1>2, <1>4, <2>3, LandedOK DEF AddCurrencyToken
<1>5. ASSUME NEW c \in Curators, AddNftCollection(c) PROVE TInv'
  <2>1. tx[c].key \in Collections
    BY <1>2, <1>5, SentOK DEF AddNftCollection
  <2>2. AllowOK'
    BY <1>2, <1>3, <1>5, <2>1, AllowedOK DEF AddNftCollection
  <2> QED BY <1>1, <1>2, <1>5, <2>2, LandedOK DEF AddNftCollection
<1>6. ASSUME NEW t \in Treasuries, NEW m \in Currencies,
             CreateTreasuryAccount(t, m)
      PROVE  TInv'
  <2>1. AllowOK'
    BY <1>6 DEF CreateTreasuryAccount, TInv, TypeInv, AllowOK
  <2>2. ClientsOK' /\ SendersWish'
    BY <1>6 DEF CreateTreasuryAccount, TInv, TypeInv, ClientsOK, Wants,
                SendersWish, wants
  <2> QED BY <1>1, <1>6, <2>1, <2>2 DEF CreateTreasuryAccount
<1>7. ASSUME NEW d \in donations, Prefund(d[1], d[2]) PROVE TInv'
  <2>1. <<d[1], d[2]>> \in Lists \X Nat
    BY <1>7, WishOK DEF Prefund, TInv, TypeInv
  <2>2. AllowOK'
    BY <1>7, <2>1 DEF Prefund, TInv, TypeInv, AllowOK
  <2>3. ClientsOK' /\ SendersWish'
    BY <1>7 DEF Prefund, TInv, TypeInv, ClientsOK, Wants, SendersWish, wants
  <2> QED BY <1>1, <1>7, <2>2, <2>3 DEF Prefund
<1> QED BY <1>4, <1>5, <1>6, <1>7

(* A new listing takes the next id. *)
LEMMA CreateOK ==
  ASSUME TInv, NEW c \in Creators, Create(c)
  PROVE  TInv'
<1> DEFINE w == wish[c]
           new == [creator |-> c, terms |-> w,
                   expired_timestamp |-> Now + w.duration,
                   filled |-> FALSE, escrow |-> "due", claimed |-> FALSE]
<1>1. c \in Clients /\ c \in DOMAIN wish
  BY DEF Create, Clients, TInv, SendersWish
<1>2. w \in WishRecord /\ w.kind \in Kinds
  BY <1>1, WisherOK
<1>3. w.duration \in Nat /\ Now \in Nat
  BY <1>2, NowOK DEF WishRecord, TInv
<1>4. new \in ListingRecord
  BY <1>2, <1>3 DEF ListingRecord, Escrows
<1>5. /\ tx[c].id = total[w.kind]
      /\ total' = [total EXCEPT ![w.kind] = total[w.kind] + 1]
      /\ listings' = [listings EXCEPT ![w.kind] =
                        [i \in DOMAIN @ \cup {tx[c].id} |->
                           IF i = tx[c].id THEN new ELSE @[i]]]
      /\ Landed(c) /\ UNCHANGED <<clock, adminVars, allowVars, wants>>
  BY DEF Create, IsNextId, CountedTotal
<1> DEFINE k == w.kind  n == total[k]
<1>6. ListingsOK
  BY DEF TInv, TypeInv
<1>7. n \in Nat /\ listings[k] \in [0..(n - 1) -> ListingRecord]
  BY <1>2, <1>6 DEF ListingsOK
<1> HIDE DEF new, w
<1>8. 0..((n + 1) - 1) = 0..(n - 1) \cup {n}
  BY <1>7
<1>9. listings'[k] \in [0..((n + 1) - 1) -> ListingRecord]
  <2>1. listings'[k] = [i \in 0..(n - 1) \cup {n} |->
                          IF i = n THEN new ELSE listings[k][i]]
    BY <1>2, <1>5, <1>6, <1>7 DEF ListingsOK
  <2> HIDE DEF k, n
  <2> QED BY <1>4, <1>7, <1>8, <2>1
<1>10. ListingsOK'
  <2>1. total'[k] = n + 1 /\ total' \in [Kinds -> Nat]
    BY <1>2, <1>5, <1>6, <1>7 DEF ListingsOK
  <2>2. DOMAIN listings' = Kinds
    BY <1>5, <1>6 DEF ListingsOK
  <2>3. \A j \in Kinds \ {k} :
          listings'[j] = listings[j] /\ total'[j] = total[j]
    BY <1>2, <1>5, <1>6 DEF ListingsOK
  <2> HIDE DEF k, n
  <2> QED BY <1>6, <1>9, <2>1, <2>2, <2>3 DEF ListingsOK
<1>11. ClientsOK' /\ SendersWish'
  BY <1>1, <1>5, LandedOK
<1> QED BY <1>5, <1>10, <1>11 DEF TInv, TypeInv, AdminOK, AllowOK, adminVars, allowVars

(* A listing is changed in place. *)
LEMMA ListingChanged ==
  ASSUME ListingsOK, NEW k, NEW id,
         NEW new, k \in Kinds /\ id \in DOMAIN listings[k] => new \in ListingRecord,
         listings' = [listings EXCEPT ![k][id] = new], UNCHANGED total
  PROVE  ListingsOK'
<1>1. DOMAIN listings' = Kinds
  BY DEF ListingsOK
<1>2. ASSUME NEW j \in Kinds
      PROVE  listings'[j] \in [0..(total'[j] - 1) -> ListingRecord]
  <2>1. listings[j] \in [0..(total[j] - 1) -> ListingRecord]
    BY DEF ListingsOK
  <2>2. CASE j # k
    BY <2>1, <2>2 DEF ListingsOK
  <2>3. CASE j = k
    <3>1. listings'[j] = [listings[j] EXCEPT ![id] = new]
      BY <2>3 DEF ListingsOK
    <3>2. DOMAIN listings[j] = 0..(total[j] - 1)
      BY <2>1
    <3>3. \A i \in DOMAIN listings[j] :
            listings'[j][i] = IF i = id THEN new ELSE listings[j][i]
      BY <3>1
    <3>4. \A i \in DOMAIN listings[j] : listings'[j][i] \in ListingRecord
      BY <2>1, <2>3, <3>3
    <3>5. listings'[j] = [i \in DOMAIN listings[j] |-> listings'[j][i]]
      BY <3>1
    <3> QED BY <3>2, <3>4, <3>5
  <2> QED BY <2>2, <2>3
<1> QED BY <1>1, <1>2 DEF ListingsOK

LEMMA ListingOK ==
  ASSUME ListingsOK, NEW k \in Kinds, NEW id \in DOMAIN listings[k]
  PROVE  listings[k][id] \in ListingRecord
BY DEF ListingsOK

LEMMA ListingSteps ==
  ASSUME TInv
  PROVE  /\ \A c \in Creators : ClaimRevenue(c) => TInv'
         /\ \A id \in DOMAIN listings["auction"] : MakeBid(id) => TInv'
         /\ \A id \in DOMAIN listings["raffle"] : MakeRaffle(id) => TInv'
         /\ \A id \in DOMAIN listings["auction"] : Deposit(id) => TInv'
         /\ Tick => TInv'
<1>1. ASSUME UNCHANGED <<clock, adminVars, allowVars>>,
             ListingsOK', ClientsOK', SendersWish'
      PROVE  TInv'
  BY <1>1 DEF TInv, TypeInv, AdminOK, AllowOK, adminVars, allowVars
<1>2. ASSUME UNCHANGED <<wants, tx>> PROVE ClientsOK' /\ SendersWish'
  BY <1>2 DEF TInv, TypeInv, ClientsOK, Wants, SendersWish, wants
<1>3. ListingsOK /\ "auction" \in Kinds /\ "raffle" \in Kinds
  BY DEF TInv, TypeInv, Kinds
<1>4. ASSUME NEW c \in Creators, ClaimRevenue(c) PROVE TInv'
  <2> DEFINE k == wish[c].kind  id == tx[c].id
             new == [listings[k][id] EXCEPT !.claimed = TRUE]
  <2>1. listings' = [listings EXCEPT ![k][id] = new]
    BY <1>4 DEF ClaimRevenue
  <2>2. k \in Kinds /\ id \in DOMAIN listings[k] => new \in ListingRecord
    <3> SUFFICES ASSUME listings[k][id] \in ListingRecord
                 PROVE  new \in ListingRecord
      BY <1>3, ListingOK
    <3> QED BY DEF ListingRecord
  <2>3. UNCHANGED total
    BY <1>4 DEF ClaimRevenue
  <2> HIDE DEF new, k, id
  <2>4. ListingsOK'
    BY <1>3, <2>1, <2>2, <2>3, ListingChanged
  <2>5. ClientsOK' /\ SendersWish'
    BY <1>4, LandedOK DEF ClaimRevenue, Clients
  <2> QED BY <1>1, <1>4, <2>4, <2>5 DEF ClaimRevenue
<1>5. ASSUME NEW id \in DOMAIN listings["auction"], MakeBid(id) PROVE TInv'
  <2> DEFINE l == listings["auction"][id]
             end == IF Now > l.expired_timestamp - ExtendMinutes
                    THEN Now + ExtendMinutes ELSE l.expired_timestamp
  <2>1. l \in ListingRecord
    BY <1>3, ListingOK
  <2>7. PICK e \in Escrows :
          listings' = [listings EXCEPT !["auction"][id].filled = TRUE,
                                       !["auction"][id].escrow = e,
                                       !["auction"][id].expired_timestamp = end]
    BY <1>3, <1>5, <2>1
    DEF MakeBid, Earnings, Escrows, ListingsOK, ListingRecord
  <2> DEFINE new == [l EXCEPT !.filled = TRUE, !.escrow = e,
                              !.expired_timestamp = end]
  <2>2. Now + ExtendMinutes \in Nat
    BY NowOK, ConfigAssumption DEF TInv
  <2>8. end \in Nat
    BY <2>1, <2>2 DEF ListingRecord
  <2> HIDE DEF end
  <2>3. new \in ListingRecord
    BY <2>1, <2>8 DEF ListingRecord
  <2>4. listings' = [listings EXCEPT !["auction"][id] = new]
    BY <1>3, <2>1, <2>7 DEF ListingsOK, ListingRecord
  <2>5. UNCHANGED total
    BY <1>5 DEF MakeBid
  <2> HIDE DEF new, l
  <2>6. ListingsOK'
    BY <1>3, <2>3, <2>4, <2>5, ListingChanged
  <2> QED BY <1>1, <1>2, <1>5, <2>6 DEF MakeBid
<1>6. ASSUME NEW id \in DOMAIN listings["raffle"], MakeRaffle(id) PROVE TInv'
  <2>5. listings["raffle"][id] \in ListingRecord
    BY <1>3, ListingOK
  <2>6. PICK e \in Escrows :
          listings' = [listings EXCEPT !["raffle"][id].filled = TRUE,
                                       !["raffle"][id].escrow = e]
    BY <1>6 DEF MakeRaffle, Earnings, Escrows
  <2> DEFINE new == [listings["raffle"][id] EXCEPT !.filled = TRUE, !.escrow = e]
  <2>1. new \in ListingRecord
    BY <2>5 DEF ListingRecord
  <2>2. listings' = [listings EXCEPT !["raffle"][id] = new]
    BY <1>3, <2>5, <2>6 DEF ListingsOK, ListingRecord
  <2>3. UNCHANGED total
    BY <1>6 DEF MakeRaffle
  <2> HIDE DEF new
  <2>4. ListingsOK'
    BY <1>3, <2>1, <2>2, <2>3, ListingChanged
  <2> QED BY <1>1, <1>2, <1>6, <2>4 DEF MakeRaffle
<1>7. ASSUME Tick PROVE TInv'
  <2>1. clock' \in Nat
    BY <1>7 DEF Tick, TInv, TypeInv
  <2>2. AdminOK' /\ ListingsOK' /\ AllowOK'
    BY <1>7 DEF Tick, TInv, TypeInv, AdminOK, ListingsOK, AllowOK,
                adminVars, listVars, allowVars
  <2> QED BY <1>2, <1>7, <2>1, <2>2 DEF Tick, TInv, TypeInv
<1>8. ASSUME NEW id \in DOMAIN listings["auction"], Deposit(id) PROVE TInv'
  <2> DEFINE new == [listings["auction"][id] EXCEPT !.escrow = "more"]
  <2>1. new \in ListingRecord
    <3>1. listings["auction"][id] \in ListingRecord
      BY <1>3, ListingOK
    <3> QED BY <3>1 DEF ListingRecord, Escrows
  <2>2. listings' = [listings EXCEPT !["auction"][id] = new] /\ UNCHANGED total
    BY <1>8 DEF Deposit
  <2> HIDE DEF new
  <2>3. ListingsOK'
    BY <1>3, <2>1, <2>2, ListingChanged
  <2> QED BY <1>1, <1>2, <1>8, <2>3 DEF Deposit
<1> QED BY <1>4, <1>5, <1>6, <1>7, <1>8

LEMMA TInvStep == TInv /\ [Next]_vars => TInv'
<1> SUFFICES ASSUME TInv, [Next]_vars PROVE TInv'
  OBVIOUS
<1>1. CASE UNCHANGED vars
  BY <1>1 DEF TInv, TypeInv, AdminOK, ListingsOK, AllowOK, ClientsOK, Wants,
              SendersWish, vars, adminVars, listVars, allowVars, wants
<1>2. CASE Next
  BY <1>2, AdminSteps, SendSteps, AllowSteps, CreateOK, ListingSteps DEF Next
<1> QED BY <1>1, <1>2

THEOREM TypeInvariance == Spec => []TInv
BY TInvInit, TInvStep, PTL DEF Spec

(* TypeOK: ids are dense. However many creators raced for an id with totals *)
(* they read before, exactly one listing of each kind has each id below the *)
(* total, and none another.                                                 *)
THEOREM TypeCorrect == Spec => []TypeOK
<1>1. TInv => TypeOK
  BY DEF TInv, TypeInv, AdminOK, ListingsOK, AllowOK, ClientsOK, Wants, TypeOK
<1> QED BY <1>1, TypeInvariance, PTL
-----------------------------------------------------------------------------
(* WithinLimitsFit: the space reserved for the documented limits is enough  *)
(* for them, bidder or winners included: the type of a group is stored in a *)
(* byte where four are reserved, and winners take the room it leaves.       *)
THEOREM LimitsFit == Spec => []WithinLimitsFit
<1>1. TInv => WithinLimitsFit
  <2> SUFFICES ASSUME TInv, NEW k \in Kinds, NEW id \in DOMAIN listings[k]
               PROVE  LET w == listings[k][id].terms
                      IN /\ w.groups <= MAX_GROUP_CONFIGS
                         /\ w.receivers <= MAX_REVENUE_RECEIVERS
                         /\ w.num_raffled_nfts <= 2 * MAX_RAFFLED_NFTS
                         => Fits(w, TRUE)
    BY DEF WithinLimitsFit, TInv, TypeInv, ListingsOK
  <2> DEFINE w == listings[k][id].terms
  <2>1. w \in WishRecord
    BY ListingOK DEF TInv, TypeInv, ListingRecord
  <2>2. w.groups \in Nat /\ w.receivers \in Nat /\ w.num_raffled_nfts \in Nat
    BY <2>1 DEF WishRecord
  <2>3. w.kind = "auction" \/ w.kind = "raffle"
    BY <2>1 DEF WishRecord, Kinds
  <2> HIDE DEF w
  <2>4. /\ w.groups <= MAX_GROUP_CONFIGS
        /\ w.receivers <= MAX_REVENUE_RECEIVERS
        /\ w.num_raffled_nfts <= 2 * MAX_RAFFLED_NFTS
        => Fits(w, TRUE)
    BY <2>2, <2>3 DEF Fits, DataSize, Space, GroupConfigSpace,
         RevenueShareSpace, MAX_GROUP_CONFIGS, MAX_REVENUE_RECEIVERS,
         MAX_RAFFLED_NFTS
  <2> QED BY <2>4 DEF w
<1> QED BY <1>1, TypeInvariance, PTL
-----------------------------------------------------------------------------
(* Before the program is initialised nothing is sent, listed or allowed.    *)
Fresh ==
  authority = Nobody =>
    /\ \A c \in Clients : tx[c] = NoTransaction
    /\ \A k \in Kinds : total[k] = 0
    /\ \A list \in Lists :
         total_allowed[list] = 0 /\ allowed[list] = {} /\ index[list] = <<>>

FInv == TInv /\ Fresh

LEMMA FInvStep == FInv /\ [Next]_vars => FInv'
<1> SUFFICES ASSUME TInv, Fresh, [Next]_vars PROVE Fresh'
  BY TInvStep DEF FInv
<1>1. CASE authority # Nobody
  <2>1. authority' # Nobody
    BY <1>1 DEF Next, vars, adminVars, InitJustiesProgram, UpdateConfigs,
         SetMockTimestamp, SendCurrencyToken, SendNftCollection, SendCreation,
         SendClaim, Send, AddCurrencyToken, AddNftCollection, Create,
         ClaimRevenue, Drop, MakeBid, MakeRaffle, Deposit, Prefund,
         CreateTreasuryAccount, Tick
  <2> QED BY <2>1 DEF Fresh
<1>2. CASE authority = Nobody
  <2>1. ASSUME NEW d \in Deployments, InitJustiesProgram(d) PROVE Fresh'
    <3>1. authority' # Nobody
      BY <2>1, ConfigAssumption, ClientsAssumption DEF InitJustiesProgram
    <3> QED BY <3>1 DEF Fresh
  <2>2. ASSUME NEW c \in Clients PROVE tx[c].op = "none"
    BY <1>2, <2>2 DEF Fresh, NoTransaction
  <2>3. Creators \subseteq Clients /\ Curators \subseteq Clients
    BY DEF Clients
  <2>4. \A k \in Kinds : DOMAIN listings[k] = {}
    <3>1. 0..(0 - 1) = {}
      OBVIOUS
    <3> QED BY <1>2, <3>1 DEF Fresh, TInv, TypeInv, ListingsOK
  <2>5. CASE UNCHANGED <<authority, tx, total, total_allowed, allowed, index>>
    BY <2>5 DEF Fresh
  <2>6. ASSUME NEW t \in Treasuries, NEW m \in Currencies,
               CreateTreasuryAccount(t, m)
        PROVE  Fresh'
    BY <2>5, <2>6 DEF CreateTreasuryAccount, adminVars, listVars
  <2>14. ASSUME NEW list, NEW p, Prefund(list, p) PROVE Fresh'
    BY <2>5, <2>14 DEF Prefund, adminVars, listVars
  <2>7. CASE Tick \/ UNCHANGED vars
    BY <2>5, <2>7 DEF Tick, vars, adminVars, listVars, allowVars
  <2>8. ASSUME NEW c \in Clients PROVE ~Drop(c)
    BY <1>2 DEF Drop, Fresh
  <2>9. ASSUME NEW c \in Curators PROVE ~AddCurrencyToken(c) /\ ~AddNftCollection(c)
    BY <2>2, <2>3 DEF AddCurrencyToken, AddNftCollection
  <2>10. ASSUME NEW c \in Creators PROVE ~Create(c) /\ ~ClaimRevenue(c)
    BY <2>2, <2>3 DEF Create, ClaimRevenue
  <2>11. ASSUME NEW c PROVE /\ ~SendCurrencyToken(c) /\ ~SendNftCollection(c)
                            /\ ~SendCreation(c) /\ ~SendClaim(c)
    BY <1>2 DEF SendCurrencyToken, SendNftCollection, SendCreation, SendClaim,
                Send
  <2>12. "auction" \in Kinds /\ "raffle" \in Kinds
    BY DEF Kinds
  <2>13. CASE Next
    BY <1>2, <2>1, <2>4, <2>6, <2>7, <2>8, <2>9, <2>10, <2>11, <2>12, <2>13,
       <2>14
    DEF Next, UpdateConfigs, SetMockTimestamp
  <2> QED BY <2>7, <2>13
<1> QED BY <1>1, <1>2

LEMMA FInvInit == Init => FInv
BY TInvInit DEF FInv, Init, Fresh, Lists

(* Once there is a listing, production remains production. *)
LEMMA EnvironmentStays ==
  ASSUME FInv, [Next]_vars, authority # Nobody
  PROVE  /\ cfg'.is_test_environment <=> cfg.is_test_environment
         /\ ~cfg.is_test_environment =>
              cfg'.num_keys_per_index_page = cfg.num_keys_per_index_page
<1>1. "is_test_environment" \in DOMAIN cfg /\ "num_keys_per_index_page" \in DOMAIN cfg
  BY DEF FInv, TInv, TypeInv, AdminOK, ConfigRecord
<1>2. ASSUME NEW input, UpdateConfigs(input)
      PROVE  /\ cfg'.is_test_environment = cfg.is_test_environment
             /\ ~cfg.is_test_environment =>
                  cfg'.num_keys_per_index_page = cfg.num_keys_per_index_page
  BY <1>1, <1>2 DEF UpdateConfigs, Updated, Updatable
<1>3. (\E input \in Updates : UpdateConfigs(input)) \/ cfg' = cfg
  BY DEF Next, vars, adminVars, InitJustiesProgram, SetMockTimestamp,
         SendCurrencyToken, SendNftCollection, SendCreation, SendClaim, Send,
         AddCurrencyToken, AddNftCollection, Create, ClaimRevenue, Drop,
         MakeBid, MakeRaffle, Deposit, Prefund,
         CreateTreasuryAccount, Tick
<1> QED BY <1>2, <1>3

(* The end of a listing moves by a bid only, which an ended one refuses.    *)
LEMMA EndMovesByBid ==
  ASSUME TInv, [Next]_vars, NEW kind \in Kinds, NEW id \in DOMAIN listings[kind],
         IsEnded(listings[kind][id])
  PROVE  listings'[kind][id].expired_timestamp
           = listings[kind][id].expired_timestamp
<1> DEFINE Kept == listings'[kind][id].expired_timestamp
                     = listings[kind][id].expired_timestamp
<1>1. ListingsOK /\ listings[kind][id] \in ListingRecord
  BY ListingOK DEF TInv, TypeInv
<1>2. listings[kind] \in [0..(total[kind] - 1) -> ListingRecord]
  BY <1>1 DEF ListingsOK
<1>3. CASE UNCHANGED listings
  BY <1>3
<1>4. ASSUME NEW c \in Creators, Create(c) PROVE Kept
  <2>1. /\ tx[c].id \notin DOMAIN listings[wish[c].kind]
        /\ \E new : listings' = [listings EXCEPT ![wish[c].kind] =
                       [i \in DOMAIN @ \cup {tx[c].id} |->
                          IF i = tx[c].id THEN new ELSE @[i]]]
    BY <1>4 DEF Create, IsNextId
  <2> QED BY <1>1, <1>2, <2>1 DEF ListingsOK
<1>5. ASSUME NEW k, NEW i, NEW new, listings' = [listings EXCEPT ![k][i] = new],
             k = kind /\ i = id =>
               new.expired_timestamp = listings[k][i].expired_timestamp
      PROVE  Kept
  <2>1. listings'[kind] = IF k = kind
                          THEN [listings[kind] EXCEPT ![i] = new]
                          ELSE listings[kind]
    BY <1>1, <1>5 DEF ListingsOK
  <2> QED BY <1>2, <1>5, <2>1
<1>6. ASSUME NEW c \in Creators, ClaimRevenue(c) PROVE Kept
  <2> DEFINE new == [listings[wish[c].kind][tx[c].id] EXCEPT !.claimed = TRUE]
  <2>1. listings' = [listings EXCEPT ![wish[c].kind][tx[c].id] = new]
    BY <1>6 DEF ClaimRevenue
  <2>2. wish[c].kind = kind /\ tx[c].id = id =>
          new.expired_timestamp = listings[kind][id].expired_timestamp
    BY <1>1 DEF ListingRecord
  <2> HIDE DEF new
  <2> QED BY <1>5, <2>1, <2>2
<1>7. ASSUME NEW i \in DOMAIN listings["auction"], MakeBid(i) PROVE Kept
  <2>1. ~(kind = "auction" /\ i = id)
    BY <1>7 DEF MakeBid
  <2>2. PICK new : listings' = [listings EXCEPT !["auction"][i] = new]
    <3> DEFINE end == IF Now > listings["auction"][i].expired_timestamp
                                 - ExtendMinutes
                      THEN Now + ExtendMinutes
                      ELSE listings["auction"][i].expired_timestamp
    <3>1. listings["auction"][i] \in ListingRecord
      BY <1>1, ListingOK DEF Kinds
    <3>2. PICK e \in Earnings("auction") : listings' =
            [listings EXCEPT !["auction"][i].filled = TRUE,
                             !["auction"][i].escrow = e,
                             !["auction"][i].expired_timestamp = end]
      BY <1>1, <1>7, <3>1 DEF MakeBid, ListingsOK, ListingRecord, Kinds
    <3> HIDE DEF end
    <3> DEFINE new == [listings["auction"][i] EXCEPT !.filled = TRUE,
                         !.escrow = e, !.expired_timestamp = end]
    <3>3. listings' = [listings EXCEPT !["auction"][i] = new]
      BY <1>1, <3>1, <3>2 DEF ListingsOK, ListingRecord, Kinds
    <3> QED BY <3>3
  <2> QED BY <1>5, <2>1, <2>2
<1>8. ASSUME NEW i \in DOMAIN listings["raffle"], MakeRaffle(i) PROVE Kept
  <2>3. PICK e \in Earnings("raffle") :
          listings' = [listings EXCEPT !["raffle"][i].filled = TRUE,
                                       !["raffle"][i].escrow = e]
    BY <1>8 DEF MakeRaffle
  <2> DEFINE new == [listings["raffle"][i] EXCEPT !.filled = TRUE, !.escrow = e]
  <2>4. listings["raffle"][i] \in ListingRecord
    BY <1>1, ListingOK DEF Kinds
  <2>1. listings' = [listings EXCEPT !["raffle"][i] = new]
    BY <1>1, <2>3, <2>4 DEF ListingsOK, ListingRecord, Kinds
  <2>2. "raffle" = kind /\ i = id =>
          new.expired_timestamp = listings[kind][id].expired_timestamp
    BY <1>1 DEF ListingRecord
  <2> HIDE DEF new
  <2> QED BY <1>5, <2>1, <2>2
<1>9. ASSUME NEW i \in DOMAIN listings["auction"], Deposit(i) PROVE Kept
  <2> DEFINE new == [listings["auction"][i] EXCEPT !.escrow = "more"]
  <2>1. listings' = [listings EXCEPT !["auction"][i] = new]
    BY <1>9 DEF Deposit
  <2>2. "auction" = kind /\ i = id =>
          new.expired_timestamp = listings[kind][id].expired_timestamp
    BY <1>1 DEF ListingRecord
  <2> HIDE DEF new
  <2> QED BY <1>5, <2>1, <2>2
<1> QED
  BY <1>3, <1>4, <1>6, <1>7, <1>8, <1>9
  DEF Next, vars, listVars, InitJustiesProgram, UpdateConfigs,
      SetMockTimestamp, SendCurrencyToken, SendNftCollection, SendCreation,
      SendClaim, Send, AddCurrencyToken, AddNftCollection, Drop,
      Deposit, Prefund,
         CreateTreasuryAccount, Tick

(* EndedStaysEnded: in production the clock is the cluster's, which no      *)
(* update changes and no mock timestamp, and a bid needs an auction that    *)
(* has not ended.                                                           *)
THEOREM EndsStay == Spec => EndedStaysEnded
<1>1. FInv /\ [Next]_vars =>
        (~cfg.is_test_environment =>
           \A kind \in Kinds : \A id \in DOMAIN listings[kind] :
             IsEnded(listings[kind][id]) => IsEnded(listings[kind][id])')
  <2> SUFFICES ASSUME FInv, [Next]_vars, ~cfg.is_test_environment,
                      NEW kind \in Kinds, NEW id \in DOMAIN listings[kind],
                      IsEnded(listings[kind][id])
               PROVE  IsEnded(listings[kind][id])'
    OBVIOUS
  <2>1. authority # Nobody
    <3>1. 0..(0 - 1) = {}
      OBVIOUS
    <3>2. DOMAIN listings[kind] = 0..(total[kind] - 1)
      BY DEF FInv, TInv, TypeInv, ListingsOK
    <3> QED BY <3>1, <3>2 DEF FInv, Fresh
  <2>2. ~cfg'.is_test_environment
    BY <2>1, EnvironmentStays
  <2>3. Now = clock /\ Now' = clock'
    BY <2>2 DEF Now
  <2>4. clock' \in Nat /\ clock \in Nat /\ clock' >= clock
    <3>1. clock \in Nat
      BY DEF FInv, TInv, TypeInv
    <3>2. clock' = clock \/ clock' = clock + 1
      BY DEF Next, vars, adminVars, InitJustiesProgram, UpdateConfigs,
         SetMockTimestamp, SendCurrencyToken, SendNftCollection, SendCreation,
         SendClaim, Send, AddCurrencyToken, AddNftCollection, Create,
         ClaimRevenue, Drop, MakeBid, MakeRaffle, Deposit, Prefund,
         CreateTreasuryAccount, Tick
    <3> QED BY <3>1, <3>2
  <2>5. listings'[kind][id].expired_timestamp
          = listings[kind][id].expired_timestamp
    BY EndMovesByBid DEF FInv
  <2>6. listings[kind][id].expired_timestamp \in Nat
    BY ListingOK DEF FInv, TInv, TypeInv, ListingRecord
  <2> QED BY <2>3, <2>4, <2>5, <2>6 DEF IsEnded
<1> QED BY <1>1, FInvInit, FInvStep, PTL DEF Spec, EndedStaysEnded
-----------------------------------------------------------------------------
(* Pages f of size K hold t keys of S, one page after the other.            *)
Paged(f, t, K, S) ==
  /\ f = [p \in DOMAIN f |-> f[p]]
  /\ \A p : p \in DOMAIN f <=>
       p \in Nat /\ (p < t \div K \/ (p = t \div K /\ t % K # 0))
  /\ \A p \in DOMAIN f :
       f[p] \in Seq(S) /\ Len(f[p]) = IF p < t \div K THEN K ELSE t % K

(* Where the client's arithmetic looks for key number k. *)
KeyRead(f, k, K) == f[k \div K][(k % K) + 1]

LEMMA KeyIsPaged ==
  ASSUME NEW f, NEW t \in Nat, NEW K \in Nat \ {0}, NEW S, Paged(f, t, K, S),
         NEW k \in 0..(t - 1)
  PROVE  /\ k \div K \in DOMAIN f
         /\ k % K \in Nat
         /\ k % K < Len(f[k \div K])
<1> DEFINE p == k \div K  r == k % K  q == t \div K  s == t % K
<1>1. k \in Nat /\ k < t
  OBVIOUS
<1>2. p \in Nat /\ q \in Nat /\ r \in 0..(K - 1) /\ s \in 0..(K - 1)
  BY <1>1, DivMod
<1>3. p < q \/ (p = q /\ r < s)
  BY <1>1, PlaceMonotone
<1>4. /\ p \in DOMAIN f <=> p < q \/ (p = q /\ s # 0)
      /\ p \in DOMAIN f => Len(f[p]) = IF p < q THEN K ELSE s
  BY <1>2 DEF Paged
<1> HIDE DEF p, r, q, s
<1>5. p \in DOMAIN f /\ r \in Nat /\ r < Len(f[p])
  BY <1>2, <1>3, <1>4
<1> QED BY <1>5 DEF p, r

(* Pages h hold one key more than f, behind the others. *)
OneMore(h, f, t, K, S, key) ==
  /\ Paged(h, t + 1, K, S)
  /\ KeyRead(h, t, K) = key
  /\ \A k \in 0..(t - 1) : KeyRead(h, k, K) = KeyRead(f, k, K)

(* index_pubkey puts a key after the others and moves none, whether the     *)
(* page exists or is made.                                                  *)
LEMMA PagedAppend ==
  ASSUME NEW f, NEW t \in Nat, NEW K \in Nat \ {0}, NEW S, Paged(f, t, K, S),
         NEW key \in S, NEW h, h = Indexed(f, t \div K, key)
  PROVE  OneMore(h, f, t, K, S, key)
<1> DEFINE q == t \div K  s == t % K  g == h
           q1 == (t + 1) \div K  s1 == (t + 1) % K
<1>1. q \in Nat /\ s \in 0..(K - 1)
  BY DivMod
<1>2. /\ \A p : p \in DOMAIN f <=> p \in Nat /\ (p < q \/ (p = q /\ s # 0))
      /\ \A p \in DOMAIN f :
           f[p] \in Seq(S) /\ Len(f[p]) = IF p < q THEN K ELSE s
  BY DEF Paged
<1>3. IF s + 1 < K THEN q1 = q /\ s1 = s + 1
                   ELSE s + 1 = K /\ q1 = q + 1 /\ s1 = 0
  BY PlaceOfNext
<1>4. KeyRead(g, t, K) = g[q][s + 1]
  BY DEF KeyRead
<1>5. ASSUME NEW k \in 0..(t - 1)
      PROVE  /\ KeyRead(g, k, K) = g[k \div K][(k % K) + 1]
             /\ KeyRead(f, k, K) = f[k \div K][(k % K) + 1]
             /\ k \div K \in DOMAIN f /\ k % K \in Nat
             /\ k % K < Len(f[k \div K])
  BY KeyIsPaged DEF KeyRead
<1> HIDE DEF q, s, q1, s1
<1>6. g = [p \in DOMAIN f \cup {q} |->
             IF p # q THEN f[p]
             ELSE IF q \in DOMAIN f THEN Append(f[q], key) ELSE <<key>>]
  BY DEF Indexed, q
<1> HIDE DEF g
<1>7. DOMAIN g = DOMAIN f \cup {q} /\ g = [p \in DOMAIN g |-> g[p]]
  BY <1>6
<1>8. \A p \in DOMAIN f : p # q => g[p] = f[p]
  BY <1>6
<1>9. /\ g[q] \in Seq(S) /\ Len(g[q]) = s + 1 /\ g[q][s + 1] = key
      /\ q \in DOMAIN f => \A j \in 1..s : g[q][j] = f[q][j]
  <2>1. CASE q \in DOMAIN f
    <3>1. g[q] = Append(f[q], key)
      BY <1>6, <2>1
    <3>2. f[q] \in Seq(S) /\ Len(f[q]) = s
      BY <1>1, <1>2, <2>1
    <3> QED BY <1>1, <3>1, <3>2
  <2>2. CASE q \notin DOMAIN f
    <3>1. g[q] = <<key>>
      BY <1>6, <2>2
    <3>2. s = 0
      BY <1>1, <1>2, <2>2
    <3> QED BY <2>2, <3>1, <3>2
  <2> QED BY <2>1, <2>2
<1>10. \A p : p \in DOMAIN g <=>
         p \in Nat /\ (p < q1 \/ (p = q1 /\ s1 # 0))
  BY <1>1, <1>2, <1>3, <1>7
<1>11. \A p \in DOMAIN g :
         g[p] \in Seq(S) /\ Len(g[p]) = IF p < q1 THEN K ELSE s1
  <2> TAKE p \in DOMAIN g
  <2>1. CASE p = q
    BY <1>1, <1>3, <1>9, <2>1
  <2>2. CASE p # q
    <3>1. p \in DOMAIN f /\ g[p] = f[p]
      BY <1>7, <1>8, <2>2
    <3>2. p < q /\ q \in Nat /\ p \in Nat
      BY <1>1, <1>2, <2>2, <3>1
    <3>3. p < q1
      BY <1>1, <1>3, <3>2
    <3> QED BY <1>2, <3>1, <3>2, <3>3
  <2> QED BY <2>1, <2>2
<1>12. Paged(g, t + 1, K, S)
  BY <1>7, <1>10, <1>11 DEF Paged, q1, s1
<1>13. ASSUME NEW k \in 0..(t - 1) PROVE KeyRead(g, k, K) = KeyRead(f, k, K)
  <2> DEFINE p == k \div K  r == k % K
  <2>1. /\ KeyRead(g, k, K) = g[p][r + 1] /\ KeyRead(f, k, K) = f[p][r + 1]
        /\ p \in DOMAIN f /\ r \in Nat /\ r < Len(f[p])
    BY <1>5
  <2> HIDE DEF p, r
  <2>2. CASE p = q
    <3>1. Len(f[q]) = s
      BY <1>1, <1>2, <2>1, <2>2
    <3>2. r + 1 \in 1..s
      BY <1>1, <2>1, <2>2, <3>1
    <3> QED BY <1>9, <2>1, <2>2, <3>2
  <2>3. CASE p # q
    BY <1>8, <2>1, <2>3
  <2> QED BY <2>2, <2>3
<1> QED BY <1>4, <1>9, <1>12, <1>13 DEF OneMore, g, q

Keys == Currencies \cup Collections

(* A list of t keys in pages f of size K, of which the set is A. *)
IsPagedList(f, t, K, A) ==
  /\ Paged(f, t, K, Keys)
  /\ {KeyRead(f, k, K) : k \in 0..(t - 1)} = A
  /\ IsFiniteSet(A)
  /\ Cardinality(A) = t

AllowlistsInv ==
  ~cfg.is_test_environment =>
    \A list \in Lists :
      IsPagedList(index[list], total_allowed[list],
                  cfg.num_keys_per_index_page, allowed[list])

AInv == FInv /\ AllowlistsInv

LEMMA NothingPaged ==
  ASSUME NEW K \in Nat \ {0}
  PROVE  IsPagedList(<<>>, 0, K, {})
<1>1. 0 \div K = 0 /\ 0 % K = 0
  <2>1. /\ 0 \div K \in Nat /\ 0 \div K <= 0
        /\ 0 = (K * (0 \div K)) + (0 % K) /\ 0 % K \in 0..(K - 1)
    BY DivMod
  <2>2. 0 \div K = 0
    BY <2>1
  <2>3. K * 0 = 0
    OBVIOUS
  <2> QED BY <2>1, <2>2, <2>3
<1>2. DOMAIN <<>> = {} /\ <<>> = [p \in DOMAIN <<>> |-> <<>>[p]]
  OBVIOUS
<1>3. Paged(<<>>, 0, K, Keys)
  BY <1>1, <1>2 DEF Paged
<1>4. 0..(0 - 1) = {}
  OBVIOUS
<1> QED BY <1>3, <1>4, FS_EmptySet DEF IsPagedList

LEMMA AnotherPaged ==
  ASSUME NEW f, NEW t \in Nat, NEW K \in Nat \ {0}, NEW A,
         IsPagedList(f, t, K, A), NEW key \in Keys, key \notin A
  PROVE  IsPagedList(Indexed(f, t \div K, key), t + 1, K, A \cup {key})
<1> DEFINE g == Indexed(f, t \div K, key)
<1>1. OneMore(g, f, t, K, Keys, key)
  BY PagedAppend DEF IsPagedList
<1> HIDE DEF g
<1>2. 0..((t + 1) - 1) = 0..(t - 1) \cup {t}
  OBVIOUS
<1>3. {KeyRead(g, k, K) : k \in 0..((t + 1) - 1)}
        = {KeyRead(f, k, K) : k \in 0..(t - 1)} \cup {key}
  BY <1>1, <1>2 DEF OneMore
<1>4. IsFiniteSet(A \cup {key}) /\ Cardinality(A \cup {key}) = t + 1
  BY FS_AddElement DEF IsPagedList
<1> QED BY <1>1, <1>3, <1>4 DEF OneMore, IsPagedList, g

LEMMA AllowStep ==
  ASSUME AInv, NEW list \in Lists, NEW key \in Keys, NEW page,
         Allow(list, key, page), UNCHANGED cfg
  PROVE  AllowlistsInv'
<1> SUFFICES ASSUME ~cfg.is_test_environment, NEW other \in Lists
             PROVE  IsPagedList(index'[other], total_allowed'[other],
                                cfg.num_keys_per_index_page, allowed'[other])
  BY DEF AllowlistsInv
<1> DEFINE K == cfg.num_keys_per_index_page  t == total_allowed[list]
<1>1. K \in Nat \ {0} /\ t \in Nat
  BY CurrentPageOK DEF AInv, FInv, TInv
<1>2. \A l \in Lists :
        IsPagedList(index[l], total_allowed[l], K, allowed[l])
  BY DEF AInv, AllowlistsInv
<1>3. AllowOK
  BY DEF AInv, FInv, TInv, TypeInv
<1>4. CASE other = list
  <2>1. /\ index'[list] = Indexed(index[list], t \div K, key)
        /\ total_allowed'[list] = t + 1
        /\ allowed'[list] = allowed[list] \cup {key}
        /\ key \notin allowed[list]
    BY <1>3 DEF Allow, AllowOK, CurrentPage, PageId
  <2>2. IsPagedList(index[list], t, K, allowed[list])
    BY <1>2
  <2> HIDE DEF K, t
  <2>3. IsPagedList(Indexed(index[list], t \div K, key), t + 1, K,
                    allowed[list] \cup {key})
    BY <1>1, <2>1, <2>2, AnotherPaged
  <2> QED BY <1>4, <2>1, <2>3 DEF K
<1>5. CASE other # list
  <2>1. /\ index'[other] = index[other]
        /\ total_allowed'[other] = total_allowed[other]
        /\ allowed'[other] = allowed[other]
    BY <1>3, <1>5 DEF Allow, AllowOK
  <2> QED BY <1>2, <2>1
<1> QED BY <1>4, <1>5

LEMMA AInvStep == AInv /\ [Next]_vars => AInv'
<1> SUFFICES ASSUME AInv, [Next]_vars PROVE AllowlistsInv'
  BY FInvStep DEF AInv
<1>1. FInv /\ TInv /\ AllowlistsInv /\ FInv'
  BY FInvStep DEF AInv, FInv
<1>2. Creators \subseteq Clients /\ Curators \subseteq Clients
  BY DEF Clients
<1>3. CASE authority = Nobody
  <2>1. CASE UNCHANGED <<total_allowed, allowed, index>>
    <3>1. \A list \in Lists : /\ index'[list] = <<>> /\ allowed'[list] = {}
                              /\ total_allowed'[list] = 0
      BY <1>1, <1>3, <2>1 DEF FInv, Fresh
    <3>2. cfg'.num_keys_per_index_page \in Nat \ {0}
      BY <1>1 DEF FInv, TInv, TypeInv, AdminOK, ConfigRecord
    <3> QED BY <3>1, <3>2, NothingPaged DEF AllowlistsInv
  <2>2. ASSUME NEW c \in Curators PROVE ~AddCurrencyToken(c) /\ ~AddNftCollection(c)
    BY <1>1, <1>2, <1>3 DEF AddCurrencyToken, AddNftCollection, FInv, Fresh,
                            NoTransaction
  <2> QED BY <2>1, <2>2
      DEF Next, vars, allowVars, InitJustiesProgram, UpdateConfigs,
          SetMockTimestamp, SendCurrencyToken, SendNftCollection, SendCreation,
          SendClaim, Send, Create, ClaimRevenue, Drop, MakeBid, MakeRaffle,
          Deposit, Prefund,
         CreateTreasuryAccount, Tick
<1>4. CASE authority # Nobody
  <2>1. CASE UNCHANGED <<total_allowed, allowed, index>>
    BY <1>1, <1>4, <2>1, EnvironmentStays DEF AllowlistsInv
  <2>2. ASSUME NEW c \in Curators, AddCurrencyToken(c) PROVE AllowlistsInv'
    <3>1. tx[c].key \in Keys
      BY <1>1, <1>2, <2>2, SentOK DEF AddCurrencyToken, Keys
    <3> QED BY <2>2, <3>1, AllowStep DEF AddCurrencyToken, Lists, adminVars
  <2>3. ASSUME NEW c \in Curators, AddNftCollection(c) PROVE AllowlistsInv'
    <3>1. tx[c].key \in Keys
      BY <1>1, <1>2, <2>3, SentOK DEF AddNftCollection, Keys
    <3> QED BY <2>3, <3>1, AllowStep DEF AddNftCollection, Lists, adminVars
  <2> QED BY <2>1, <2>2, <2>3
      DEF Next, vars, allowVars, InitJustiesProgram, UpdateConfigs,
          SetMockTimestamp, SendCurrencyToken, SendNftCollection, SendCreation,
          SendClaim, Send, Create, ClaimRevenue, Drop, MakeBid, MakeRaffle,
          Deposit, Prefund,
         CreateTreasuryAccount, Tick
<1> QED BY <1>3, <1>4

LEMMA AInvInit == Init => AInv
<1> SUFFICES ASSUME Init PROVE AllowlistsInv
  BY FInvInit DEF AInv
<1>1. cfg.num_keys_per_index_page \in Nat \ {0}
  BY ConfigAssumption DEF Init, ConfigRecord
<1> QED BY <1>1, NothingPaged DEF Init, AllowlistsInv, Lists

THEOREM Invariance == Spec => []AInv
BY AInvInit, AInvStep, PTL DEF Spec

(* AllowlistsIterable: in production every addition that lands puts its key *)
(* behind the others, whatever page a client named, in pages whose size     *)
(* nothing changes; so the client's arithmetic finds every key, each once.  *)
THEOREM AllowlistsRead == Spec => []AllowlistsIterable
<1>1. AInv => AllowlistsIterable
  <2> SUFFICES ASSUME AInv, ~cfg.is_test_environment, NEW list \in Lists
      PROVE  LET size == cfg.num_keys_per_index_page
                 f == index[list]
                 t == total_allowed[list]
             IN /\ \A k \in 0..(t - 1) :
                     k \div size \in DOMAIN f /\ k % size < Len(f[k \div size])
                /\ {f[k \div size][(k % size) + 1] : k \in 0..(t - 1)}
                     = allowed[list]
                /\ Cardinality(allowed[list]) = t
    BY DEF AllowlistsIterable
  <2> DEFINE size == cfg.num_keys_per_index_page  f == index[list]
             t == total_allowed[list]
  <2>1. IsPagedList(f, t, size, allowed[list])
    BY DEF AInv, AllowlistsInv
  <2>2. size \in Nat \ {0} /\ t \in Nat
    BY CurrentPageOK DEF AInv, FInv, TInv
  <2> HIDE DEF size, f, t
  <2>3. \A k \in 0..(t - 1) :
          k \div size \in DOMAIN f /\ k % size < Len(f[k \div size])
    BY <2>1, <2>2, KeyIsPaged DEF IsPagedList
  <2> QED BY <2>1, <2>3 DEF IsPagedList, KeyRead, size, f, t
<1> QED BY <1>1, Invariance, PTL
=============================================================================
