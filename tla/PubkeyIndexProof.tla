-------------------------- MODULE PubkeyIndexProof --------------------------
(***************************************************************************)
(* What holds of the paged index for every number of bidders and every     *)
(* page size: the pages are filled without gaps, hold the key of every bid *)
(* account once, and a reader that fetches them one by one finds them all. *)
(***************************************************************************)
EXTENDS PubkeyIndex, ArithmeticProof
-----------------------------------------------------------------------------
(* Type correctness, of production and test environment, joined with what   *)
(* it needs: bids are counted once per bidder, and a reader counted no more *)
(* than there are.                                                          *)
CountInv ==
  /\ TypeOK
  /\ total_bids = Cardinality(initialized)
  /\ Len(reader.yielded) <= reader.total

(* N bidders are all there are. *)
LEMMA CountBound ==
  /\ Cardinality(Bidders) \in Nat
  /\ \A S \in SUBSET Bidders :
       /\ IsFiniteSet(S)
       /\ Cardinality(S) \in Nat
       /\ Cardinality(S) <= Cardinality(Bidders)
BY PageSizesAssumption, FS_CardinalityType, FS_Subset

LEMMA AnotherCounted ==
  ASSUME NEW S \in SUBSET Bidders, NEW b \in Bidders \ S
  PROVE  Cardinality(S \cup {b}) = Cardinality(S) + 1
BY CountBound, FS_AddElement

LEMMA SizePositive ==
  ASSUME NEW k \in PageSizes \cup {KeysPerPage, 1}
  PROVE  k \in Nat \ {0}
BY PageSizesAssumption

(* The sizes a page may have leave every bid in one of the pages. *)
LEMMA PageInRange ==
  ASSUME NEW t \in 0..Cardinality(Bidders),
         NEW k \in PageSizes \cup {KeysPerPage, 1}
  PROVE  t \div k \in PageIds /\ t \div k \in 0..Cardinality(Bidders)
<1>1. k \in Nat \ {0}
  BY SizePositive
<1>2. t \in Nat
  BY CountBound
<1>3. t \div k \in Nat /\ t \div k <= t
  BY <1>1, <1>2, DivMod
<1> QED BY <1>2, <1>3, CountBound DEF PageIds

LEMMA CountInit == Init => CountInv
<1> SUFFICES ASSUME Init PROVE CountInv
  OBVIOUS
<1>1. TypeOK
  BY CountBound, FS_EmptySet DEF Init, TypeOK, Idle, NotReading
<1>2. total_bids = Cardinality(initialized)
  BY FS_EmptySet DEF Init
<1> QED BY <1>1, <1>2 DEF CountInv, Init, NotReading
ClientStates ==
  [at: {"idle", "fetched", "sent"}, value: 0..Cardinality(Bidders)]

(* What a client does by itself. *)
LEMMA ClientStep ==
  ASSUME CountInv, NEW b \in Bidders, NEW c \in ClientStates,
         client' = [client EXCEPT ![b] = c], UNCHANGED <<programVars, reader>>
  PROVE  CountInv'
<1>1. client' \in [Bidders -> ClientStates]
  BY DEF CountInv, TypeOK, ClientStates
<1> QED BY <1>1 DEF CountInv, TypeOK, ClientStates, programVars

(* The transaction lands and indexes a bidder, or finds one indexed.        *)
LEMMA CountLand ==
  ASSUME CountInv, NEW b \in Bidders, Land(b)
  PROVE  CountInv'
<1> USE DEF CountInv
<1>1. CASE NewlyInitialized(b)
  <2>1. /\ initialized' = initialized \cup {b}
        /\ keys' = [keys EXCEPT ![PageId] = Append(@, b)]
        /\ total_bids' = total_bids + 1
        /\ client' = [client EXCEPT ![b] = Idle]
        /\ UNCHANGED <<is_test_environment, num_keys_per_index_page, prefunded,
                       reader>>
    BY <1>1 DEF Land
  <2>2. b \in Bidders \ initialized /\ initialized \in SUBSET Bidders
    BY <1>1 DEF TypeOK, NewlyInitialized
  <2>3. total_bids' = Cardinality(initialized')
    BY <2>1, <2>2, AnotherCounted
  <2>4. initialized' \in SUBSET Bidders
    BY <2>1, <2>2
  <2>5. total_bids' \in 0..Cardinality(Bidders)
    BY <2>3, <2>4, CountBound
  <2>6. PageId \in PageIds
    BY PageInRange DEF TypeOK, PageId
  <2>7. keys' \in [PageIds -> Seq(Bidders)]
    BY <2>1, <2>6 DEF TypeOK
  <2>8. client' \in [Bidders -> [at: {"idle", "fetched", "sent"},
                                 value: 0..Cardinality(Bidders)]]
    BY <2>1, CountBound DEF TypeOK, Idle
  <2> QED BY <2>1, <2>3, <2>4, <2>5, <2>7, <2>8 DEF TypeOK
<1>2. CASE ~NewlyInitialized(b)
  BY <1>2, CountBound DEF Land, TypeOK, Idle
<1> QED BY <1>1, <1>2

(* A turn of the reader's loop: the page it fetches is one of the index's.  *)
LEMMA CountRead ==
  ASSUME CountInv, ReadKey
  PROVE  CountInv'
<1> USE DEF CountInv
<1> DEFINE idx == Len(reader.yielded)
           page == IF FetchesPage(idx, reader.size)
                   THEN keys[idx \div reader.size] ELSE reader.page
           place == (idx % reader.size) + 1
<1>1. /\ reader.total \in 0..Cardinality(Bidders)
      /\ reader.size \in PageSizes \cup {KeysPerPage, 1}
      /\ reader.page \in Seq(Bidders)
      /\ reader.yielded \in Seq(Bidders)
  BY DEF TypeOK
<1>2. idx \in 0..Cardinality(Bidders) /\ idx < reader.total
  BY <1>1, CountBound DEF ReadKey
<1>3. idx \div reader.size \in PageIds
  BY <1>1, <1>2, PageInRange
<1>4. page \in Seq(Bidders)
  BY <1>1, <1>3 DEF TypeOK
<1>5. reader.size \in Nat \ {0}
  BY <1>1, SizePositive
<1>6. idx % reader.size \in 0..(reader.size - 1)
  <2> DEFINE k == reader.size
  <2>1. idx \in Nat /\ k \in Nat \ {0}
    BY <1>2, <1>5, CountBound
  <2> HIDE DEF idx, k
  <2>2. idx % k \in 0..(k - 1)
    BY <2>1, DivMod
  <2> QED BY <2>2 DEF k
<1>7. place \in Nat \ {0}
  BY <1>5, <1>6
<1>8. CASE place <= Len(page)
  <2>1. page[place] \in Bidders
    BY <1>4, <1>7, <1>8
  <2>2. reader' = [reader EXCEPT !.page = page,
                                 !.yielded = Append(@, page[place])]
    BY <1>8 DEF ReadKey
  <2>3. /\ Append(reader.yielded, page[place]) \in Seq(Bidders)
        /\ Len(Append(reader.yielded, page[place])) = idx + 1
    BY <1>1, <2>1
  <2> HIDE DEF page, place, idx
  <2>4. /\ reader' \in
             [at: {"idle", "counted", "reading", "failed"},
              total: 0..Cardinality(Bidders),
              size: PageSizes \cup {KeysPerPage, 1},
              page: Seq(Bidders), yielded: Seq(Bidders)]
        /\ Len(reader'.yielded) = idx + 1
        /\ reader'.total = reader.total
    BY <1>4, <2>2, <2>3 DEF TypeOK
  <2>5. Len(reader'.yielded) <= reader'.total
    BY <1>1, <1>2, <2>4
  <2> QED BY <2>4, <2>5 DEF TypeOK, ReadKey, programVars
<1>9. CASE ~(place <= Len(page))
  <2>1. reader' = [reader EXCEPT !.at = "failed"]
    BY <1>9 DEF ReadKey
  <2> QED BY <2>1 DEF TypeOK, ReadKey, programVars
<1> QED BY <1>8, <1>9

LEMMA CountStep == CountInv /\ [Next]_vars => CountInv'
<1> SUFFICES ASSUME CountInv, [Next]_vars PROVE CountInv'
  OBVIOUS
<1> USE DEF CountInv
<1>1. ASSUME NEW b \in Bidders, FetchAuction(b) PROVE CountInv'
  <2>1. Fetched(total_bids) \in ClientStates
    BY DEF Fetched, TypeOK, ClientStates
  <2> QED BY <1>1, <2>1, ClientStep DEF FetchAuction
<1>2. ASSUME NEW b \in Bidders, Send(b) PROVE CountInv'
  <2>1. client[b].value \div num_keys_per_index_page \in 0..Cardinality(Bidders)
    BY PageInRange DEF TypeOK
  <2>2. Sent(client[b].value \div num_keys_per_index_page) \in ClientStates
    BY <2>1 DEF Sent, ClientStates
  <2> QED BY <1>2, <2>2, ClientStep DEF Send
<1>3. ASSUME NEW b \in Bidders, Land(b) PROVE CountInv'
  BY <1>3, CountLand
<1>4. ASSUME NEW b \in Bidders, Refuse(b) \/ Abort(b) \/ Lose(b)
      PROVE  CountInv'
  <2>1. Idle \in ClientStates
    BY CountBound DEF Idle, ClientStates
  <2> QED BY <1>4, <2>1, ClientStep DEF Refuse, Abort, Lose
<1>5. ASSUME NEW size \in PageSizes, UpdateConfigs(size) PROVE CountInv'
  <2>1. num_keys_per_index_page' \in PageSizes \cup {KeysPerPage}
    BY <1>5 DEF UpdateConfigs
  <2> QED BY <1>5, <2>1 DEF UpdateConfigs, TypeOK
<1>6. CASE StartReading
  <2>1. reader' = [NotReading EXCEPT !.at = "counted", !.total = total_bids]
    BY <1>6 DEF StartReading
  <2>2. reader' = [at |-> "counted", total |-> total_bids, size |-> 1,
                   page |-> <<>>, yielded |-> <<>>]
    BY <2>1 DEF NotReading
  <2>3. Len(reader'.yielded) <= reader'.total
    BY <2>2, CountBound DEF TypeOK
  <2> QED BY <1>6, <2>2, <2>3 DEF StartReading, TypeOK, programVars
<1>7. CASE FetchGlobalStates
  BY <1>7 DEF FetchGlobalStates, TypeOK, programVars
<1>8. CASE ReadKey
  BY <1>8, CountRead
<1>9. CASE StopReading
  BY <1>9, CountBound DEF StopReading, NotReading, TypeOK, programVars
<1>10. ASSUME NEW p \in PageIds, Prefund(p) PROVE CountInv'
  BY <1>10 DEF Prefund, TypeOK
<1>11. CASE UNCHANGED vars
  BY <1>11 DEF vars, programVars, TypeOK
<1> QED
  BY <1>1, <1>2, <1>3, <1>4, <1>5, <1>6, <1>7, <1>8, <1>9, <1>10, <1>11 DEF Next

(* TypeOK: whatever page size is set while clients and a reader are under   *)
(* way, a page that is named, filled or read is one of the index's.         *)
THEOREM TypeCorrect == Spec => []TypeOK
<1>1. CountInv => TypeOK
  BY DEF CountInv
<1> QED BY <1>1, CountInit, CountStep, PTL DEF Spec
-----------------------------------------------------------------------------
(* In production: the page size is the program's, page after page is filled *)
(* up to where the count says, and the keys in them are those indexed.      *)
PagesInv ==
  ~is_test_environment =>
    /\ num_keys_per_index_page = KeysPerPage
    /\ \A p \in PageIds :
         Len(keys[p]) = IF p < PageId THEN KeysPerPage
                        ELSE IF p = PageId THEN total_bids % KeysPerPage ELSE 0
    /\ {KeyAt(i) : i \in 0..(total_bids - 1)} = initialized

(* What the reader has fetched agrees with the index where it will look:    *)
(* the rest of the bids it counted that are in the page it holds.           *)
ReaderInv ==
  ~is_test_environment =>
    /\ reader.at # "failed"
    /\ reader.at \in {"idle", "counted"} => reader.yielded = <<>>
    /\ reader.at # "idle" => reader.total <= total_bids
    /\ reader.at = "reading" => reader.size = KeysPerPage
    /\ \A i \in 1..Len(reader.yielded) : reader.yielded[i] = KeyAt(i - 1)
    /\ reader.at = "reading" =>
         \A i \in Len(reader.yielded)..(reader.total - 1) :
           /\ Len(reader.yielded) % KeysPerPage # 0
           /\ i \div KeysPerPage = Len(reader.yielded) \div KeysPerPage
           => /\ i % KeysPerPage < Len(reader.page)
              /\ reader.page[(i % KeysPerPage) + 1] = KeyAt(i)

IInv == CountInv /\ PagesInv /\ ReaderInv

(* The key of a bid that was counted is where the arithmetic looks for it. *)
LEMMA KeyIsThere ==
  ASSUME CountInv, PagesInv, ~is_test_environment,
         NEW i \in 0..(total_bids - 1)
  PROVE  /\ i \div KeysPerPage \in PageIds
         /\ i % KeysPerPage \in Nat
         /\ i % KeysPerPage < Len(keys[i \div KeysPerPage])
         /\ KeyAt(i) \in Bidders
<1>1. /\ total_bids \in 0..Cardinality(Bidders)
      /\ i \in 0..Cardinality(Bidders) /\ i \in Nat /\ total_bids \in Nat
      /\ i < total_bids
  BY CountBound DEF CountInv, TypeOK
<1>2. KeysPerPage \in Nat \ {0} /\ num_keys_per_index_page = KeysPerPage
  BY PageSizesAssumption DEF PagesInv
<1>3. i \div KeysPerPage \in PageIds
  BY <1>1, PageInRange
<1>4. /\ i % KeysPerPage \in 0..(KeysPerPage - 1)
      /\ i \div KeysPerPage \in Nat
      /\ total_bids \div KeysPerPage \in Nat
  BY <1>1, <1>2, DivMod
<1>5. \/ i \div KeysPerPage < total_bids \div KeysPerPage
      \/ /\ i \div KeysPerPage = total_bids \div KeysPerPage
         /\ i % KeysPerPage < total_bids % KeysPerPage
  BY <1>1, <1>2, PlaceMonotone
<1> DEFINE p == i \div KeysPerPage  r == i % KeysPerPage
           q == total_bids \div KeysPerPage  s == total_bids % KeysPerPage
<1>6. Len(keys[p]) = IF p < q THEN KeysPerPage ELSE IF p = q THEN s ELSE 0
  BY <1>2, <1>3 DEF PagesInv, PageId
<1>7. keys[p] \in Seq(Bidders)
  BY <1>3 DEF CountInv, TypeOK
<1>8. KeyAt(i) = keys[p][r + 1]
  BY DEF KeyAt
<1> HIDE DEF p, r, q, s
<1>9. r < Len(keys[p])
  BY <1>2, <1>4, <1>5, <1>6 DEF p, r, q, s
<1>10. r + 1 \in 1..Len(keys[p])
  BY <1>4, <1>7, <1>9 DEF r
<1> QED BY <1>3, <1>4, <1>7, <1>8, <1>9, <1>10 DEF p, r

LEMMA ZeroPlace == 0 \div KeysPerPage = 0 /\ 0 % KeysPerPage = 0
<1>1. /\ 0 \div KeysPerPage \in Nat /\ 0 \div KeysPerPage <= 0
      /\ 0 = (KeysPerPage * (0 \div KeysPerPage)) + (0 % KeysPerPage)
      /\ 0 % KeysPerPage \in 0..(KeysPerPage - 1)
  BY PageSizesAssumption, DivMod
<1>2. 0 \div KeysPerPage = 0
  BY <1>1
<1>3. KeysPerPage * 0 = 0
  BY PageSizesAssumption
<1> QED BY <1>1, <1>2, <1>3

LEMMA PagesInit == Init => PagesInv /\ ReaderInv
<1> SUFFICES ASSUME Init PROVE PagesInv /\ ReaderInv
  OBVIOUS
<1>1. 0 \div KeysPerPage = 0 /\ 0 % KeysPerPage = 0
  BY ZeroPlace
<1>2. \A p \in PageIds : Len(keys[p]) = 0
  BY DEF Init
<1>3. PageId = 0
  BY <1>1 DEF Init, PageId
<1>4. PagesInv
  <2>1. \A p \in PageIds : p \in Nat
    BY CountBound DEF PageIds
  <2>2. 0..(0 - 1) = {}
    OBVIOUS
  <2>3. {KeyAt(i) : i \in 0..(total_bids - 1)} = {}
    BY <2>2 DEF Init
  <2>4. total_bids % KeysPerPage = 0
    BY <1>1 DEF Init
  <2> QED BY <1>2, <1>3, <2>1, <2>3, <2>4 DEF Init, PagesInv
<1>5. ReaderInv
  BY DEF Init, ReaderInv, NotReading
<1> QED BY <1>4, <1>5

(* A first bid puts its key after the others, and moves no other.           *)
LEMMA LandKeepsPages ==
  ASSUME CountInv, PagesInv, NEW b \in Bidders, Land(b), NewlyInitialized(b),
         ~is_test_environment
  PROVE  /\ PagesInv'
         /\ total_bids' = total_bids + 1
         /\ \A i \in 0..(total_bids - 1) : (KeyAt(i))' = KeyAt(i)
<1> DEFINE K == KeysPerPage  t == total_bids
           q == t \div K  s == t % K
<1>1. /\ initialized' = initialized \cup {b}
      /\ keys' = [keys EXCEPT ![PageId] = Append(@, b)]
      /\ total_bids' = t + 1
      /\ UNCHANGED <<is_test_environment, num_keys_per_index_page>>
  BY DEF Land
<1>2. /\ K \in Nat \ {0} /\ num_keys_per_index_page = K /\ PageId = q
      /\ t \in Nat /\ t \in 0..Cardinality(Bidders)
  BY PageSizesAssumption, CountBound DEF PagesInv, PageId, CountInv, TypeOK
<1>3. q \in PageIds /\ q \in Nat /\ s \in 0..(K - 1)
  BY <1>2, PageInRange, DivMod
<1>4. keys \in [PageIds -> Seq(Bidders)]
  BY DEF CountInv, TypeOK
<1>5. \A p \in PageIds :
        Len(keys[p]) = IF p < q THEN K ELSE IF p = q THEN s ELSE 0
  BY <1>2 DEF PagesInv
<1>6. Len(keys[q]) = s
  BY <1>3, <1>5
<1>7. /\ keys'[q] = Append(keys[q], b)
      /\ Len(keys'[q]) = s + 1
      /\ keys'[q][s + 1] = b
      /\ \A j \in 1..s : keys'[q][j] = keys[q][j]
      /\ \A p \in PageIds \ {q} : keys'[p] = keys[p]
  BY <1>1, <1>2, <1>3, <1>4, <1>6
<1>8. ASSUME NEW i \in 0..(t - 1) PROVE (KeyAt(i))' = KeyAt(i)
  <2>1. /\ i \div K \in PageIds /\ i % K \in Nat
        /\ i % K < Len(keys[i \div K])
    BY KeyIsThere
  <2>2. (KeyAt(i))' = keys'[i \div K][(i % K) + 1]
    BY DEF KeyAt
  <2>3. KeyAt(i) = keys[i \div K][(i % K) + 1]
    BY DEF KeyAt
  <2> DEFINE p == i \div K  r == i % K
  <2> HIDE DEF p, r, q, s
  <2>4. CASE p = q
    <3>1. r + 1 \in 1..s
      BY <1>3, <1>6, <2>1, <2>4 DEF p, r, s
    <3>2. keys'[p][r + 1] = keys[p][r + 1]
      BY <1>7, <2>4, <3>1
    <3> QED BY <2>2, <2>3, <3>2 DEF p, r
  <2>5. CASE p # q
    BY <1>7, <2>1, <2>2, <2>3, <2>5 DEF p, r
  <2> QED BY <2>4, <2>5
<1>9. {(KeyAt(i))' : i \in 0..t} = initialized'
  <2>1. {KeyAt(i) : i \in 0..(t - 1)} = initialized
    BY DEF PagesInv
  <2>2. \A i \in 0..t : (KeyAt(i))' = IF i = t THEN b ELSE KeyAt(i)
    <3> TAKE i \in 0..t
    <3>1. CASE i = t
      <4>1. (KeyAt(i))' = keys'[i \div K][(i % K) + 1]
        BY DEF KeyAt
      <4> QED BY <1>7, <3>1, <4>1
    <3>2. CASE i # t
      <4>1. i \in 0..(t - 1)
        BY <1>2, <3>2
      <4> QED BY <1>8, <3>2, <4>1
    <3> QED BY <3>1, <3>2
  <2>3. 0..t = 0..(t - 1) \cup {t} /\ t \notin 0..(t - 1)
    BY <1>2
  <2> HIDE DEF t
  <2>4. {(KeyAt(i))' : i \in 0..t} = {KeyAt(i) : i \in 0..(t - 1)} \cup {b}
    BY <2>2, <2>3
  <2> QED BY <1>1, <2>1, <2>4
<1>10. \A p \in PageIds :
         Len(keys'[p]) = IF p < (t + 1) \div K THEN K
                         ELSE IF p = (t + 1) \div K THEN (t + 1) % K ELSE 0
  <2>1. \A p \in PageIds : p \in Nat
    BY CountBound DEF PageIds
  <2> DEFINE q1 == (t + 1) \div K  s1 == (t + 1) % K
  <2>2. IF s + 1 < K THEN q1 = q /\ s1 = s + 1
                     ELSE s + 1 = K /\ q1 = q + 1 /\ s1 = 0
    BY <1>2, PlaceOfNext
  <2> HIDE DEF q, s, q1, s1, t, K
  <2>3. \A p \in PageIds :
          Len(keys'[p]) = IF p < q1 THEN K ELSE IF p = q1 THEN s1 ELSE 0
    BY <1>2, <1>3, <1>5, <1>7, <2>1, <2>2
  <2> QED BY <2>3 DEF q1, s1
<1>11. PageId' = (t + 1) \div K
  BY <1>1, <1>2 DEF PageId
<1>12. PagesInv'
  <2>1. (t + 1) - 1 = t
    BY <1>2
  <2>2. 0..(total_bids' - 1) = 0..t
    BY <1>1, <2>1
  <2>3. {(KeyAt(i))' : i \in 0..(total_bids' - 1)} = initialized'
    BY <1>9, <2>2
  <2> QED BY <1>1, <1>2, <1>10, <1>11, <2>3 DEF PagesInv
<1> QED BY <1>1, <1>8, <1>12

(* What the reader has, and has to find, stays as it was.                   *)
LEMMA LandKeepsReader ==
  ASSUME IInv, NEW b \in Bidders, Land(b), NewlyInitialized(b),
         ~is_test_environment
  PROVE  ReaderInv'
<1>1. /\ total_bids' = total_bids + 1
      /\ \A i \in 0..(total_bids - 1) : (KeyAt(i))' = KeyAt(i)
  BY LandKeepsPages DEF IInv
<1>2. reader' = reader /\ is_test_environment' = is_test_environment
  BY DEF Land
<1>3. ReaderInv /\ CountInv
  BY DEF IInv
<1>4. /\ total_bids \in Nat /\ reader.total \in Nat
      /\ reader.yielded \in Seq(Bidders)
      /\ Len(reader.yielded) \in Nat /\ Len(reader.yielded) <= reader.total
  BY <1>3, CountBound DEF CountInv, TypeOK
<1>5. CASE reader.at = "idle"
  BY <1>2, <1>3, <1>5 DEF ReaderInv
<1>6. CASE reader.at # "idle"
  <2>1. reader.total <= total_bids /\ reader.total <= total_bids'
    BY <1>1, <1>3, <1>4, <1>6 DEF ReaderInv
  <2>2. \A i \in 0..(reader.total - 1) : (KeyAt(i))' = KeyAt(i)
    BY <1>1, <1>4, <2>1
  <2>3. \A i \in 1..Len(reader.yielded) :
          reader.yielded[i] = (KeyAt(i - 1))'
    <3> TAKE i \in 1..Len(reader.yielded)
    <3>1. i - 1 \in 0..(reader.total - 1)
      BY <1>4
    <3> QED BY <1>3, <2>2, <3>1 DEF ReaderInv
  <2>4. \A i \in Len(reader.yielded)..(reader.total - 1) :
          (KeyAt(i))' = KeyAt(i)
    BY <1>4, <2>2
  <2> QED BY <1>2, <1>3, <2>1, <2>3, <2>4 DEF ReaderInv
<1> QED BY <1>5, <1>6

(* The page the reader holds, or fetches now, has the next key, and the     *)
(* rest of those it counted that are in this page.                          *)
LEMMA ReadKeepsReader ==
  ASSUME IInv, ReadKey, ~is_test_environment
  PROVE  ReaderInv'
<1> DEFINE K == KeysPerPage  n == Len(reader.yielded)  T == reader.total
           page == IF FetchesPage(n, K) THEN keys[n \div K] ELSE reader.page
           place == (n % K) + 1
<1>1. ReaderInv /\ CountInv /\ PagesInv
  BY DEF IInv
<1>2. /\ reader.at = "reading" /\ reader.size = K /\ n < T /\ T <= total_bids
      /\ UNCHANGED <<is_test_environment, total_bids, keys>>
  BY <1>1 DEF ReadKey, ReaderInv, programVars
<1>3. /\ total_bids \in Nat /\ T \in Nat /\ n \in Nat /\ K \in Nat \ {0}
      /\ reader.yielded \in Seq(Bidders)
      /\ reader \in [at: {"idle", "counted", "reading", "failed"},
                     total: 0..Cardinality(Bidders),
                     size: PageSizes \cup {KeysPerPage, 1},
                     page: Seq(Bidders), yielded: Seq(Bidders)]
  BY <1>1, CountBound, PageSizesAssumption DEF CountInv, TypeOK
<1>4. ASSUME NEW i \in n..(T - 1), i \div K = n \div K
      PROVE  i % K < Len(page) /\ page[(i % K) + 1] = KeyAt(i)
  <2>1. i \in 0..(total_bids - 1)
    BY <1>2, <1>3
  <2>2. CASE n % K = 0
    <3>1. page = keys[i \div K]
      BY <1>4, <2>2 DEF FetchesPage
    <3> QED BY <1>1, <2>1, <3>1, KeyIsThere DEF KeyAt
  <2>3. CASE n % K # 0
    <3>1. page = reader.page
      BY <2>3 DEF FetchesPage
    <3> QED BY <1>1, <1>2, <1>4, <2>3, <3>1 DEF ReaderInv
  <2> QED BY <2>2, <2>3
<1>5. n % K < Len(page) /\ page[place] = KeyAt(n) /\ n % K \in Nat
  <2>1. n \in n..(T - 1)
    BY <1>2, <1>3
  <2>2. n % K < Len(page) /\ page[place] = KeyAt(n)
    BY <1>4, <2>1
  <2>3. n % K \in 0..(K - 1)
    <3>1. \A m \in Nat, k \in Nat \ {0} : m % k \in 0..(k - 1)
      BY DivMod
    <3> HIDE DEF n, K, page, place, T
    <3> QED BY <1>3, <3>1
  <2>4. n % K \in Nat
    BY <1>3, <2>3
  <2> QED BY <2>2, <2>4
<1>6. page \in Seq(Bidders)
  <2>1. n \in 0..Cardinality(Bidders)
    BY <1>2, <1>3, CountBound
  <2>2. n \div K \in PageIds
    BY <2>1, PageInRange
  <2> QED BY <1>1, <1>3, <2>2 DEF CountInv, TypeOK
<1>7. /\ reader' = [reader EXCEPT !.page = page,
                                  !.yielded = Append(@, page[place])]
      /\ page[place] \in Bidders
  <2>1. place \in 1..Len(page)
    BY <1>5, <1>6
  <2>2. page[place] \in Bidders
    BY <1>6, <2>1
  <2> QED BY <1>2, <2>1, <2>2 DEF ReadKey
<1> HIDE DEF page, place
<1>8. /\ reader'.page = page /\ reader'.at = "reading" /\ reader'.size = K
      /\ reader'.total = T
      /\ reader'.yielded = Append(reader.yielded, KeyAt(n))
      /\ KeyAt(n) \in Bidders
  BY <1>2, <1>3, <1>5, <1>7
<1>9. /\ Len(reader'.yielded) = n + 1
      /\ \A i \in 1..n : reader'.yielded[i] = reader.yielded[i]
      /\ reader'.yielded[n + 1] = KeyAt(n)
  BY <1>3, <1>8
<1>10. \A i : (KeyAt(i))' = KeyAt(i)
  BY <1>2 DEF KeyAt
<1>11. \A i \in 1..(n + 1) : reader'.yielded[i] = KeyAt(i - 1)
  <2> TAKE i \in 1..(n + 1)
  <2>1. CASE i = n + 1
    <3>1. i - 1 = n
      BY <1>3, <2>1
    <3> QED BY <1>9, <2>1, <3>1
  <2>2. CASE i # n + 1
    <3>1. i \in 1..n
      BY <1>3, <2>2
    <3> QED BY <1>1, <1>9, <3>1 DEF ReaderInv
  <2> QED BY <2>1, <2>2
<1>12. ASSUME NEW i \in (n + 1)..(T - 1), (n + 1) % K # 0,
              i \div K = (n + 1) \div K
       PROVE  i % K < Len(page) /\ page[(i % K) + 1] = KeyAt(i)
  <2>1. (n + 1) \div K = n \div K
    BY <1>3, <1>12, PlaceOfNext
  <2>2. i \in n..(T - 1)
    BY <1>3
  <2> QED BY <1>4, <1>12, <2>1, <2>2
<1> HIDE DEF n, K, T
<1>13. QED
  BY <1>2, <1>8, <1>9, <1>10, <1>11, <1>12 DEF ReaderInv, K

LEMMA IInvInit == Init => IInv
BY CountInit, PagesInit DEF IInv

LEMMA IInvStep == IInv /\ [Next]_vars => IInv'
<1> SUFFICES ASSUME IInv, [Next]_vars PROVE IInv'
  OBVIOUS
<1>1. CountInv' /\ CountInv /\ PagesInv /\ ReaderInv
  BY CountStep DEF IInv
<1>2. is_test_environment' = is_test_environment
  BY DEF Next, vars, programVars, FetchAuction, Send, Land, Refuse, Abort, Lose,
         UpdateConfigs, Prefund, StartReading, FetchGlobalStates, ReadKey, StopReading
<1>3. CASE is_test_environment
  BY <1>1, <1>2, <1>3 DEF IInv, PagesInv, ReaderInv
<1>4. CASE ~is_test_environment
  <2> SUFFICES PagesInv' /\ ReaderInv'
    BY <1>1 DEF IInv
  <2> DEFINE indexVars == <<is_test_environment, num_keys_per_index_page,
                            total_bids, initialized, keys>>
  <2>1. ASSUME UNCHANGED indexVars PROVE PagesInv'
    BY <1>1, <2>1 DEF PagesInv, PageId, KeyAt
  <2>2. ASSUME UNCHANGED indexVars, UNCHANGED reader PROVE ReaderInv'
    BY <1>1, <2>2 DEF ReaderInv, KeyAt
  <2> HIDE DEF indexVars
  <2>11. UNCHANGED programVars => UNCHANGED indexVars
    BY DEF programVars, indexVars
  <2>3. ASSUME NEW b \in Bidders,
               FetchAuction(b) \/ Send(b)
                 \/ Refuse(b) \/ Abort(b) \/ Lose(b)
        PROVE  PagesInv' /\ ReaderInv'
    BY <2>1, <2>2, <2>3, <2>11 DEF FetchAuction, Send, Refuse, Abort, Lose
  <2>4. ASSUME NEW b \in Bidders, Land(b) PROVE PagesInv' /\ ReaderInv'
    <3>1. CASE NewlyInitialized(b)
      BY <1>1, <1>4, <2>4, <3>1, LandKeepsPages, LandKeepsReader
    <3>2. CASE ~NewlyInitialized(b)
      BY <2>1, <2>2, <2>4, <3>2 DEF Land, indexVars
    <3> QED BY <3>1, <3>2
  <2>5. ASSUME NEW size \in PageSizes, UpdateConfigs(size) PROVE FALSE
    BY <1>4, <2>5 DEF UpdateConfigs
  <2>6. CASE StartReading
    <3>1. UNCHANGED programVars
      BY <2>6 DEF StartReading
    <3>2. /\ reader'.at = "counted" /\ reader'.total = total_bids
          /\ reader'.yielded = <<>>
      BY <2>6 DEF StartReading, NotReading
    <3>3. total_bids \in Nat
      BY <1>1, CountBound DEF CountInv, TypeOK
    <3> QED BY <2>1, <2>11, <3>1, <3>2, <3>3 DEF ReaderInv, programVars
  <2>7. CASE FetchGlobalStates
    <3>1. UNCHANGED programVars
      BY <2>7 DEF FetchGlobalStates
    <3>2. reader \in [at: {"idle", "counted", "reading", "failed"},
                      total: 0..Cardinality(Bidders),
                      size: PageSizes \cup {KeysPerPage, 1},
                      page: Seq(Bidders), yielded: Seq(Bidders)]
      BY <1>1 DEF CountInv, TypeOK
    <3>3. /\ reader'.at = "reading" /\ reader'.total = reader.total
          /\ reader'.yielded = <<>> /\ reader'.size = KeysPerPage
          /\ reader.total <= total_bids
      BY <1>1, <1>4, <2>7, <3>2 DEF FetchGlobalStates, ReaderInv, PagesInv
    <3>4. 0 % KeysPerPage = 0
      BY ZeroPlace
    <3> QED BY <2>1, <2>11, <3>1, <3>3, <3>4 DEF ReaderInv, programVars
  <2>8. CASE ReadKey
    BY <1>4, <2>1, <2>8, <2>11, ReadKeepsReader DEF ReadKey
  <2>9. CASE StopReading
    <3>1. UNCHANGED programVars
      BY <2>9 DEF StopReading
    <3>2. reader'.at = "idle" /\ reader'.yielded = <<>>
      BY <2>9 DEF StopReading, NotReading
    <3> QED BY <2>1, <2>11, <3>1, <3>2 DEF ReaderInv, programVars
  <2>10. CASE UNCHANGED vars
    BY <2>1, <2>2, <2>10, <2>11 DEF vars
  <2>12. ASSUME NEW p \in PageIds, Prefund(p) PROVE PagesInv' /\ ReaderInv'
    BY <2>1, <2>2, <2>12 DEF Prefund, indexVars
  <2> QED
    BY <2>3, <2>4, <2>5, <2>6, <2>7, <2>8, <2>9, <2>10, <2>12 DEF Next
<1> QED BY <1>3, <1>4

THEOREM Invariance == Spec => []IInv
BY IInvInit, IInvStep, PTL DEF Spec

(* PagesHoldAll: index_pubkey is only reached with the page the count says, *)
(* and only for accounts initialised by the same instruction, so that no    *)
(* stale transaction leaves a gap, a key twice or one unindexed.            *)
THEOREM PagesAreFull == Spec => []PagesHoldAll
<1>1. IInv => PagesHoldAll
  BY DEF IInv, CountInv, PagesInv, PagesHoldAll
<1> QED BY <1>1, Invariance, PTL

(* AlwaysIterable: a reader that fetched a count finds every key below it,  *)
(* in the page it holds or the one it fetches, while the index grows.       *)
THEOREM BidsAreIterable == Spec => []AlwaysIterable
<1>1. IInv => AlwaysIterable
  BY DEF IInv, ReaderInv, AlwaysIterable
<1> QED BY <1>1, Invariance, PTL

(* The page that comes next and holds lamports is never made: no first bid  *)
(* is indexed any more, and what was indexed stays as it is.                *)
THEOREM PrefundedPageStops ==
  Spec => [][~is_test_environment /\ PageId \in prefunded
               => /\ UNCHANGED <<total_bids, initialized, keys>>
                  /\ (PageId \in prefunded)']_vars
<1>1. ASSUME [Next]_vars, ~is_test_environment, PageId \in prefunded
      PROVE  /\ UNCHANGED <<total_bids, initialized, keys>>
             /\ (PageId \in prefunded)'
  <2> DEFINE Stops == /\ total_bids' = total_bids
                      /\ initialized' = initialized
                      /\ keys' = keys
                      /\ num_keys_per_index_page' = num_keys_per_index_page
                      /\ prefunded \subseteq prefunded'
  <2>1. ASSUME NEW b \in Bidders,
               \/ FetchAuction(b) \/ Send(b)
               \/ Refuse(b) \/ Abort(b) \/ Lose(b)
        PROVE  Stops
    BY <2>1 DEF FetchAuction, Send, Refuse, Abort, Lose, programVars
  <2>2. ASSUME NEW b \in Bidders, Land(b) PROVE Stops
    BY <1>1, <2>2 DEF Land, PageLoads
  <2>3. ASSUME NEW size \in PageSizes, UpdateConfigs(size) PROVE Stops
    BY <1>1, <2>3 DEF UpdateConfigs
  <2>4. ASSUME NEW p \in PageIds, Prefund(p) PROVE Stops
    BY <2>4 DEF Prefund
  <2>5. ASSUME StartReading \/ FetchGlobalStates \/ ReadKey \/ StopReading
        PROVE  Stops
    BY <2>5 DEF StartReading, FetchGlobalStates, ReadKey, StopReading,
                programVars
  <2>6. ASSUME UNCHANGED vars PROVE Stops
    BY <2>6 DEF vars, programVars
  <2>7. Stops
    <3> HIDE DEF Stops
    <3> QED BY <1>1, <2>1, <2>2, <2>3, <2>4, <2>5, <2>6 DEF Next
  <2>8. PageId' = PageId
    BY <2>7 DEF PageId
  <2>9. PageId' \in prefunded'
    BY <1>1, <2>7, <2>8
  <2> QED BY <2>7, <2>9
<1> QED BY <1>1, PTL DEF Spec
=============================================================================
