--------------------- MODULE TransferReservationsProofs ---------------------
(***************************************************************************)
(* The disk is never promised twice, no promise outlives its transfer, and *)
(* what a sender is asked for is covered, for any transfers, sizes, volumes *)
(* and limits.                                                             *)
(***************************************************************************)
EXTENDS TransferReservations, Sums

Ledgers == [Volumes -> [Keys -> Reservation \cup {None}]]
Main(t) == <<t, "main">>

\* The ids under which the cache share of a transfer may be booked.
ShareKeys(t) ==
    IF t \in Uploads THEN {None}
    ELSE IF separate THEN {None, <<t, "cache">>, <<t, "recovery">>} ELSE {Main(t)}

\* The chunks the sender of a writer may send: those it was asked for, or all
\* that are missing when a held offer is accepted. They are backed by the
\* promise unless the offer was accepted after a refused retry.
Owed(w)   == IF w.held /\ ~w.stale THEN w.cache ELSE w.due
Backed(w) == w.stale => w.held

\* What the ledgers L, writer w, thread l and partial p of a transfer have to
\* do with each other.
Booking(t, L, w, l, p) ==
    /\ w # None =>
          /\ w.cacheKey \in ShareKeys(t)
          /\ w.held => w.due = 0
          /\ t \in Files => w.file + p = w.size + l
          /\ L[VolOf(t)][Main(t)] # None
          /\ Backed(w) => L[VolOf(t)][Main(t)].remaining >=
                             w.file + (IF separate THEN 0 ELSE Owed(w))
          /\ Backed(w) /\ w.cacheKey = None => Owed(w) = 0
          /\ w.cacheKey # None =>
                /\ L[CacheVol][w.cacheKey] # None
                /\ separate /\ Backed(w) => L[CacheVol][w.cacheKey].remaining >= Owed(w)
    /\ \A v \in Volumes, kind \in Kinds :
          L[v][<<t, kind>>] # None =>
             /\ w # None /\ L[v][<<t, kind>>].peer = Owner[t]
             /\ kind = "main" => v = VolOf(t)
             /\ kind # "main" => separate /\ v = CacheVol /\ w.cacheKey = <<t, kind>>
    /\ l = 1 => w # None /\ p > 0 /\ w.cache = 0 /\ w.file > 0

Booked(t) == Booking(t, ledger, writer[t], landed[t], partial[t])

Inv == TypeOK /\ \A t \in Transfers : Booked(t)

-----------------------------------------------------------------------------
(* The ledger's operations.                                                *)

\* Reservation ids.
LEMMA KeyFacts ==
    /\ \A t \in Transfers, kind \in Kinds : <<t, kind>> \in Keys
    /\ \A k \in Keys : k[1] \in Transfers /\ k[2] \in Kinds /\ k = <<k[1], k[2]>>
    /\ \A t \in Transfers : Main(t) \in Keys
    /\ IsFiniteSet(Keys)
  <1>1. IsFiniteSet(Kinds)
    <2>1. IsFiniteSet({"main"})
      BY FS_Singleton
    <2>2. IsFiniteSet({"main"} \cup {"cache"})
      BY <2>1, FS_AddElement
    <2>3. IsFiniteSet(({"main"} \cup {"cache"}) \cup {"recovery"})
      BY <2>2, FS_AddElement
    <2>4. Kinds = ({"main"} \cup {"cache"}) \cup {"recovery"}
      BY DEF Kinds
    <2>5. QED
      BY <2>3, <2>4
  <1>2. IsFiniteSet(Keys)
    BY <1>1, FS_Product, ReservationAssumption DEF Keys
  <1>3. QED
    BY <1>2 DEF Keys, Kinds, Main

\* No entry, no writer and no id is None.
LEMMA NoneFacts == None \notin Reservation /\ None \notin Writer /\ None \notin Keys
  BY ReservationAssumption

\* The volumes of the model.
LEMMA VolumeFacts ==
    /\ Inbox \in Volumes /\ CacheVol \in Volumes
    /\ \A t \in Transfers : VolOf(t) \in Volumes
    /\ \A v \in Volumes : v = Inbox \/ v = CacheVol
    /\ ~separate => CacheVol = Inbox
    /\ separate => CacheVol # Inbox
  BY DEF Volumes, VolOf, Inbox, CacheVol

\* Booking an entry changes that entry only.
LEMMA PutFacts ==
    ASSUME NEW L \in Ledgers, NEW v \in Volumes, NEW k \in Keys,
           NEW r \in Reservation \cup {None}
    PROVE  /\ Put(L, v, k, r) \in Ledgers
           /\ Put(L, v, k, r)[v][k] = r
           /\ \A w \in Volumes, j \in Keys :
                 w # v \/ j # k => Put(L, v, k, r)[w][j] = L[w][j]
  BY DEF Put, Ledgers

\* A resize is a booking of the same entry with another remainder.
LEMMA ResizedIsPut ==
    ASSUME NEW L \in Ledgers, NEW v \in Volumes, NEW k \in Keys, L[v][k] # None,
           NEW n \in Nat
    PROVE  \E r \in Reservation :
              /\ Resized(L, v, k, n) = Put(L, v, k, r)
              /\ r.remaining = n /\ r.peer = L[v][k].peer
              /\ r.declared = L[v][k].declared
  <1> DEFINE r == [L[v][k] EXCEPT !.remaining = n]
  <1>1. L[v][k] \in Reservation
    BY DEF Ledgers
  <1>2. r \in Reservation /\ r.remaining = n /\ r.peer = L[v][k].peer
        /\ r.declared = L[v][k].declared
    BY <1>1 DEF Reservation
  <1>3. Resized(L, v, k, n) = Put(L, v, k, r)
    BY <1>1 DEF Resized, Put, Ledgers
  <1>4. QED
    BY <1>2, <1>3

\* So is the retirement of n written chunks.
LEMMA ConsumedIsPut ==
    ASSUME NEW L \in Ledgers, NEW v \in Volumes, NEW k \in Keys, L[v][k] # None,
           NEW n \in Nat
    PROVE  \E r \in Reservation :
              /\ Consumed(L, v, k, n) = Put(L, v, k, r)
              /\ L[v][k].remaining >= n => r.remaining = L[v][k].remaining - n
              /\ r.remaining <= L[v][k].remaining
              /\ r.peer = L[v][k].peer /\ r.declared = L[v][k].declared
  <1> DEFINE left == IF L[v][k].remaining > n THEN L[v][k].remaining - n ELSE 0
             r == [L[v][k] EXCEPT !.remaining = left]
  <1>1. L[v][k] \in Reservation
    BY DEF Ledgers
  <1>2. /\ L[v][k].remaining >= n => left = L[v][k].remaining - n
        /\ left \in Nat /\ left <= L[v][k].remaining
    BY <1>1 DEF Reservation
  <1>3. Consumed(L, v, k, n) = Put(L, v, k, r)
    BY <1>1 DEF Consumed, Put, Ledgers
  <1> HIDE DEF left
  <1>4. r \in Reservation /\ r.remaining = left /\ r.peer = L[v][k].peer
        /\ r.declared = L[v][k].declared
    BY <1>1, <1>2 DEF Reservation
  <1>5. QED
    BY <1>2, <1>3, <1>4

-----------------------------------------------------------------------------
(* Bookings: what a step does to one transfer is all it does.              *)

\* Only transfer t's entries, writer, partial and thread may change.
Local(t) ==
    /\ separate' = separate
    /\ \A u \in Transfers \ {t} :
          /\ writer'[u] = writer[u] /\ landed'[u] = landed[u]
          /\ partial'[u] = partial[u]
          /\ \A v \in Volumes, kind \in Kinds :
                ledger'[v][<<u, kind>>] = ledger[v][<<u, kind>>]

\* The volumes do not move.
LEMMA SameVolumes ==
    ASSUME separate' = separate
    PROVE  /\ Volumes' = Volumes /\ CacheVol' = CacheVol
           /\ Ledgers' = Ledgers
           /\ \A t \in Transfers : VolOf(t)' = VolOf(t) /\ ShareKeys(t)' = ShareKeys(t)
  BY DEF Volumes, CacheVol, Ledgers, VolOf, ShareKeys

\* A booking looks at the entries of its transfer only.
LEMMA BookingFrame ==
    ASSUME NEW t \in Transfers, NEW L, NEW M, NEW w, NEW l, NEW p, Booking(t, L, w, l, p),
           \A v \in Volumes, kind \in Kinds : M[v][<<t, kind>>] = L[v][<<t, kind>>]
    PROVE  Booking(t, M, w, l, p)
  <1>1. M[VolOf(t)][Main(t)] = L[VolOf(t)][Main(t)]
    BY VolumeFacts DEF Main, Kinds
  <1>2. w # None /\ w.cacheKey # None => M[CacheVol][w.cacheKey] = L[CacheVol][w.cacheKey]
    BY VolumeFacts DEF Booking, ShareKeys, Main, Kinds
  <1>3. QED
    BY <1>1, <1>2 DEF Booking

\* A local step keeps the bookings when it keeps those of its transfer.
LEMMA LocalKeeps ==
    ASSUME Inv, NEW t \in Transfers, Local(t), TypeOK',
           Booking(t, ledger', writer'[t], landed'[t], partial'[t])
    PROVE  Inv'
  <1>1. ASSUME NEW u \in Transfers
        PROVE  Booking(u, ledger', writer'[u], landed'[u], partial'[u])
    <2>1. CASE u = t
      BY <2>1
    <2>2. CASE u # t
      <3>1. Booking(u, ledger, writer[u], landed[u], partial[u])
        BY DEF Inv, Booked
      <3>2. Booking(u, ledger', writer[u], landed[u], partial[u])
        BY <2>2, <3>1, BookingFrame DEF Local
      <3>3. QED
        BY <2>2, <3>2 DEF Local
    <2>3. QED
      BY <2>1, <2>2
  <1>2. ASSUME NEW u \in Transfers PROVE Booked(u)'
    <2>1. Booking(u, ledger', writer'[u], landed'[u], partial'[u])
      BY <1>1
    <2>2. /\ Volumes' = Volumes /\ CacheVol' = CacheVol /\ separate' = separate
          /\ VolOf(u)' = VolOf(u) /\ ShareKeys(u)' = ShareKeys(u)
      BY SameVolumes DEF Local
    <2>3. QED
      BY <2>1, <2>2 DEF Booked, Booking
  <1>3. QED
    BY <1>2 DEF Inv

\* A writer in flight, field by field.
LEMMA WriterFacts ==
    ASSUME TypeOK, NEW t \in Transfers, writer[t] # None
    PROVE  /\ writer[t] \in Writer
           /\ writer[t].size \in Nat /\ writer[t].file \in Nat
           /\ writer[t].cache \in Nat /\ writer[t].cacheKey \in Keys \cup {None}
           /\ writer[t].due \in Nat /\ writer[t].held \in BOOLEAN
           /\ writer[t].stale \in BOOLEAN
           /\ writer[t].file <= writer[t].size /\ writer[t].due <= writer[t].cache
  BY DEF TypeOK, Writer

\* The types after a step that changes one writer.
LEMMA WriterStays ==
    ASSUME TypeOK, NEW t \in Transfers, NEW w \in Writer, w.file <= w.size, w.due <= w.cache,
           writer' = [writer EXCEPT ![t] = w]
    PROVE  /\ writer' \in [Transfers -> Writer \cup {None}] /\ writer'[t] = w
           /\ \A u \in Transfers \ {t} : writer'[u] = writer[u]
           /\ \A u \in Transfers :
                 writer'[u] # None => /\ writer'[u].file <= writer'[u].size
                                      /\ writer'[u].due <= writer'[u].cache
  <1>1. /\ writer' \in [Transfers -> Writer \cup {None}] /\ writer'[t] = w
        /\ \A u \in Transfers \ {t} : writer'[u] = writer[u]
    BY DEF TypeOK
  <1>2. QED
    BY <1>1 DEF TypeOK

\* A new entry of a transfer is a reservation of its owner.
LEMMA EntryFacts ==
    ASSUME NEW t \in Transfers, NEW d \in Nat, NEW n \in Nat
    PROVE  [peer |-> Owner[t], declared |-> d, remaining |-> n] \in Reservation
  BY DEF Reservation

\* The shares of a transfer that are booked are the one its writer knows.
LEMMA SharesBooked ==
    ASSUME Inv, NEW t \in Files, NEW v \in Volumes, NEW kind \in {"cache", "recovery"},
           ledger[v][<<t, kind>>] # None
    PROVE  separate /\ v = CacheVol /\ PriorKey(t) = <<t, kind>>
  <1>1. t \in Transfers /\ kind \in Kinds /\ kind # "main"
    BY DEF Transfers, Kinds
  <1>2. Booked(t)
    BY <1>1 DEF Inv
  <1>3. separate /\ v = CacheVol /\ writer[t] # None /\ writer[t].cacheKey = <<t, kind>>
    BY <1>1, <1>2 DEF Booked, Booking
  <1>4. QED
    BY <1>3 DEF PriorKey

\* An offer's first step books its main entry.
LEMMA MainIsPut ==
    ASSUME Inv, NEW t \in Files, NEW size \in Nat, NEW want \in Nat, MainOk(t, size, want)
    PROVE  \E r \in Reservation :
              /\ AfterMain(t, size, want) = Put(ledger, Inbox, Main(t), r)
              /\ r.peer = Owner[t] /\ r.declared = size /\ r.remaining = want
  <1>1. t \in Transfers /\ ledger \in Ledgers /\ Main(t) \in Keys
    BY KeyFacts DEF Transfers, Inv, TypeOK, Ledgers
  <1>2. CASE ledger[Inbox][Main(t)] = None
    <2> DEFINE r == [peer |-> Owner[t], declared |-> size, remaining |-> want]
    <2>1. AfterMain(t, size, want) = Put(ledger, Inbox, Main(t), r)
      BY <1>2 DEF AfterMain, Main
    <2>2. QED
      BY <1>1, <2>1, EntryFacts
  <1>3. CASE ledger[Inbox][Main(t)] # None
    <2>1. ledger[Inbox][Main(t)].peer = Owner[t] /\ ledger[Inbox][Main(t)].declared = size
      BY <1>1, <1>3, VolumeFacts DEF Inv, Booked, Booking, MainOk, Main, Kinds
    <2>2. AfterMain(t, size, want) = Resized(ledger, Inbox, Main(t), want)
      BY <1>3 DEF AfterMain, Main
    <2>3. QED
      BY <1>1, <1>3, <2>1, <2>2, ResizedIsPut, VolumeFacts
  <1>4. QED
    BY <1>2, <1>3

\* What both steps of an offer leave in the ledgers: the main entry and, on
\* a separate cache volume, the one share that is needed.
OfferBooked(N, t, size, missing, want) ==
    /\ N \in Ledgers
    /\ \A v \in Volumes, k \in Keys :
          k[1] # t \/ (k = Main(t) /\ v # Inbox) => N[v][k] = ledger[v][k]
    /\ N[Inbox][Main(t)] # None
    /\ N[Inbox][Main(t)].peer = Owner[t] /\ N[Inbox][Main(t)].declared = size
    /\ N[Inbox][Main(t)].remaining = want
    /\ \A v \in Volumes, kind \in {"cache", "recovery"} :
          IF separate /\ v = CacheVol /\ CacheKey(t, missing) = <<t, kind>>
          THEN /\ N[v][<<t, kind>>] # None
               /\ N[v][<<t, kind>>].peer = Owner[t]
               /\ N[v][<<t, kind>>].remaining = missing
          ELSE N[v][<<t, kind>>] = None

LEMMA OfferBooks ==
    ASSUME Inv, NEW t \in Files, NEW size \in Nat, NEW missing \in Nat, NEW want \in Nat,
           MainOk(t, size, want)
    PROVE  OfferBooked(AfterCache(AfterMain(t, size, want), t, missing),
                       t, size, missing, want)
  <1>1. t \in Transfers /\ ledger \in Ledgers /\ Main(t) \in Keys
    BY KeyFacts DEF Transfers, Inv, TypeOK, Ledgers
  <1> DEFINE L == AfterMain(t, size, want)
             key == CacheKey(t, missing)
             prior == PriorKey(t)
             M == IF prior # None /\ prior # key THEN Release(L, CacheVol, prior) ELSE L
             N == AfterCache(L, t, missing)
             Share == {<<t, "cache">>, <<t, "recovery">>}
  <1>2. PICK r \in Reservation : /\ L = Put(ledger, Inbox, Main(t), r)
                                 /\ r.peer = Owner[t] /\ r.declared = size
                                 /\ r.remaining = want
    BY MainIsPut
  <1>3. L \in Ledgers /\ L[Inbox][Main(t)] = r /\ r # None
        /\ \A v \in Volumes, k \in Keys :
              v # Inbox \/ k # Main(t) => L[v][k] = ledger[v][k]
    <2> HIDE DEF L
    <2>1. Inbox \in Volumes /\ r \in Reservation \cup {None} /\ r # None
      BY VolumeFacts, NoneFacts
    <2>2. QED
      BY <1>1, <1>2, <2>1, PutFacts
  <1>4. /\ Share \subseteq Keys /\ Main(t) \notin Share
        /\ \A v \in Volumes, k \in Share : L[v][k] = ledger[v][k]
        /\ \A k \in Share : k[1] = t
    BY <1>1, <1>3, KeyFacts DEF Main, Kinds
  <1>5. \A v \in Volumes, k \in Share :
           L[v][k] # None => separate /\ v = CacheVol /\ k = prior
    BY <1>4, SharesBooked
  <1> DEFINE Kept == N \in Ledgers /\ \A v \in Volumes, k \in Keys \ Share : N[v][k] = L[v][k]
             Shares == \A v \in Volumes, k \in Share :
                          IF separate /\ v = CacheVol /\ key = k
                          THEN N[v][k] # None /\ N[v][k].peer = Owner[t] /\ N[v][k].remaining = missing
                          ELSE N[v][k] = None
  <1>6. ASSUME ~separate PROVE Kept /\ Shares
    <2>1. N = L
      BY <1>6 DEF AfterCache
    <2>2. \A v \in Volumes, k \in Share : L[v][k] = None
      BY <1>5, <1>6
    <2> HIDE DEF L, N
    <2>3. QED
      BY <1>3, <1>6, <2>1, <2>2
  <1>7. ASSUME separate PROVE Kept /\ Shares
    <2>1. /\ key = IF missing > 0 THEN <<t, "cache">> ELSE None
          /\ None \notin Keys
      BY <1>7, NoneFacts DEF CacheKey
    <2>2. prior \in Share \cup {None} /\ (prior # None => ledger[CacheVol][prior] # None)
      BY <1>1, <1>7, ReservationAssumption DEF Inv, Booked, Booking, PriorKey, ShareKeys, Transfers
    <2>3. /\ M \in Ledgers
          /\ \A v \in Volumes, k \in Keys :
                M[v][k] = IF v = CacheVol /\ k = prior /\ prior # key THEN None ELSE L[v][k]
      <3>1. CASE prior # None /\ prior # key
        <4>1. M = Put(L, CacheVol, prior, None)
          BY <3>1 DEF Release
        <4>2. QED
          BY SMTT(30), <3>1, <4>1, <2>2, <1>3, <1>4, PutFacts, VolumeFacts
      <3>2. CASE ~(prior # None /\ prior # key)
        BY <3>2, <1>3, <2>1
      <3>3. QED
        BY <3>1, <3>2
    <2>4. \A v \in Volumes, k \in Share : k # key => M[v][k] = None
      BY <1>4, <1>5, <2>3
    <2>5. M \in Ledgers /\ \A v \in Volumes, k \in Keys \ Share : M[v][k] = L[v][k]
      <3> HIDE DEF L, M
      <3>1. QED
        BY <2>1, <2>2, <2>3
    <2>6. CASE missing = 0
      <3>1. N = M
        BY <1>7, <2>6 DEF AfterCache
      <3>2. \A k \in Share : k # key
        BY <1>4, <2>1, <2>6
      <3> HIDE DEF L, M, N, prior, key
      <3>3. QED
        BY <2>4, <2>5, <3>1, <3>2
    <2>7. CASE missing > 0
      <3>1. PICK q \in Reservation : /\ N = Put(M, CacheVol, key, q)
                                     /\ q.peer = Owner[t] /\ q.remaining = missing
        <4>1. CASE prior = key
          <5>1. N = Resized(L, CacheVol, key, missing) /\ M = L
            BY <1>7, <2>7, <4>1 DEF AfterCache
          <5>2. /\ key \in Keys /\ L[CacheVol][key] # None
                /\ L[CacheVol][key].peer = Owner[t]
            <6>1. key = <<t, "cache">> /\ key \in Share
              BY <2>1, <2>7
            <6>2. L[CacheVol][key] = ledger[CacheVol][key] /\ ledger[CacheVol][key] # None
              <7>1. CacheVol \in Volumes /\ prior # None
                BY <1>4, <4>1, <6>1, VolumeFacts, NoneFacts
              <7>2. QED
                BY <1>4, <2>2, <4>1, <6>1, <7>1
            <6>3. ledger[CacheVol][<<t, "cache">>] # None =>
                     ledger[CacheVol][<<t, "cache">>].peer = Owner[t]
              BY <1>1, VolumeFacts DEF Inv, Booked, Booking, Kinds
            <6>4. QED
              BY <1>4, <6>1, <6>2, <6>3
          <5>3. QED
            BY <1>3, <5>1, <5>2, ResizedIsPut, VolumeFacts
        <4>2. CASE prior # key
          <5>1. N = Put(M, CacheVol, key, [peer |-> Owner[t], declared |-> missing,
                                           remaining |-> missing])
            BY <1>7, <2>7, <4>2 DEF AfterCache
          <5>2. QED
            BY <1>1, <5>1, EntryFacts
        <4>3. QED
          BY <4>1, <4>2
      <3> HIDE DEF L, M, N, prior
      <3>2. key = <<t, "cache">> /\ key \in Keys /\ key \in Share
        BY <1>4, <2>1, <2>7
      <3> HIDE DEF key
      <3>3. CacheVol \in Volumes /\ q \in Reservation \cup {None} /\ q # None
        BY VolumeFacts, NoneFacts
      <3>4. /\ N \in Ledgers /\ N[CacheVol][key] = q
            /\ \A v \in Volumes, k \in Keys :
                  v # CacheVol \/ k # key => N[v][k] = M[v][k]
        <4>1. key \in Keys /\ M \in Ledgers
          BY <3>2, <2>5
        <4>2. QED
          BY <3>1, <3>3, <4>1, PutFacts
      <3>5. Kept
        BY <2>5, <3>2, <3>4
      <3>6. ASSUME NEW v \in Volumes, NEW k \in Share, v = CacheVol => key # k
            PROVE  N[v][k] = None
        <4>1. k \in Keys /\ N[v][k] = M[v][k]
          BY <1>4, <3>4, <3>6
        <4>2. QED
          BY <4>1, <2>4, <3>2, <3>6, <1>7, <1>4, <1>5, <2>3, VolumeFacts
      <3>7. QED
        BY <1>7, <3>1, <3>3, <3>4, <3>5, <3>6
    <2>8. QED
      BY <2>6, <2>7
  <1>8. Kept /\ Shares
    BY <1>6, <1>7
  <1> HIDE DEF L, N, key
  <1>9. /\ \A v \in Volumes, k \in Keys :
              k[1] # t \/ (k = Main(t) /\ v # Inbox) => N[v][k] = ledger[v][k]
        /\ N[Inbox][Main(t)] = r
    <2>1. ASSUME NEW v \in Volumes, NEW k \in Keys,
                 k[1] # t \/ (k = Main(t) /\ v # Inbox)
          PROVE  N[v][k] = ledger[v][k]
      <3>1. k \notin Share /\ (v # Inbox \/ k # Main(t))
        BY <2>1, <1>4 DEF Main
      <3>2. QED
        BY <3>1, <1>3, <1>8
    <2>2. N[Inbox][Main(t)] = r
      BY <1>1, <1>3, <1>4, <1>8, VolumeFacts
    <2>3. QED
      BY <2>1, <2>2
  <1>10. QED
    BY <1>2, <1>3, <1>8, <1>9 DEF OfferBooked, key, L, N

\* Entries of other transfers are not touched by a booking.
LEMMA PutLocal ==
    ASSUME NEW L \in Ledgers, NEW v \in Volumes, NEW k \in Keys,
           NEW r \in Reservation \cup {None}, NEW t, k[1] = t
    PROVE  \A u \in Transfers \ {t}, w \in Volumes, kind \in Kinds :
              Put(L, v, k, r)[w][<<u, kind>>] = L[w][<<u, kind>>]
  <1>1. ASSUME NEW u \in Transfers \ {t}, NEW kind \in Kinds
        PROVE  <<u, kind>> \in Keys /\ <<u, kind>> # k
    BY KeyFacts
  <1>2. QED
    BY <1>1, PutFacts

\* An admitted offer keeps the bookings.
LEMMA OfferAdmittedKeeps ==
    ASSUME Inv, separate' = separate, NEW t \in Files, NEW size \in Sizes,
           NEW missing \in 0..size, NEW hold \in BOOLEAN,
           OfferAdmitted(t, size, missing, hold)
    PROVE  Inv'
  <1>1. /\ t \in Transfers /\ t \notin Uploads /\ size \in Nat /\ missing \in Nat
        /\ partial[t] \in Nat
    BY ReservationAssumption DEF Transfers, Inv, TypeOK
  <1> DEFINE want == Want(size, partial[t], missing)
             key == CacheKey(t, missing)
             due == IF hold THEN 0 ELSE missing
             w == [size |-> size, file |-> size - partial[t], cache |-> missing, due |-> due,
                   held |-> hold, stale |-> FALSE, cacheKey |-> key]
  <1>2. /\ partial[t] <= size /\ MainOk(t, size, want)
        /\ ledger' = AfterCache(AfterMain(t, size, want), t, missing)
        /\ writer' = [writer EXCEPT ![t] = w]
        /\ UNCHANGED <<free, partial, landed, foreign, restarts>>
        /\ writer[t] # None => landed[t] = 0
    BY DEF OfferAdmitted, MayOffer
  <1>3. want \in Nat /\ want = size - partial[t] + (IF separate THEN 0 ELSE missing)
    BY <1>1, <1>2 DEF Want
  <1> HIDE DEF want
  <1>4. OfferBooked(ledger', t, size, missing, want)
    BY <1>1, <1>2, <1>3, OfferBooks
  <1>5. key \in ShareKeys(t) /\ (key = None => missing = 0) /\ key \in Keys \cup {None}
        /\ (key # None /\ separate => key = <<t, "cache">>)
        /\ (~separate => key = Main(t))
    <2>1. key = IF ~separate THEN Main(t) ELSE IF missing > 0 THEN <<t, "cache">> ELSE None
      BY <1>1 DEF CacheKey, Main
    <2>2. <<t, "cache">> \in Keys /\ Main(t) \in Keys
      BY <1>1, KeyFacts DEF Kinds
    <2> HIDE DEF key
    <2>3. QED
      BY <1>1, <2>1, <2>2, NoneFacts DEF ShareKeys
  <1> HIDE DEF key
  <1>6. /\ w \in Writer /\ w # None /\ w.file <= w.size /\ w.due <= w.cache
        /\ Backed(w) /\ Owed(w) = missing /\ (w.held => w.due = 0)
        /\ w.cacheKey = key /\ w.cache = missing /\ w.file = size - partial[t]
        /\ w.size = size
    <2>1. due \in Nat /\ due <= missing /\ (hold => due = 0) /\ (~hold => due = missing)
      BY <1>1
    <2>2. size - partial[t] \in Nat
      BY <1>1, <1>2
    <2> HIDE DEF due
    <2>3. w \in Writer /\ w # None
      <3>1. PICK file \in Nat : file = size - partial[t]
        BY <2>2
      <3>2. [size |-> size, file |-> file, cache |-> missing, due |-> due, held |-> hold,
             stale |-> FALSE, cacheKey |-> key] \in Writer
        BY <1>1, <1>5, <2>1 DEF Writer
      <3>3. QED
        BY <3>1, <3>2, NoneFacts
    <2>4. Backed(w) /\ Owed(w) = missing
      BY <2>1 DEF Backed, Owed
    <2>5. QED
      BY <1>1, <2>1, <2>2, <2>3, <2>4
  <1> HIDE DEF w, due
  <1>7. /\ writer' \in [Transfers -> Writer \cup {None}] /\ writer'[t] = w
        /\ \A u \in Transfers \ {t} : writer'[u] = writer[u]
        /\ \A u \in Transfers :
              writer'[u] # None => /\ writer'[u].file <= writer'[u].size
                                   /\ writer'[u].due <= writer'[u].cache
    BY <1>1, <1>2, <1>6, WriterStays DEF Inv
  <1>8. landed[t] = 0
    BY <1>1, <1>2 DEF Inv, Booked, Booking, TypeOK
  <1>9. TypeOK'
    <2>1. ledger' \in Ledgers
      BY <1>4 DEF OfferBooked
    <2>2. QED
      BY <1>2, <1>7, <2>1, SameVolumes DEF Inv, TypeOK, Ledgers
  <1>10. Local(t)
    <2>1. ASSUME NEW u \in Transfers \ {t}, NEW kind \in Kinds
          PROVE  <<u, kind>> \in Keys /\ <<u, kind>>[1] # t
      BY KeyFacts
    <2>2. \A u \in Transfers \ {t}, v \in Volumes, kind \in Kinds :
             ledger'[v][<<u, kind>>] = ledger[v][<<u, kind>>]
      BY <1>4, <2>1 DEF OfferBooked
    <2>3. QED
      BY <1>2, <1>7, <2>2 DEF Local
  <1>11. Booking(t, ledger', w, 0, partial[t])
    <2>1. /\ ledger'[Inbox][Main(t)] # None
          /\ ledger'[Inbox][Main(t)].remaining = want
          /\ ledger'[Inbox][Main(t)].peer = Owner[t]
      BY <1>4 DEF OfferBooked
    <2>2. ASSUME key # None
          PROVE  /\ ledger'[CacheVol][key] # None
                 /\ separate => ledger'[CacheVol][key].remaining = missing
      BY <1>4, <1>5, <2>1, <2>2, VolumeFacts DEF OfferBooked, key
    <2>3. ASSUME NEW v \in Volumes, NEW kind \in Kinds, ledger'[v][<<t, kind>>] # None
          PROVE  /\ ledger'[v][<<t, kind>>].peer = Owner[t]
                 /\ kind = "main" => v = VolOf(t)
                 /\ kind # "main" => separate /\ v = CacheVol /\ key = <<t, kind>>
      <3>1. VolOf(t) = Inbox
        BY <1>1 DEF VolOf
      <3>2. CASE kind = "main"
        <4>1. v # Inbox => ledger[v][Main(t)] = None
          BY <1>1, <3>1 DEF Inv, Booked, Booking, Main, Kinds
        <4>2. QED
          BY <1>1, <1>4, <2>1, <2>3, <3>1, <3>2, <4>1, KeyFacts DEF OfferBooked, Main
      <3>3. CASE kind # "main"
        BY <1>4, <2>3, <3>3 DEF OfferBooked, Kinds, key
      <3>4. QED
        BY <3>2, <3>3
    <2>4. VolOf(t) = Inbox
      BY <1>1 DEF VolOf
    <2>5. w.file + partial[t] = w.size + 0
      BY <1>1, <1>2, <1>6
    <2>6. QED
      BY <1>1, <1>2, <1>3, <1>5, <1>6, <2>1, <2>2, <2>3, <2>4, <2>5 DEF Booking
  <1>12. Booking(t, ledger', writer'[t], landed'[t], partial'[t])
    BY <1>2, <1>7, <1>8, <1>11
  <1>13. QED
    BY <1>1, <1>9, <1>10, <1>12, LocalKeeps

\* A writer that keeps its promises and shrinks its claims stays booked.
LEMMA BookedShrinks ==
    ASSUME NEW t \in Transfers, NEW L, NEW w, NEW x, NEW l, NEW p,
           Booking(t, L, w, l, p), w # None, x # None,
           x.size = w.size, x.file = w.file, x.cacheKey = w.cacheKey,
           x.held => x.due = 0, Backed(x) => Backed(w) /\ Owed(x) <= Owed(w),
           Owed(x) \in Nat, Owed(w) \in Nat, w.file \in Nat,
           \A v \in Volumes, k \in Keys : L[v][k] # None => L[v][k].remaining \in Nat,
           l = 1 => x.cache = 0
    PROVE  Booking(t, L, x, l, p)
  <1>1. /\ VolOf(t) \in Volumes /\ CacheVol \in Volumes /\ Main(t) \in Keys
        /\ w.cacheKey \in ShareKeys(t) /\ L[VolOf(t)][Main(t)] # None
    BY VolumeFacts, KeyFacts DEF Booking
  <1>2. Backed(x) => L[VolOf(t)][Main(t)].remaining >=
                        x.file + (IF separate THEN 0 ELSE Owed(x))
    BY <1>1 DEF Booking
  <1>3. Backed(x) /\ x.cacheKey = None => Owed(x) = 0
    BY DEF Booking
  <1>4. w.cacheKey # None => w.cacheKey \in Keys
    BY <1>1, KeyFacts DEF ShareKeys, Kinds
  <1>5. x.cacheKey # None =>
           /\ L[CacheVol][x.cacheKey] # None
           /\ separate /\ Backed(x) => L[CacheVol][x.cacheKey].remaining >= Owed(x)
    BY <1>1, <1>4 DEF Booking
  <1>6. QED
    BY <1>1, <1>2, <1>3, <1>5 DEF Booking

\* A refused offer keeps the bookings: what it booked is undone, or the writer
\* in flight still has the promise of what its sender was asked for.
LEMMA OfferRefusedKeeps ==
    ASSUME Inv, separate' = separate, NEW t \in Files, NEW size \in Sizes,
           NEW missing \in 0..size, OfferRefused(t, size, missing)
    PROVE  Inv'
  <1>1. /\ t \in Transfers /\ t \notin Uploads /\ size \in Nat /\ missing \in Nat
        /\ partial[t] \in Nat /\ ledger \in Ledgers /\ Main(t) \in Keys /\ VolOf(t) = Inbox
        /\ Main(t)[1] = t /\ Inbox \in Volumes
    BY ReservationAssumption, KeyFacts, VolumeFacts
    DEF Transfers, Inv, TypeOK, Ledgers, VolOf, Main
  <1> DEFINE want == Want(size, partial[t], missing)
             L == AfterMain(t, size, want)
             ok == MainOk(t, size, want)
             due == IF writer[t].due > missing THEN missing ELSE writer[t].due
             stale == writer[t].stale \/ writer[t].held
             w == [writer[t] EXCEPT !.cache = missing, !.due = due, !.stale = stale]
  <1>2. /\ partial[t] <= size /\ ~(ok /\ CacheOk(L, t, missing))
        /\ ledger' = IF writer[t] = None THEN Release(ledger, Inbox, Main(t))
                     ELSE IF ok THEN L ELSE ledger
        /\ writer' = IF writer[t] = None THEN writer
                     ELSE [writer EXCEPT ![t].cache = missing,
                                         ![t].due = IF @ > missing THEN missing ELSE @,
                                         ![t].stale = @ \/ writer[t].held]
        /\ UNCHANGED <<free, partial, landed, foreign, restarts>>
        /\ writer[t] # None => landed[t] = 0 /\ writer[t].size = size
    BY DEF OfferRefused, MayOffer, Main
  <1>3. Booking(t, ledger, writer[t], landed[t], partial[t])
    BY <1>1 DEF Inv, Booked
  <1>4. CASE writer[t] = None
    <2>1. ledger[Inbox][Main(t)] = None
      BY <1>1, <1>3, <1>4 DEF Booking, Main, Kinds
    <2>2. ledger' = ledger
      BY <1>1, <1>2, <1>4, <2>1 DEF Release, Put, Ledgers
    <2>3. UNCHANGED vars
      BY <1>2, <1>4, <2>2 DEF vars
    <2>4. TypeOK'
      BY <2>3 DEF vars, Inv, TypeOK, Volumes, CacheVol
    <2>5. Local(t)
      BY <2>3 DEF Local, vars
    <2>6. Booking(t, ledger', writer'[t], landed'[t], partial'[t])
      BY <1>3, <2>3 DEF vars
    <2>7. QED
      BY <1>1, <2>4, <2>5, <2>6, LocalKeeps
  <1>5. CASE writer[t] # None
    <2>1. /\ writer[t] \in Writer /\ writer[t].size \in Nat /\ writer[t].file \in Nat
          /\ writer[t].cache \in Nat /\ writer[t].due \in Nat
          /\ writer[t].held \in BOOLEAN /\ writer[t].stale \in BOOLEAN
          /\ writer[t].cacheKey \in Keys \cup {None}
          /\ writer[t].file <= writer[t].size /\ writer[t].due <= writer[t].cache
      BY <1>1, <1>5, WriterFacts DEF Inv
    <2>2. due \in Nat /\ due <= missing /\ due <= writer[t].due /\ stale \in BOOLEAN
      BY <1>1, <2>1
    <2>3. writer' = [writer EXCEPT ![t] = w]
      BY <1>1, <1>2, <1>5, <2>1 DEF Inv, TypeOK, Writer
    <2> HIDE DEF due
    <2>4. w \in Writer /\ w # None
      <3> HIDE DEF stale
      <3>1. QED
        BY <1>1, <2>1, <2>2, NoneFacts DEF Writer
    <2>5. /\ w.size = writer[t].size /\ w.file = writer[t].file /\ w.cache = missing
          /\ w.due = due /\ w.held = writer[t].held /\ w.stale = stale
          /\ w.cacheKey = writer[t].cacheKey
      <3> HIDE DEF stale
      <3>1. QED
        BY <2>1 DEF Writer
    <2> HIDE DEF w
    <2>6. /\ writer' \in [Transfers -> Writer \cup {None}] /\ writer'[t] = w
          /\ \A u \in Transfers \ {t} : writer'[u] = writer[u]
          /\ \A u \in Transfers :
                writer'[u] # None => /\ writer'[u].file <= writer'[u].size
                                     /\ writer'[u].due <= writer'[u].cache
      BY <1>1, <2>1, <2>2, <2>3, <2>4, <2>5, WriterStays DEF Inv
    <2>7. /\ w.held => w.due = 0
          /\ Backed(w) => Backed(writer[t]) /\ Owed(w) <= Owed(writer[t])
          /\ Owed(w) \in Nat /\ Owed(writer[t]) \in Nat
      <3>1. writer[t].held => writer[t].due = 0
        BY <1>3, <1>5 DEF Booking
      <3>2. Owed(w) = w.due
        BY <2>5 DEF Owed
      <3>3. Owed(writer[t]) \in Nat /\ writer[t].due <= Owed(writer[t])
        BY <2>1, <3>1 DEF Owed
      <3>4. Backed(w) => Backed(writer[t])
        BY <2>1, <2>5 DEF Backed
      <3>5. QED
        BY <2>1, <2>2, <2>5, <3>1, <3>2, <3>3, <3>4
    <2>8. \A v \in Volumes, k \in Keys :
             ledger[v][k] # None => ledger[v][k].remaining \in Nat
      BY <1>1 DEF Ledgers, Reservation
    <2>9. Booking(t, ledger, w, landed[t], partial[t])
      BY <1>1, <1>2, <1>3, <1>5, <2>1, <2>4, <2>5, <2>7, <2>8, BookedShrinks
    <2>10. CASE ~ok
      <3>1. ledger' = ledger
        BY <1>2, <1>5, <2>10
      <3>2. TypeOK'
        BY <1>2, <2>6, <3>1, SameVolumes DEF Inv, TypeOK
      <3>3. Local(t)
        BY <1>2, <2>6, <3>1 DEF Local
      <3>4. Booking(t, ledger', writer'[t], landed'[t], partial'[t])
        BY <1>2, <2>6, <2>9, <3>1
      <3>5. QED
        BY <1>1, <3>2, <3>3, <3>4, LocalKeeps
    <2>11. CASE ok
      <3>1. separate /\ ledger' = L
        BY <1>2, <1>5, <2>11 DEF CacheOk
      <3>2. want \in Nat /\ want = size - partial[t]
        BY <1>1, <1>2, <3>1 DEF Want
      <3> HIDE DEF want
      <3>3. PICK r \in Reservation : /\ L = Put(ledger, Inbox, Main(t), r)
                                     /\ r.peer = Owner[t] /\ r.remaining = want
        BY <1>1, <2>11, <3>2, MainIsPut
      <3> HIDE DEF L
      <3>4. /\ ledger' \in Ledgers /\ ledger'[Inbox][Main(t)] = r /\ r # None
            /\ \A v \in Volumes, k \in Keys :
                  v # Inbox \/ k # Main(t) => ledger'[v][k] = ledger[v][k]
        BY <1>1, <3>1, <3>3, PutFacts, NoneFacts
      <3>5. r.remaining = w.file
        BY <1>1, <1>2, <1>3, <1>5, <2>1, <2>5, <3>2, <3>3 DEF Booking
      <3>6. CacheVol # Inbox /\ CacheVol \in Volumes
        BY <3>1, VolumeFacts
      <3>7. w.cacheKey # None => ledger'[CacheVol][w.cacheKey] = ledger[CacheVol][w.cacheKey]
        BY <2>1, <2>5, <3>4, <3>6
      <3>8. \A v \in Volumes, kind \in Kinds :
               \/ ledger'[v][<<t, kind>>] = ledger[v][<<t, kind>>]
               \/ v = Inbox /\ kind = "main" /\ ledger'[v][<<t, kind>>] = r
        BY <1>1, <3>4, KeyFacts DEF Main
      <3>9. Booking(t, ledger', w, landed[t], partial[t])
        <4>1. w.file \in Nat /\ r.remaining >= w.file + 0
          BY <2>1, <2>5, <3>5
        <4>2. QED
          BY <1>1, <2>4, <2>9, <3>1, <3>3, <3>4, <3>7, <3>8, <4>1 DEF Booking
      <3>10. TypeOK'
        BY <1>2, <2>6, <3>4, SameVolumes DEF Inv, TypeOK, Ledgers
      <3>11. Local(t)
        <4>1. ASSUME NEW u \in Transfers \ {t}, NEW kind \in Kinds
              PROVE  <<u, kind>> \in Keys /\ <<u, kind>> # Main(t)
          BY KeyFacts DEF Main
        <4>2. QED
          BY <1>2, <2>6, <3>4, <4>1 DEF Local
      <3>12. Booking(t, ledger', writer'[t], landed'[t], partial'[t])
        BY <1>2, <2>6, <3>9
      <3>13. QED
        BY <1>1, <3>10, <3>11, <3>12, LocalKeeps
    <2>12. QED
      BY <2>10, <2>11
  <1>6. QED
    BY <1>4, <1>5

\* Accepting a held offer asks for what is missing: it is booked, unless a
\* retry was refused meanwhile.
LEMMA AcceptKeeps ==
    ASSUME Inv, separate' = separate, NEW t \in Files, Accept(t)
    PROVE  Inv'
  <1> DEFINE w == [writer[t] EXCEPT !.held = FALSE, !.due = writer[t].cache]
  <1>1. /\ t \in Transfers /\ writer[t] # None /\ writer[t].held
        /\ writer' = [writer EXCEPT ![t].held = FALSE, ![t].due = writer[t].cache]
        /\ UNCHANGED <<ledger, free, partial, landed, foreign, restarts>>
    BY DEF Accept, Transfers
  <1>2. /\ writer[t] \in Writer /\ writer[t].size \in Nat /\ writer[t].file \in Nat
        /\ writer[t].cache \in Nat /\ writer[t].stale \in BOOLEAN
        /\ writer[t].cacheKey \in Keys \cup {None} /\ writer[t].file <= writer[t].size
    BY <1>1, WriterFacts DEF Inv
  <1>3. writer' = [writer EXCEPT ![t] = w]
    BY <1>1, <1>2 DEF Inv, TypeOK, Writer
  <1>4. w \in Writer /\ w # None
    BY <1>2, NoneFacts DEF Writer
  <1>5. /\ w.size = writer[t].size /\ w.file = writer[t].file /\ w.cache = writer[t].cache
        /\ w.due = writer[t].cache /\ w.held = FALSE /\ w.stale = writer[t].stale
        /\ w.cacheKey = writer[t].cacheKey
    BY <1>2 DEF Writer
  <1> HIDE DEF w
  <1>6. /\ writer' \in [Transfers -> Writer \cup {None}] /\ writer'[t] = w
        /\ \A u \in Transfers \ {t} : writer'[u] = writer[u]
        /\ \A u \in Transfers :
              writer'[u] # None => /\ writer'[u].file <= writer'[u].size
                                   /\ writer'[u].due <= writer'[u].cache
    <2>1. w.file <= w.size /\ w.due <= w.cache
      BY <1>2, <1>5
    <2>2. QED
      BY <1>1, <1>3, <1>4, <2>1, WriterStays DEF Inv
  <1>7. Booking(t, ledger, writer[t], landed[t], partial[t])
    BY <1>1 DEF Inv, Booked
  <1>8. /\ Backed(w) => Backed(writer[t]) /\ Owed(w) <= Owed(writer[t])
        /\ Owed(w) \in Nat /\ Owed(writer[t]) \in Nat
    <2>1. Owed(w) = writer[t].cache
      BY <1>5 DEF Owed
    <2>2. Backed(writer[t])
      BY <1>1 DEF Backed
    <2>3. Backed(w) => Owed(writer[t]) = writer[t].cache
      BY <1>1, <1>2, <1>5 DEF Backed, Owed
    <2>4. Owed(writer[t]) \in Nat
      BY <1>1, WriterFacts DEF Inv, Owed
    <2>5. QED
      BY <1>2, <2>1, <2>2, <2>3, <2>4
  <1>9. Booking(t, ledger, w, landed[t], partial[t])
    <2>1. \A v \in Volumes, k \in Keys :
             ledger[v][k] # None => ledger[v][k].remaining \in Nat
      BY DEF Inv, TypeOK, Reservation
    <2>2. landed[t] = 1 => w.cache = 0
      BY <1>5, <1>7 DEF Booking
    <2>3. QED
      BY <1>1, <1>2, <1>4, <1>5, <1>7, <1>8, <2>1, <2>2, BookedShrinks
  <1>10. TypeOK'
    BY <1>1, <1>6, SameVolumes DEF Inv, TypeOK
  <1>11. Local(t)
    BY <1>1, <1>6 DEF Local
  <1>12. Booking(t, ledger', writer'[t], landed'[t], partial'[t])
    BY <1>1, <1>6, <1>9
  <1>13. QED
    BY <1>1, <1>10, <1>11, <1>12, LocalKeeps

\* A chunk of the swarm leaves the bookings as they are.
LEMMA SwarmAssistKeeps ==
    ASSUME Inv, separate' = separate, NEW t \in Files, SwarmAssist(t)
    PROVE  Inv'
  <1> DEFINE due == IF writer[t].due = writer[t].cache THEN writer[t].due - 1 ELSE writer[t].due
             w == [writer[t] EXCEPT !.cache = writer[t].cache - 1, !.due = due]
  <1>1. /\ t \in Transfers /\ writer[t] # None /\ writer[t].cache > 0 /\ free[CacheVol] > 0
        /\ free' = [free EXCEPT ![CacheVol] = @ - 1]
        /\ foreign' = [foreign EXCEPT ![CacheVol] = @ + 1]
        /\ writer' = [writer EXCEPT ![t].cache = @ - 1,
                                    ![t].due = IF @ = writer[t].cache THEN @ - 1 ELSE @]
        /\ UNCHANGED <<ledger, partial, landed, restarts>>
    BY DEF SwarmAssist, Transfers
  <1>2. /\ writer[t] \in Writer /\ writer[t].size \in Nat /\ writer[t].file \in Nat
        /\ writer[t].cache \in Nat /\ writer[t].due \in Nat
        /\ writer[t].held \in BOOLEAN /\ writer[t].stale \in BOOLEAN
        /\ writer[t].cacheKey \in Keys \cup {None}
        /\ writer[t].file <= writer[t].size /\ writer[t].due <= writer[t].cache
    BY <1>1, WriterFacts DEF Inv
  <1>3. /\ due \in Nat /\ due <= writer[t].cache - 1 /\ due <= writer[t].due
        /\ writer[t].cache - 1 \in Nat
    BY <1>1, <1>2
  <1>4. writer' = [writer EXCEPT ![t] = w]
    BY <1>1, <1>2 DEF Inv, TypeOK, Writer
  <1> HIDE DEF due
  <1>5. w \in Writer /\ w # None
    BY <1>2, <1>3, NoneFacts DEF Writer
  <1>6. /\ w.size = writer[t].size /\ w.file = writer[t].file /\ w.cache = writer[t].cache - 1
        /\ w.due = due /\ w.held = writer[t].held /\ w.stale = writer[t].stale
        /\ w.cacheKey = writer[t].cacheKey
    BY <1>2 DEF Writer
  <1> HIDE DEF w
  <1>7. /\ writer' \in [Transfers -> Writer \cup {None}] /\ writer'[t] = w
        /\ \A u \in Transfers \ {t} : writer'[u] = writer[u]
        /\ \A u \in Transfers :
              writer'[u] # None => /\ writer'[u].file <= writer'[u].size
                                   /\ writer'[u].due <= writer'[u].cache
    BY <1>1, <1>2, <1>3, <1>4, <1>5, <1>6, WriterStays DEF Inv
  <1>8. Booking(t, ledger, writer[t], landed[t], partial[t])
    BY <1>1 DEF Inv, Booked
  <1>9. /\ w.held => w.due = 0
        /\ Backed(w) => Backed(writer[t]) /\ Owed(w) <= Owed(writer[t])
        /\ Owed(w) \in Nat /\ Owed(writer[t]) \in Nat
    <2>1. writer[t].held => writer[t].due = 0
      BY <1>1, <1>8 DEF Booking
    <2>2. Backed(w) => Backed(writer[t])
      BY <1>6 DEF Backed
    <2>3. Owed(w) \in Nat /\ Owed(writer[t]) \in Nat /\ Owed(w) <= Owed(writer[t])
      BY <1>1, <1>2, <1>3, <1>6 DEF Owed
    <2>4. QED
      BY <1>2, <1>3, <1>6, <2>1, <2>2, <2>3
  <1>10. Booking(t, ledger, w, landed[t], partial[t])
    <2>1. \A v \in Volumes, k \in Keys :
             ledger[v][k] # None => ledger[v][k].remaining \in Nat
      BY DEF Inv, TypeOK, Reservation
    <2>2. landed[t] # 1
      BY <1>1, <1>2, <1>8 DEF Booking
    <2>3. QED
      BY <1>1, <1>2, <1>5, <1>6, <1>8, <1>9, <2>1, <2>2, BookedShrinks
  <1>11. TypeOK'
    <2>1. free' \in [Volumes -> Nat] /\ foreign' \in [Volumes -> Nat]
      BY <1>1, VolumeFacts DEF Inv, TypeOK
    <2>2. QED
      BY <1>1, <1>7, <2>1, SameVolumes DEF Inv, TypeOK
  <1>12. Local(t)
    BY <1>1, <1>7 DEF Local
  <1>13. Booking(t, ledger', writer'[t], landed'[t], partial'[t])
    BY <1>1, <1>7, <1>10
  <1>14. QED
    BY <1>1, <1>11, <1>12, <1>13, LocalKeeps

\* What releasing a transfer leaves of its entries: nothing.
LEMMA ReleasedBooks ==
    ASSUME Inv, NEW t \in Transfers, writer[t] # None
    PROVE  /\ Released(t) \in Ledgers
           /\ \A v \in Volumes, kind \in Kinds : Released(t)[v][<<t, kind>>] = None
           /\ \A u \in Transfers \ {t}, v \in Volumes, kind \in Kinds :
                 Released(t)[v][<<u, kind>>] = ledger[v][<<u, kind>>]
  <1>1. /\ ledger \in Ledgers /\ Main(t) \in Keys /\ Main(t)[1] = t
        /\ VolOf(t) \in Volumes /\ CacheVol \in Volumes
        /\ Booking(t, ledger, writer[t], landed[t], partial[t])
    BY KeyFacts, VolumeFacts DEF Inv, Booked, TypeOK, Ledgers, Main
  <1> DEFINE L == Put(ledger, VolOf(t), Main(t), None)
             k == writer[t].cacheKey
  <1>2. /\ L \in Ledgers /\ L[VolOf(t)][Main(t)] = None
        /\ \A v \in Volumes, j \in Keys : v # VolOf(t) \/ j # Main(t) => L[v][j] = ledger[v][j]
    BY <1>1, PutFacts
  <1>3. \A u \in Transfers \ {t}, v \in Volumes, kind \in Kinds :
           L[v][<<u, kind>>] = ledger[v][<<u, kind>>]
    <2> HIDE DEF L
    <2>1. \A u \in Transfers \ {t}, kind \in Kinds : <<u, kind>> \in Keys /\ <<u, kind>> # Main(t)
      BY KeyFacts DEF Main
    <2>2. QED
      BY <1>2, <2>1
  <1> HIDE DEF L
  <1>4. \A v \in Volumes, kind \in Kinds :
           L[v][<<t, kind>>] # None => v = CacheVol /\ k = <<t, kind>> /\ k # Main(t)
    <2>1. SUFFICES ASSUME NEW v \in Volumes, NEW kind \in Kinds, L[v][<<t, kind>>] # None
                   PROVE  v = CacheVol /\ k = <<t, kind>> /\ k # Main(t)
      OBVIOUS
    <2>2. <<t, kind>> \in Keys
      BY KeyFacts
    <2>3. CASE kind = "main"
      <3>1. v # VolOf(t)
        BY <1>2, <2>1, <2>3 DEF Main
      <3>2. ledger[v][<<t, kind>>] # None
        BY <1>2, <2>1, <2>2, <3>1
      <3>3. QED
        BY <1>1, <2>3, <3>1, <3>2 DEF Booking
    <2>4. CASE kind # "main"
      BY <1>1, <1>2, <2>1, <2>2, <2>4 DEF Booking, Main
    <2>5. QED
      BY <2>3, <2>4
  <1>5. CASE k \in {None, Main(t)}
    <2>1. Released(t) = L
      BY <1>5 DEF Released, Release, L, Main
    <2>2. \A v \in Volumes, kind \in Kinds : L[v][<<t, kind>>] = None
      BY <1>4, <1>5, NoneFacts, KeyFacts
    <2>3. QED
      BY <1>2, <1>3, <2>1, <2>2
  <1>6. CASE k \notin {None, Main(t)}
    <2>1. Released(t) = Put(L, CacheVol, k, None)
      BY <1>6 DEF Released, Release, L, Main
    <2>2. k \in Keys /\ k[1] = t
      <3>1. k \in {<<t, "cache">>, <<t, "recovery">>}
        BY <1>1, <1>6 DEF Booking, ShareKeys
      <3>2. QED
        BY <3>1, KeyFacts DEF Kinds
    <2> HIDE DEF k
    <2>3. /\ Put(L, CacheVol, k, None) \in Ledgers /\ Put(L, CacheVol, k, None)[CacheVol][k] = None
          /\ \A v \in Volumes, j \in Keys :
                v # CacheVol \/ j # k => Put(L, CacheVol, k, None)[v][j] = L[v][j]
          /\ \A u \in Transfers \ {t}, v \in Volumes, kind \in Kinds :
                Put(L, CacheVol, k, None)[v][<<u, kind>>] = L[v][<<u, kind>>]
      BY <1>1, <1>2, <2>2, PutFacts, PutLocal
    <2>4. ASSUME NEW v \in Volumes, NEW kind \in Kinds
          PROVE  Released(t)[v][<<t, kind>>] = None
      <3>1. <<t, kind>> \in Keys
        BY KeyFacts
      <3>2. QED
        BY <1>4, <2>1, <2>3, <3>1
    <2>5. QED
      BY <1>3, <2>1, <2>3, <2>4
  <1>7. QED
    BY <1>5, <1>6

\* A transfer without entries and writer is booked.
LEMMA NothingBooked ==
    ASSUME NEW t \in Transfers, NEW L, NEW p,
           \A v \in Volumes, kind \in Kinds : L[v][<<t, kind>>] = None
    PROVE  Booking(t, L, None, 0, p)
  BY DEF Booking

\* The end of a transfer keeps the bookings of all.
LEMMA EndKeeps ==
    ASSUME Inv, separate' = separate, NEW t \in Transfers, NEW keep \in BOOLEAN, End(t, keep)
    PROVE  Inv'
  <1>1. /\ writer[t] # None /\ landed[t] = 0 /\ ledger' = Released(t)
        /\ writer' = [writer EXCEPT ![t] = None]
        /\ partial' = [partial EXCEPT ![t] = IF keep THEN @ ELSE 0]
        /\ UNCHANGED <<free, landed, foreign, restarts>>
    BY DEF End
  <1>2. TypeOK'
    BY <1>1, ReleasedBooks, SameVolumes DEF Inv, TypeOK, Ledgers
  <1>3. Local(t)
    BY <1>1, ReleasedBooks DEF Local, Inv, TypeOK
  <1>4. Booking(t, ledger', writer'[t], landed'[t], partial'[t])
    BY <1>1, ReleasedBooks, NothingBooked DEF Inv, TypeOK
  <1>5. QED
    BY <1>2, <1>3, <1>4, LocalKeeps

\* So does its abort, also when a thread is at work.
LEMMA AbortKeeps ==
    ASSUME Inv, separate' = separate, NEW t \in Transfers, Abort(t)
    PROVE  Inv'
  <1>1. /\ writer[t] # None /\ ledger' = Released(t)
        /\ free' = [free EXCEPT ![VolOf(t)] = @ + partial[t]]
        /\ writer' = [writer EXCEPT ![t] = None]
        /\ partial' = [partial EXCEPT ![t] = 0]
        /\ landed' = [landed EXCEPT ![t] = 0]
        /\ UNCHANGED <<foreign, restarts>>
    BY DEF Abort
  <1>2. TypeOK'
    BY <1>1, ReleasedBooks, SameVolumes, VolumeFacts DEF Inv, TypeOK, Ledgers
  <1>3. Local(t)
    BY <1>1, ReleasedBooks DEF Local, Inv, TypeOK
  <1>4. Booking(t, ledger', writer'[t], landed'[t], partial'[t])
    BY <1>1, ReleasedBooks, NothingBooked DEF Inv, TypeOK
  <1>5. QED
    BY <1>2, <1>3, <1>4, LocalKeeps

\* The entry a chunk's cache write is retired from: the share's, or the main
\* one of a transfer without a share.
ShareKey(t) == IF writer[t].cacheKey = None THEN Main(t) ELSE writer[t].cacheKey
ShareVol(t) == IF writer[t].cacheKey = None THEN Inbox ELSE CacheVol

\* What a chunk does to the ledgers: a unit of the share's entry and one of
\* the main entry are retired, as far as they are there.
Retired(t, q, r) ==
    LET A   == Put(ledger, ShareVol(t), ShareKey(t), q)
        old == ledger[ShareVol(t)][ShareKey(t)]
    IN  /\ ledger' = Put(A, Inbox, Main(t), r)
        /\ old # None
        /\ q.remaining <= old.remaining /\ q.declared = old.declared
        /\ Backed(writer[t]) => q.remaining = old.remaining - 1
        /\ q.peer = Owner[t] /\ r.peer = Owner[t]
        /\ A[Inbox][Main(t)] # None
        /\ r.remaining <= A[Inbox][Main(t)].remaining
        /\ Backed(writer[t]) => r.remaining = A[Inbox][Main(t)].remaining - 1
        /\ r.declared = A[Inbox][Main(t)].declared

\* The entries of a transfer whose sender was asked for chunks.
LEMMA ShareFacts ==
    ASSUME Inv, NEW t \in Files, writer[t] # None, writer[t].due > 0
    PROVE  /\ ShareKey(t) \in Keys /\ ShareKey(t)[1] = t /\ ShareVol(t) \in Volumes
           /\ (ShareKey(t) = Main(t)) <=> (ShareVol(t) = Inbox)
           /\ ShareKey(t) \in {Main(t), <<t, "cache">>, <<t, "recovery">>}
           /\ ~separate => ShareKey(t) = Main(t)
           /\ Backed(writer[t]) => writer[t].cacheKey # None
           /\ writer[t].cacheKey # None => ShareKey(t) = writer[t].cacheKey /\ ShareVol(t) = CacheVol
           /\ ~writer[t].held /\ Owed(writer[t]) = writer[t].due
           /\ ledger[ShareVol(t)][ShareKey(t)] # None
           /\ ledger[ShareVol(t)][ShareKey(t)].peer = Owner[t]
           /\ ledger[Inbox][Main(t)] # None /\ ledger[Inbox][Main(t)].peer = Owner[t]
           /\ separate /\ Backed(writer[t]) =>
                 ledger[ShareVol(t)][ShareKey(t)].remaining >= writer[t].due
           /\ Backed(writer[t]) => ledger[Inbox][Main(t)].remaining >=
                 writer[t].file + (IF separate THEN 0 ELSE writer[t].due)
  <1>1. /\ t \in Transfers /\ t \notin Uploads /\ ledger \in Ledgers /\ Main(t) \in Keys
        /\ VolOf(t) = Inbox /\ Inbox \in Volumes /\ CacheVol \in Volumes
        /\ Booking(t, ledger, writer[t], landed[t], partial[t])
    BY ReservationAssumption, KeyFacts, VolumeFacts
    DEF Transfers, Inv, Booked, TypeOK, Ledgers, VolOf
  <1>2. writer[t].due \in Nat /\ writer[t].held \in BOOLEAN
    BY <1>1, WriterFacts DEF Inv
  <1>3. ~writer[t].held /\ Owed(writer[t]) = writer[t].due
    <2>1. ~writer[t].held
      BY <1>1, <1>2 DEF Booking
    <2>2. QED
      BY <2>1 DEF Owed
  <1>4. Backed(writer[t]) => writer[t].cacheKey # None
    BY <1>1, <1>2, <1>3 DEF Booking
  <1>5. /\ writer[t].cacheKey \in {None, Main(t), <<t, "cache">>, <<t, "recovery">>}
        /\ writer[t].cacheKey = Main(t) => ~separate
        /\ ~separate => writer[t].cacheKey = Main(t)
    BY <1>1, NoneFacts DEF Booking, ShareKeys, Main
  <1>6. /\ ShareKey(t) \in {Main(t), <<t, "cache">>, <<t, "recovery">>}
        /\ (ShareKey(t) = Main(t)) <=> (ShareVol(t) = Inbox)
        /\ ShareVol(t) \in Volumes /\ (~separate => ShareKey(t) = Main(t))
        /\ writer[t].cacheKey # None => ShareKey(t) = writer[t].cacheKey /\ ShareVol(t) = CacheVol
    <2>1. CASE writer[t].cacheKey = None
      BY <2>1, <1>1, <1>5 DEF ShareKey, ShareVol
    <2>2. CASE writer[t].cacheKey # None
      <3>1. ShareKey(t) = writer[t].cacheKey /\ ShareVol(t) = CacheVol
        BY <2>2 DEF ShareKey, ShareVol
      <3>2. QED
        BY <2>2, <3>1, <1>1, <1>5, VolumeFacts
    <2>3. QED
      BY <2>1, <2>2
  <1>7. ShareKey(t) \in Keys /\ ShareKey(t)[1] = t
    BY <1>1, <1>6, KeyFacts DEF Kinds, Main
  <1>8. /\ ledger[Inbox][Main(t)] # None /\ ledger[ShareVol(t)][ShareKey(t)] # None
        /\ separate /\ Backed(writer[t]) =>
              ledger[ShareVol(t)][ShareKey(t)].remaining >= writer[t].due
        /\ Backed(writer[t]) => ledger[Inbox][Main(t)].remaining >=
              writer[t].file + (IF separate THEN 0 ELSE writer[t].due)
    <2>1. CASE writer[t].cacheKey = None
      <3>1. ShareKey(t) = Main(t) /\ ShareVol(t) = Inbox /\ ~Backed(writer[t])
        BY <2>1, <1>4 DEF ShareKey, ShareVol
      <3>2. QED
        BY <1>1, <3>1 DEF Booking
    <2>2. CASE writer[t].cacheKey # None
      BY <2>2, <1>1, <1>3, <1>6 DEF Booking
    <2>3. QED
      BY <2>1, <2>2
  <1>9. \A v \in Volumes, kind \in Kinds :
           ledger[v][<<t, kind>>] # None => ledger[v][<<t, kind>>].peer = Owner[t]
    BY <1>1 DEF Booking
  <1>10. /\ ledger[ShareVol(t)][ShareKey(t)].peer = Owner[t]
         /\ ledger[Inbox][Main(t)].peer = Owner[t]
    BY <1>1, <1>6, <1>8, <1>9 DEF Kinds, Main
  <1>11. QED
    BY <1>3, <1>4, <1>6, <1>7, <1>8, <1>10

\* A chunk retires one unit of the share and one of the main entry.
LEMMA ChunkBooks ==
    ASSUME Inv, NEW t \in Files, Chunk(t)
    PROVE  \E q, r \in Reservation : Retired(t, q, r)
  <1> DEFINE c == ShareKey(t)
             cv == ShareVol(t)
             old == ledger[cv][c]
             main == ledger[Inbox][Main(t)]
  <1>1. /\ t \in Transfers /\ ledger \in Ledgers /\ Main(t) \in Keys
        /\ Inbox \in Volumes /\ CacheVol \in Volumes
    BY KeyFacts, VolumeFacts DEF Transfers, Inv, TypeOK, Ledgers
  <1>2. /\ writer[t] # None /\ writer[t].due > 0 /\ writer[t].file > 0
        /\ ledger' = Consumed(Consumed(ledger, cv, c, 1), Inbox, Main(t), 1)
    <2>1. /\ writer[t] # None /\ writer[t].due > 0 /\ writer[t].file > 0
          /\ ledger' = Consumed(AfterCacheWrite(t), Inbox, Main(t), 1)
      BY DEF Chunk, Main
    <2>2. AfterCacheWrite(t) = Consumed(ledger, cv, c, 1)
      BY DEF AfterCacheWrite, ShareKey, ShareVol, Main
    <2>3. QED
      BY <2>1, <2>2
  <1>3. writer[t].due \in Nat /\ writer[t].file \in Nat
    BY <1>1, <1>2, WriterFacts DEF Inv
  <1>4. /\ c \in Keys /\ cv \in Volumes /\ (c = Main(t) <=> cv = Inbox)
        /\ ~separate => c = Main(t)
        /\ old # None /\ old.peer = Owner[t] /\ main # None /\ main.peer = Owner[t]
        /\ separate /\ Backed(writer[t]) => old.remaining >= writer[t].due /\ c # Main(t)
        /\ Backed(writer[t]) => main.remaining >=
              writer[t].file + (IF separate THEN 0 ELSE writer[t].due)
    <2>1. separate /\ Backed(writer[t]) => c # Main(t)
      BY <1>2, ShareFacts, VolumeFacts
    <2>2. QED
      BY <1>2, <2>1, ShareFacts
  <1>5. /\ old \in Reservation /\ main \in Reservation
        /\ old.remaining \in Nat /\ main.remaining \in Nat
    BY <1>1, <1>4 DEF Ledgers, Reservation
  <1>6. Backed(writer[t]) => /\ old.remaining >= 1 /\ (~separate => old.remaining >= 2)
                             /\ main.remaining >= 1
    <2>1. CASE separate
      BY <2>1, <1>2, <1>3, <1>4, <1>5
    <2>2. CASE ~separate
      BY <2>2, <1>2, <1>3, <1>4, <1>5
    <2>3. QED
      BY <2>1, <2>2
  <1>7. PICK q \in Reservation :
           /\ Consumed(ledger, cv, c, 1) = Put(ledger, cv, c, q)
           /\ old.remaining >= 1 => q.remaining = old.remaining - 1
           /\ q.remaining <= old.remaining
           /\ q.peer = old.peer /\ q.declared = old.declared
    <2> HIDE DEF c, cv
    <2>1. QED
      BY <1>1, <1>4, ConsumedIsPut
  <1> DEFINE A == Put(ledger, cv, c, q)
  <1> HIDE DEF c, cv
  <1>8. /\ A \in Ledgers /\ A[cv][c] = q /\ q # None
        /\ \A w \in Volumes, j \in Keys : w # cv \/ j # c => A[w][j] = ledger[w][j]
    BY <1>1, <1>4, PutFacts, NoneFacts
  <1> HIDE DEF A
  <1>9. /\ A[Inbox][Main(t)] # None /\ A[Inbox][Main(t)].peer = Owner[t]
        /\ Backed(writer[t]) => A[Inbox][Main(t)].remaining >= 1
    <2>1. CASE c = Main(t)
      <3>1. A[Inbox][Main(t)] = q
        BY <2>1, <1>4, <1>8
      <3>2. Backed(writer[t]) => ~separate
        BY <2>1, <1>4
      <3>3. q.remaining \in Nat
        BY DEF Reservation
      <3>4. QED
        BY <3>1, <3>2, <3>3, <1>4, <1>5, <1>6, <1>7, <1>8
    <2>2. CASE c # Main(t)
      <3>1. A[Inbox][Main(t)] = main
        BY <2>2, <1>1, <1>4, <1>8
      <3>2. QED
        BY <3>1, <1>4, <1>6
    <2>3. QED
      BY <2>1, <2>2
  <1>10. PICK r \in Reservation :
           /\ Consumed(A, Inbox, Main(t), 1) = Put(A, Inbox, Main(t), r)
           /\ A[Inbox][Main(t)].remaining >= 1 =>
                 r.remaining = A[Inbox][Main(t)].remaining - 1
           /\ r.remaining <= A[Inbox][Main(t)].remaining
           /\ r.peer = A[Inbox][Main(t)].peer /\ r.declared = A[Inbox][Main(t)].declared
    BY <1>1, <1>8, <1>9, ConsumedIsPut
  <1>11. ledger' = Put(A, Inbox, Main(t), r)
    BY <1>2, <1>7, <1>10 DEF A
  <1>12. Retired(t, q, r)
    BY <1>4, <1>6, <1>7, <1>9, <1>10, <1>11 DEF A, c, cv, Retired
  <1>13. QED
    BY <1>12

\* A chunk keeps the bookings.
LEMMA ChunkKeeps ==
    ASSUME Inv, separate' = separate, NEW t \in Files, Chunk(t)
    PROVE  Inv'
  <1> DEFINE c == ShareKey(t)
             cv == ShareVol(t)
             w == [writer[t] EXCEPT !.cache = writer[t].cache - 1, !.due = writer[t].due - 1,
                                    !.file = writer[t].file - 1]
  <1>1. /\ t \in Transfers /\ t \notin Uploads /\ ledger \in Ledgers /\ Main(t) \in Keys
        /\ VolOf(t) = Inbox /\ Inbox \in Volumes /\ CacheVol \in Volumes
        /\ Booking(t, ledger, writer[t], landed[t], partial[t])
    BY ReservationAssumption, KeyFacts, VolumeFacts
    DEF Transfers, Inv, Booked, TypeOK, Ledgers, VolOf
  <1>2. /\ writer[t] # None /\ writer[t].due > 0 /\ writer[t].file > 0
        /\ free' = IF separate THEN [v \in Volumes |-> free[v] - 1]
                   ELSE [free EXCEPT ![Inbox] = @ - 2]
        /\ foreign' = IF ~writer[t].stale THEN foreign
                      ELSE [v \in Volumes |-> foreign[v] + (IF separate THEN 1 ELSE 2)]
        /\ writer' = [writer EXCEPT ![t].cache = @ - 1, ![t].due = @ - 1, ![t].file = @ - 1]
        /\ partial' = [partial EXCEPT ![t] = @ + 1]
        /\ \A v \in Volumes : free'[v] >= 0
        /\ UNCHANGED <<landed, restarts>>
    BY SameVolumes DEF Chunk
  <1>3. /\ writer[t] \in Writer /\ writer[t].cache \in Nat /\ writer[t].file \in Nat
        /\ writer[t].due \in Nat /\ writer[t].held \in BOOLEAN /\ writer[t].stale \in BOOLEAN
        /\ writer[t].size \in Nat /\ writer[t].file <= writer[t].size
        /\ writer[t].due <= writer[t].cache
    BY <1>1, <1>2, WriterFacts DEF Inv
  <1>4. /\ w \in Writer /\ w # None /\ w.size = writer[t].size
        /\ w.cacheKey = writer[t].cacheKey /\ w.held = writer[t].held
        /\ w.stale = writer[t].stale /\ w.file = writer[t].file - 1
        /\ w.cache = writer[t].cache - 1 /\ w.due = writer[t].due - 1
    <2>1. /\ writer[t].cache - 1 \in Nat /\ writer[t].due - 1 \in Nat
          /\ writer[t].file - 1 \in Nat
      BY <1>2, <1>3
    <2>2. QED
      BY <1>3, <2>1, NoneFacts DEF Writer
  <1>5. writer' = [writer EXCEPT ![t] = w]
    BY <1>1, <1>2, <1>3 DEF Inv, TypeOK
  <1> HIDE DEF w
  <1>6. /\ writer' \in [Transfers -> Writer \cup {None}] /\ writer'[t] = w
        /\ \A u \in Transfers \ {t} : writer'[u] = writer[u]
        /\ \A u \in Transfers :
              writer'[u] # None => /\ writer'[u].file <= writer'[u].size
                                   /\ writer'[u].due <= writer'[u].cache
    <2>1. w.file <= w.size /\ w.due <= w.cache
      BY <1>3, <1>4
    <2>2. QED
      BY <1>1, <1>4, <1>5, <2>1, WriterStays DEF Inv
  <1>7. /\ c \in Keys /\ c[1] = t /\ cv \in Volumes /\ (c = Main(t) <=> cv = Inbox)
        /\ ~separate => c = Main(t)
        /\ writer[t].cacheKey # None => c = writer[t].cacheKey /\ cv = CacheVol
        /\ ~writer[t].held /\ Owed(writer[t]) = writer[t].due
        /\ Backed(writer[t]) => writer[t].cacheKey # None
        /\ ledger[cv][c] # None /\ ledger[Inbox][Main(t)] # None
        /\ separate /\ Backed(writer[t]) => ledger[cv][c].remaining >= writer[t].due
        /\ Backed(writer[t]) => ledger[Inbox][Main(t)].remaining >=
              writer[t].file + (IF separate THEN 0 ELSE writer[t].due)
    BY <1>2, ShareFacts
  <1>8. ~w.held /\ Owed(w) = w.due /\ (Backed(w) <=> Backed(writer[t]))
    BY <1>4, <1>7 DEF Owed, Backed
  <1>9. PICK q \in Reservation, r \in Reservation : Retired(t, q, r)
    BY ChunkBooks
  <1> DEFINE A == Put(ledger, cv, c, q)
  <1>10. /\ ledger' = Put(A, Inbox, Main(t), r)
         /\ Backed(writer[t]) => q.remaining = ledger[cv][c].remaining - 1
         /\ Backed(writer[t]) => r.remaining = A[Inbox][Main(t)].remaining - 1
         /\ q.peer = Owner[t] /\ r.peer = Owner[t]
    BY <1>9 DEF Retired
  <1> HIDE DEF c, cv
  <1>11. /\ A \in Ledgers /\ A[cv][c] = q /\ q # None
         /\ \A v \in Volumes, j \in Keys : v # cv \/ j # c => A[v][j] = ledger[v][j]
    BY SMTT(30), <1>1, <1>7, PutFacts, NoneFacts
  <1> HIDE DEF A
  <1>12. /\ ledger' \in Ledgers /\ ledger'[Inbox][Main(t)] = r /\ r # None
         /\ \A v \in Volumes, j \in Keys : v # Inbox \/ j # Main(t) => ledger'[v][j] = A[v][j]
    <2>1. r \in Reservation \cup {None} /\ r # None /\ A \in Ledgers
      BY <1>11, NoneFacts
    <2>2. QED
      BY SMTT(30), <1>1, <1>10, <2>1, PutFacts
  <1>13. /\ ledger[cv][c].remaining \in Nat /\ ledger[Inbox][Main(t)].remaining \in Nat
    BY <1>1, <1>7 DEF Ledgers, Reservation
  <1>14. Backed(w) => /\ r.remaining >= w.file + (IF separate THEN 0 ELSE w.due)
                      /\ separate => q.remaining >= w.due
    <2>1. SUFFICES ASSUME Backed(writer[t])
                   PROVE  /\ r.remaining >= w.file + (IF separate THEN 0 ELSE w.due)
                          /\ separate => q.remaining >= w.due
      BY <1>8
    <2>2. CASE separate
      <3>1. c # Main(t)
        BY <2>1, <2>2, <1>7, VolumeFacts
      <3>2. A[Inbox][Main(t)] = ledger[Inbox][Main(t)]
        BY <3>1, <1>1, <1>11
      <3>3. QED
        BY <2>1, <2>2, <3>2, <1>3, <1>4, <1>7, <1>10, <1>13
    <2>3. CASE ~separate
      <3>1. A[Inbox][Main(t)] = q /\ ledger[cv][c] = ledger[Inbox][Main(t)]
        BY <2>3, <1>7, <1>11
      <3>2. QED
        BY <2>1, <2>3, <3>1, <1>3, <1>4, <1>7, <1>10, <1>13
    <2>4. QED
      BY <2>2, <2>3
  <1>15. Booking(t, ledger', w, landed[t], partial[t] + 1)
    <2>1. /\ w.cacheKey \in ShareKeys(t) /\ w.file + (partial[t] + 1) = w.size + landed[t]
      <3>1. w.cacheKey \in ShareKeys(t)
        BY <1>1, <1>2, <1>4 DEF Booking
      <3>2. writer[t].file + partial[t] = writer[t].size + landed[t]
        BY <1>1, <1>2 DEF Booking
      <3>3. partial[t] \in Nat /\ landed[t] \in Nat
        BY <1>1 DEF Inv, TypeOK
      <3>4. QED
        BY <1>3, <1>4, <3>1, <3>2, <3>3
    <2>2. w.cacheKey # None =>
             /\ ledger'[CacheVol][w.cacheKey] # None
             /\ separate /\ Backed(w) => ledger'[CacheVol][w.cacheKey].remaining >= Owed(w)
      <3>1. SUFFICES ASSUME w.cacheKey # None
                     PROVE  /\ ledger'[cv][c] # None
                            /\ separate /\ Backed(w) => ledger'[cv][c].remaining >= w.due
        BY <1>4, <1>7, <1>8
      <3>2. CASE c = Main(t)
        <4>1. ledger'[cv][c] # None /\ cv = Inbox /\ cv = CacheVol
          BY <3>1, <3>2, <1>4, <1>7, <1>12
        <4>2. QED
          BY <4>1, VolumeFacts
      <3>3. CASE c # Main(t)
        BY <3>3, <1>7, <1>11, <1>12, <1>14
      <3>4. QED
        BY <3>2, <3>3
    <2>3. ASSUME NEW v \in Volumes, NEW kind \in Kinds, ledger'[v][<<t, kind>>] # None
          PROVE  /\ ledger'[v][<<t, kind>>].peer = Owner[t]
                 /\ ledger[v][<<t, kind>>] # None
      <3>1. <<t, kind>> \in Keys
        BY <1>1, KeyFacts
      <3>3. CASE v = Inbox /\ <<t, kind>> = Main(t)
        BY <1>7, <1>12, <1>10, <3>3
      <3>4. CASE ~(v = Inbox /\ <<t, kind>> = Main(t)) /\ v = cv /\ <<t, kind>> = c
        BY <1>7, <1>11, <1>12, <1>10, <3>1, <3>4
      <3>5. CASE ~(v = Inbox /\ <<t, kind>> = Main(t)) /\ ~(v = cv /\ <<t, kind>> = c)
        <4>1. ledger'[v][<<t, kind>>] = ledger[v][<<t, kind>>]
          BY <1>11, <1>12, <3>1, <3>5
        <4>2. QED
          BY <1>1, <2>3, <4>1 DEF Booking
      <3>6. QED
        BY <3>3, <3>4, <3>5
    <2>4. landed[t] # 1
      BY <1>1, <1>2, <1>3 DEF Booking
    <2>5. Backed(w) => w.cacheKey # None
      BY <1>4, <1>7, <1>8
    <2>6. \A v \in Volumes, kind \in Kinds :
             ledger'[v][<<t, kind>>] # None =>
                /\ kind = "main" => v = VolOf(t)
                /\ kind # "main" => separate /\ v = CacheVol /\ w.cacheKey = <<t, kind>>
      BY <1>1, <1>2, <1>4, <2>3 DEF Booking
    <2>7. QED
      BY <1>1, <1>4, <1>8, <1>12, <1>14, <2>1, <2>2, <2>3, <2>4, <2>5, <2>6 DEF Booking
  <1>16. TypeOK'
    <2>1. free' \in [Volumes -> Nat]
      BY <1>1, <1>2 DEF Inv, TypeOK
    <2>2. foreign' \in [Volumes -> Nat]
      BY <1>1, <1>2 DEF Inv, TypeOK
    <2>3. partial' \in [Transfers -> Nat] /\ ledger' \in Ledgers
      <3>1. partial \in [Transfers -> Nat] /\ partial' = [partial EXCEPT ![t] = @ + 1]
        BY <1>2 DEF Inv, TypeOK
      <3>2. partial' \in [Transfers -> Nat]
        BY <1>1, <3>1
      <3>3. QED
        BY <1>12, <3>2
    <2>4. QED
      BY <1>2, <1>6, <2>1, <2>2, <2>3, SameVolumes DEF Inv, TypeOK, Ledgers
  <1>17. Local(t)
    <2>1. \A u \in Transfers \ {t}, kind \in Kinds :
             <<u, kind>> \in Keys /\ <<u, kind>> # Main(t) /\ <<u, kind>> # c
      BY ZenonT(30), <1>7, KeyFacts DEF Main
    <2>2. QED
      BY <1>2, <1>6, <1>11, <1>12, <2>1 DEF Local, Inv, TypeOK
  <1>18. Booking(t, ledger', writer'[t], landed'[t], partial'[t])
    BY <1>1, <1>2, <1>6, <1>15 DEF Inv, TypeOK
  <1>19. QED
    BY <1>1, <1>16, <1>17, <1>18, LocalKeeps

\* One entry of a transfer in flight takes another remainder.
LEMMA EntryPut ==
    ASSUME Inv, NEW t \in Transfers, NEW v \in Volumes, NEW kind \in Kinds,
           NEW r \in Reservation, r.peer = Owner[t]
    PROVE  LET L == Put(ledger, v, <<t, kind>>, r)
           IN  /\ L \in Ledgers /\ L[v][<<t, kind>>] = r /\ r # None
               /\ \A w \in Volumes, j \in Kinds :
                     w # v \/ j # kind => L[w][<<t, j>>] = ledger[w][<<t, j>>]
               /\ \A u \in Transfers \ {t}, w \in Volumes, j \in Kinds :
                     L[w][<<u, j>>] = ledger[w][<<u, j>>]
  <1> DEFINE L == Put(ledger, v, <<t, kind>>, r)
  <1>1. ledger \in Ledgers /\ <<t, kind>> \in Keys /\ r \in Reservation \cup {None} /\ r # None
    BY KeyFacts, NoneFacts DEF Inv, TypeOK, Ledgers
  <1>2. /\ L \in Ledgers /\ L[v][<<t, kind>>] = r
        /\ \A w \in Volumes, j \in Keys : w # v \/ j # <<t, kind>> => L[w][j] = ledger[w][j]
    BY <1>1, PutFacts
  <1> HIDE DEF L
  <1>3. ASSUME NEW u \in Transfers, NEW w \in Volumes, NEW j \in Kinds,
               u # t \/ w # v \/ j # kind
        PROVE  L[w][<<u, j>>] = ledger[w][<<u, j>>]
    <2>1. <<u, j>> \in Keys /\ (w # v \/ <<u, j>> # <<t, kind>>)
      BY <1>3, KeyFacts
    <2>2. QED
      BY <1>2, <2>1
  <1>4. QED
    BY <1>1, <1>2, <1>3 DEF L

\* A worker thread's write keeps the bookings.
LEMMA ThreadWriteKeeps ==
    ASSUME Inv, separate' = separate, NEW t \in Transfers, ThreadWrite(t)
    PROVE  Inv'
  <1>1. /\ writer[t] # None /\ writer[t].cache = 0 /\ writer[t].file > 0
        /\ landed[t] = 0 /\ free[VolOf(t)] > 0
        /\ free' = [free EXCEPT ![VolOf(t)] = @ - 1]
        /\ landed' = [landed EXCEPT ![t] = 1]
        /\ partial' = [partial EXCEPT ![t] = @ + 1]
        /\ UNCHANGED <<ledger, writer, foreign, restarts>>
    BY DEF ThreadWrite
  <1>2. TypeOK'
    <2>1. free' \in [Volumes -> Nat]
      BY <1>1, VolumeFacts DEF Inv, TypeOK
    <2>2. partial' \in [Transfers -> Nat] /\ landed' \in [Transfers -> {0, 1}]
      BY <1>1 DEF Inv, TypeOK
    <2>3. QED
      BY <1>1, <2>1, <2>2, SameVolumes DEF Inv, TypeOK
  <1>3. Local(t)
    BY <1>1 DEF Local, Inv, TypeOK
  <1>4. Booking(t, ledger, writer[t], 1, partial[t] + 1)
    <2>1. Booking(t, ledger, writer[t], 0, partial[t])
      BY <1>1 DEF Inv, Booked
    <2>2. /\ partial[t] \in Nat /\ writer[t].file \in Nat /\ writer[t].size \in Nat
      BY <1>1, WriterFacts DEF Inv, TypeOK
    <2>3. t \in Files => writer[t].file + (partial[t] + 1) = writer[t].size + 1
      BY <1>1, <2>1, <2>2 DEF Booking
    <2>4. QED
      BY <1>1, <2>1, <2>2, <2>3 DEF Booking
  <1>5. landed'[t] = 1 /\ partial'[t] = partial[t] + 1 /\ ledger' = ledger /\ writer' = writer
    BY <1>1 DEF Inv, TypeOK
  <1>6. QED
    BY <1>2, <1>3, <1>4, <1>5, LocalKeeps

\* What a thread retires is the main entry's.
Charged(t, r) ==
    /\ ledger' = Put(ledger, VolOf(t), Main(t), r)
    /\ ledger[VolOf(t)][Main(t)] # None
    /\ r.peer = Owner[t] /\ r.declared = ledger[VolOf(t)][Main(t)].declared
    /\ r.remaining <= ledger[VolOf(t)][Main(t)].remaining
    /\ Backed(writer[t]) => /\ r.remaining = ledger[VolOf(t)][Main(t)].remaining - 1
                            /\ ledger[VolOf(t)][Main(t)].remaining >= writer[t].file
    /\ writer[t].file > 0 /\ writer[t].cache = 0 /\ landed[t] = 1

LEMMA ThreadConsumeBooks ==
    ASSUME Inv, NEW t \in Transfers, ThreadConsume(t)
    PROVE  \E r \in Reservation : Charged(t, r)
  <1>1. /\ landed[t] > 0 /\ writer[t] # None
        /\ ledger' = Consumed(ledger, VolOf(t), Main(t), 1)
    BY DEF ThreadConsume, Main
  <1>2. /\ ledger \in Ledgers /\ Main(t) \in Keys /\ VolOf(t) \in Volumes
        /\ landed[t] = 1 /\ Booking(t, ledger, writer[t], landed[t], partial[t])
    BY <1>1, KeyFacts, VolumeFacts DEF Inv, Booked, TypeOK, Ledgers
  <1>3. /\ writer[t].file > 0 /\ writer[t].cache = 0
        /\ ledger[VolOf(t)][Main(t)] # None
        /\ Backed(writer[t]) => ledger[VolOf(t)][Main(t)].remaining >=
               writer[t].file + (IF separate THEN 0 ELSE Owed(writer[t]))
    BY <1>1, <1>2 DEF Booking
  <1>4. ledger[VolOf(t)][Main(t)].peer = Owner[t]
    BY <1>2, <1>3 DEF Booking, Main, Kinds
  <1>5. writer[t].file \in Nat /\ ledger[VolOf(t)][Main(t)].remaining \in Nat
        /\ Owed(writer[t]) \in Nat
    BY <1>1, <1>2, <1>3, WriterFacts DEF Inv, Ledgers, Reservation, Owed
  <1>6. Backed(writer[t]) => /\ ledger[VolOf(t)][Main(t)].remaining >= 1
                             /\ ledger[VolOf(t)][Main(t)].remaining >= writer[t].file
    BY <1>3, <1>5
  <1>7. PICK r \in Reservation :
           /\ Consumed(ledger, VolOf(t), Main(t), 1) = Put(ledger, VolOf(t), Main(t), r)
           /\ ledger[VolOf(t)][Main(t)].remaining >= 1 =>
                 r.remaining = ledger[VolOf(t)][Main(t)].remaining - 1
           /\ r.remaining <= ledger[VolOf(t)][Main(t)].remaining
           /\ r.peer = ledger[VolOf(t)][Main(t)].peer
           /\ r.declared = ledger[VolOf(t)][Main(t)].declared
    BY <1>2, <1>3, ConsumedIsPut
  <1>8. Charged(t, r)
    BY <1>1, <1>2, <1>3, <1>4, <1>6, <1>7 DEF Charged
  <1>9. QED
    BY <1>8

\* Retiring a thread's write keeps the bookings.
LEMMA ThreadConsumeKeeps ==
    ASSUME Inv, separate' = separate, NEW t \in Transfers, ThreadConsume(t)
    PROVE  Inv'
  <1> DEFINE w == [writer[t] EXCEPT !.file = writer[t].file - 1]
  <1>1. /\ writer[t] # None /\ landed' = [landed EXCEPT ![t] = 0]
        /\ writer' = [writer EXCEPT ![t].file = @ - 1]
        /\ foreign' = IF ~writer[t].stale THEN foreign
                      ELSE [foreign EXCEPT ![VolOf(t)] = @ + 1]
        /\ UNCHANGED <<free, partial, restarts>>
    BY DEF ThreadConsume
  <1>2. PICK r \in Reservation : Charged(t, r)
    BY ThreadConsumeBooks
  <1>3. /\ ledger' = Put(ledger, VolOf(t), Main(t), r)
        /\ ledger[VolOf(t)][Main(t)] # None
        /\ r.peer = Owner[t]
        /\ Backed(writer[t]) => /\ r.remaining = ledger[VolOf(t)][Main(t)].remaining - 1
                                /\ ledger[VolOf(t)][Main(t)].remaining >= writer[t].file
        /\ writer[t].file > 0 /\ writer[t].cache = 0 /\ landed[t] = 1
    BY <1>2 DEF Charged
  <1>4. /\ writer[t] \in Writer /\ writer[t].file \in Nat /\ writer[t].size \in Nat
        /\ writer[t].file <= writer[t].size /\ writer[t].cacheKey \in Keys \cup {None}
        /\ partial[t] \in Nat /\ writer[t].due = 0
    BY <1>1, <1>3, WriterFacts DEF Inv, TypeOK
  <1>5. /\ w \in Writer /\ w # None /\ w.file = writer[t].file - 1
        /\ w.size = writer[t].size /\ w.cache = 0 /\ w.due = 0 /\ w.held = writer[t].held
        /\ w.stale = writer[t].stale /\ w.cacheKey = writer[t].cacheKey
    <2>1. writer[t].file - 1 \in Nat
      BY <1>3, <1>4
    <2>2. QED
      BY <1>3, <1>4, <2>1, NoneFacts DEF Writer
  <1>6. writer' = [writer EXCEPT ![t] = w]
    BY <1>1, <1>4 DEF Inv, TypeOK
  <1> HIDE DEF w
  <1>7. /\ writer' \in [Transfers -> Writer \cup {None}] /\ writer'[t] = w
        /\ \A u \in Transfers \ {t} : writer'[u] = writer[u]
        /\ \A u \in Transfers :
              writer'[u] # None => /\ writer'[u].file <= writer'[u].size
                                   /\ writer'[u].due <= writer'[u].cache
    <2>1. w.file <= w.size /\ w.due <= w.cache
      BY <1>4, <1>5
    <2>2. QED
      BY <1>5, <1>6, <2>1, WriterStays DEF Inv
  <1>8. /\ ledger' \in Ledgers /\ ledger'[VolOf(t)][Main(t)] = r /\ r # None
        /\ \A v \in Volumes, j \in Kinds :
              v # VolOf(t) \/ j # "main" => ledger'[v][<<t, j>>] = ledger[v][<<t, j>>]
        /\ \A u \in Transfers \ {t}, v \in Volumes, j \in Kinds :
              ledger'[v][<<u, j>>] = ledger[v][<<u, j>>]
    <2>1. /\ VolOf(t) \in Volumes /\ "main" \in Kinds /\ Main(t) = <<t, "main">>
          /\ ledger' = Put(ledger, VolOf(t), <<t, "main">>, r) /\ r.peer = Owner[t]
      BY <1>3, VolumeFacts DEF Main, Kinds
    <2>2. QED
      BY <2>1, EntryPut
  <1>9. Booking(t, ledger, writer[t], 1, partial[t])
    BY <1>3 DEF Inv, Booked
  <1>10. ledger[VolOf(t)][Main(t)].remaining \in Nat
    BY <1>3, KeyFacts, VolumeFacts DEF Inv, TypeOK, Reservation
  <1>11. Owed(w) = 0 /\ (Backed(w) <=> Backed(writer[t]))
    BY <1>5 DEF Owed, Backed
  <1>12. Booking(t, ledger', w, 0, partial[t])
    <2>1. Backed(w) => r.remaining >= w.file + (IF separate THEN 0 ELSE Owed(w))
      BY <1>3, <1>4, <1>5, <1>10, <1>11
    <2>2. t \in Files => w.file + partial[t] = w.size + 0
      BY <1>1, <1>4, <1>5, <1>9 DEF Booking
    <2>3. w.cacheKey # None =>
                /\ ledger'[CacheVol][w.cacheKey] # None
                /\ separate /\ Backed(w) =>
                      ledger'[CacheVol][w.cacheKey].remaining >= Owed(w)
      <3>1. SUFFICES ASSUME w.cacheKey # None
                     PROVE  /\ ledger'[CacheVol][w.cacheKey] # None
                            /\ separate /\ Backed(w) =>
                                  ledger'[CacheVol][w.cacheKey].remaining >= 0
        BY <1>11
      <3>2. w.cacheKey \in ShareKeys(t) /\ CacheVol \in Volumes /\ t \notin Uploads
        BY <1>1, <1>9, <1>5, <3>1, VolumeFacts DEF Booking, ShareKeys
      <3>3. CASE separate
        <4>1. Owed(writer[t]) = 0
          BY <1>3, <1>4 DEF Owed
        <4>2. QED
          BY <1>1, <1>5, <1>8, <1>9, <1>11, <3>1, <3>2, <3>3, <4>1 DEF Booking, ShareKeys, Kinds
      <3>4. CASE ~separate
        BY <1>8, <3>2, <3>4, VolumeFacts DEF ShareKeys, VolOf
      <3>5. QED
        BY <3>3, <3>4
    <2>4. ASSUME NEW v \in Volumes, NEW kind \in Kinds, ledger'[v][<<t, kind>>] # None
          PROVE  ledger[v][<<t, kind>>] # None /\ ledger'[v][<<t, kind>>].peer = Owner[t]
      <3>1. CASE v = VolOf(t) /\ kind = "main"
        BY <1>3, <1>8, <3>1 DEF Main
      <3>2. CASE ~(v = VolOf(t) /\ kind = "main")
        BY <1>8, <1>9, <2>4, <3>2 DEF Booking
      <3>3. QED
        BY <3>1, <3>2
    <2>5. QED
      BY <1>1, <1>5, <1>8, <1>9, <1>11, <2>1, <2>2, <2>3, <2>4 DEF Booking
  <1>13. landed' \in [Transfers -> {0, 1}] /\ landed'[t] = 0
         /\ \A u \in Transfers \ {t} : landed'[u] = landed[u]
    BY <1>1 DEF Inv, TypeOK
  <1>14. TypeOK'
    <2>1. foreign' \in [Volumes -> Nat]
      BY <1>1, VolumeFacts DEF Inv, TypeOK
    <2>2. ledger' \in Ledgers
      BY <1>8
    <2>3. QED
      BY <1>1, <1>7, <1>13, <2>1, <2>2, SameVolumes DEF Inv, TypeOK, Ledgers
  <1>15. Local(t)
    BY <1>1, <1>7, <1>8, <1>13 DEF Local
  <1>16. QED
    BY <1>1, <1>7, <1>12, <1>13, <1>14, <1>15, LocalKeeps

\* What a cache miss of n chunks does when the volume has no room for them, and
\* what it does with room: it books the entry of the share.
Missed(t, n, due, key) ==
    [writer[t] EXCEPT !.cache = n, !.due = due, !.cacheKey = key]

MissDenied(t, n) ==
    /\ ledger' = ledger
    /\ writer' = [writer EXCEPT ![t] = Missed(t, n, 0, writer[t].cacheKey)]

MissBooked(t, n, kind, r, due) ==
    LET k == <<t, kind>>
    IN  /\ ledger' = Put(ledger, CacheVol, k, r)
        /\ writer' = [writer EXCEPT ![t] = Missed(t, n, due, k)]
        /\ r.peer = Owner[t]
        /\ r.remaining = Remaining(ledger[CacheVol][k]) + n
        /\ ledger[CacheVol][k] # None => r.declared = ledger[CacheVol][k].declared
        /\ r.remaining + Promised(Release(ledger, CacheVol, k), CacheVol) + MinFree
              <= free[CacheVol]
        /\ kind = "main" <=> ~separate
        /\ separate /\ writer[t].cacheKey # None => k = writer[t].cacheKey
        /\ ~separate => ledger[CacheVol][k] # None

\* The entry a cache miss books, and that the volume has room for it.
LEMMA CacheMissBooks ==
    ASSUME Inv, NEW t \in Files, NEW n \in Nat, n > 0, NEW ask \in BOOLEAN,
           CacheMiss(t, n, ask)
    PROVE  \/ MissDenied(t, n)
           \/ \E kind \in Kinds, r \in Reservation, due \in 0..n :
                 MissBooked(t, n, kind, r, due)
  <1> DEFINE sep == writer[t].cacheKey
             k == CASE ~separate -> <<t, "main">>
                    [] separate /\ sep # None -> sep
                    [] OTHER -> <<t, "recovery">>
             cur == ledger[CacheVol][k]
             more == Remaining(cur) + n
             ok == IF cur = None THEN Fits(ledger, CacheVol, more)
                   ELSE MayResize(ledger, CacheVol, k, more)
             due == AskedAgain(ok, ask, n)
  <1>1. /\ t \in Transfers /\ t \notin Uploads /\ ledger \in Ledgers
        /\ VolOf(t) = Inbox /\ Inbox \in Volumes /\ CacheVol \in Volumes
        /\ Booking(t, ledger, writer[t], landed[t], partial[t])
    BY ReservationAssumption, VolumeFacts
    DEF Transfers, Inv, Booked, TypeOK, Ledgers, VolOf
  <1>2. /\ writer[t] # None
        /\ writer' = [writer EXCEPT ![t].cache = n, ![t].due = due,
                                    ![t].cacheKey = IF ok THEN k ELSE @]
        /\ ~ok => ledger' = ledger
        /\ ok /\ cur = None =>
              ledger' = Put(ledger, CacheVol, k, [peer |-> Owner[t],
                                    declared |-> n, remaining |-> more])
        /\ ok /\ cur # None => ledger' = Resized(ledger, CacheVol, k, more)
    <2>1. /\ writer[t] # None
          /\ writer' = [writer EXCEPT ![t].cache = n, ![t].due = due,
                                      ![t].cacheKey = IF ok THEN k ELSE @]
          /\ ledger' = CASE ~ok -> ledger
                         [] ok /\ cur = None -> Put(ledger, CacheVol, k,
                               [peer |-> Owner[t], declared |-> n, remaining |-> more])
                         [] OTHER -> Resized(ledger, CacheVol, k, more)
      BY DEF CacheMiss
    <2> HIDE DEF ok, k, more
    <2>2. QED
      BY <2>1
  <1>3. sep \in ShareKeys(t) /\ writer[t] \in Writer
    BY <1>1, <1>2, WriterFacts DEF Booking, Inv
  <1>4. PICK kind \in Kinds : k = <<t, kind>> /\ (kind = "main" <=> ~separate)
    <2>1. CASE ~separate
      BY <2>1 DEF Kinds
    <2>2. CASE separate /\ sep # None
      <3>1. k = sep /\ sep \in {<<t, "cache">>, <<t, "recovery">>}
        BY <1>1, <1>3, <2>2 DEF ShareKeys
      <3>2. QED
        BY <2>2, <3>1 DEF Kinds
    <2>3. CASE separate /\ sep = None
      BY <2>3 DEF Kinds
    <2>4. QED
      BY <2>1, <2>2, <2>3
  <1>5. separate /\ sep # None => k = sep
    OBVIOUS
  <1>6. due \in 0..n /\ (~ok => due = 0)
    <2> HIDE DEF ok
    <2>1. QED
      BY DEF AskedAgain
  <1>7. /\ ok => writer' = [writer EXCEPT ![t] = Missed(t, n, due, k)]
        /\ ~ok => writer' = [writer EXCEPT ![t] = Missed(t, n, due, sep)]
    <2> HIDE DEF k, ok, due
    <2>1. QED
      BY <1>1, <1>2, <1>3 DEF Inv, TypeOK, Missed
  <1> HIDE DEF k, sep, due
  <1>8. k \in Keys /\ cur \in Reservation \cup {None} /\ Remaining(cur) \in Nat
    <2>1. k \in Keys
      BY <1>1, <1>4, KeyFacts
    <2>2. QED
      BY <1>1, <2>1 DEF Ledgers, Remaining, Reservation
  <1>9. ~separate => cur # None
    <2>1. ASSUME ~separate PROVE k = Main(t)
      BY <2>1, <1>4 DEF Main
    <2>2. QED
      BY <1>1, <1>2, <2>1, VolumeFacts DEF Booking
  <1>10. CASE ok /\ cur = None
    <2> DEFINE r == [peer |-> Owner[t], declared |-> n, remaining |-> more]
    <2>1. Release(ledger, CacheVol, k) = ledger
      BY <1>1, <1>8, <1>10 DEF Release, Put, Ledgers
    <2>2. r \in Reservation /\ ledger' = Put(ledger, CacheVol, k, r)
      <3>1. more \in Nat
        BY <1>8
      <3> HIDE DEF more
      <3>2. QED
        BY <1>1, <1>2, <1>10, <3>1, EntryFacts
    <2>3. more + Promised(ledger, CacheVol) + MinFree <= free[CacheVol]
      BY <1>8, <1>10 DEF Fits
    <2>4. r.peer = Owner[t] /\ r.remaining = more
      OBVIOUS
    <2> HIDE DEF r
    <2>5. MissBooked(t, n, kind, r, due)
      <3> HIDE DEF ok
      <3>1. QED
        BY <1>4, <1>5, <1>7, <1>9, <1>10, <2>1, <2>2, <2>3, <2>4 DEF sep, MissBooked
    <2>6. QED
      BY <1>6, <2>2, <2>5
  <1>11. CASE ok /\ cur # None
    <2>1. cur.remaining \in Nat /\ Remaining(cur) = cur.remaining /\ more > cur.remaining
          /\ more \in Nat
      BY <1>8, <1>11 DEF Remaining, Reservation
    <2>2. more + Promised(Release(ledger, CacheVol, k), CacheVol) + MinFree <= free[CacheVol]
      BY <1>11, <2>1 DEF MayResize
    <2>3. ledger' = Resized(ledger, CacheVol, k, more)
      BY <1>2, <1>11
    <2>4. PICK r \in Reservation : /\ ledger' = Put(ledger, CacheVol, k, r)
                                   /\ r.remaining = more /\ r.peer = cur.peer
                                   /\ r.declared = cur.declared
      <3> HIDE DEF more
      <3>1. QED
        BY <1>1, <1>8, <1>11, <2>1, <2>3, ResizedIsPut
    <2>5. cur.peer = Owner[t]
      BY <1>1, <1>4, <1>11 DEF Booking
    <2>6. MissBooked(t, n, kind, r, due)
      <3> HIDE DEF ok
      <3>1. QED
        BY <1>4, <1>5, <1>7, <1>9, <1>11, <2>2, <2>4, <2>5 DEF sep, MissBooked
    <2>7. QED
      BY <1>6, <2>6
  <1>12. CASE ~ok
    <2> HIDE DEF ok
    <2>1. MissDenied(t, n)
      BY <1>2, <1>6, <1>7, <1>12 DEF MissDenied, sep
    <2>2. QED
      BY <2>1
  <1>13. QED
    BY <1>10, <1>11, <1>12

\* Booking chunks that will be sent again keeps the bookings, and so does
\* missing them without asking for them.
LEMMA CacheMissKeeps ==
    ASSUME Inv, separate' = separate, NEW t \in Files, NEW n \in Nat, n > 0,
           NEW ask \in BOOLEAN, CacheMiss(t, n, ask)
    PROVE  Inv'
  <1>1. /\ t \in Transfers /\ t \notin Uploads /\ VolOf(t) = Inbox
        /\ Inbox \in Volumes /\ CacheVol \in Volumes
    BY ReservationAssumption, VolumeFacts DEF Transfers, VolOf
  <1>2. /\ writer[t] # None /\ landed[t] = 0 /\ writer[t].cache = 0 /\ ~writer[t].held
        /\ UNCHANGED <<free, partial, landed, foreign, restarts>>
    BY DEF CacheMiss
  <1>3. /\ writer[t] \in Writer /\ writer[t].file \in Nat /\ writer[t].size \in Nat
        /\ writer[t].file <= writer[t].size /\ writer[t].due = 0
        /\ writer[t].cacheKey \in Keys \cup {None}
    BY <1>1, <1>2, WriterFacts DEF Inv
  <1>4. Booking(t, ledger, writer[t], 0, partial[t])
    BY <1>1, <1>2 DEF Inv, Booked
  <1>5. Owed(writer[t]) = 0
    BY <1>2, <1>3 DEF Owed
  <1> DEFINE After(w, due, key) ==
               /\ w \in Writer /\ w # None /\ w.file = writer[t].file /\ w.size = writer[t].size
               /\ w.cache = n /\ w.due = due /\ w.held = FALSE /\ w.cacheKey = key
               /\ Owed(w) = due /\ (Backed(w) <=> Backed(writer[t]))
               /\ writer' \in [Transfers -> Writer \cup {None}] /\ writer'[t] = w
               /\ \A u \in Transfers \ {t} : writer'[u] = writer[u]
               /\ \A u \in Transfers :
                     writer'[u] # None => /\ writer'[u].file <= writer'[u].size
                                          /\ writer'[u].due <= writer'[u].cache
  <1> HIDE DEF After
  <1>6. ASSUME NEW due \in 0..n, NEW key \in Keys \cup {None}, NEW w,
               w = Missed(t, n, due, key), writer' = [writer EXCEPT ![t] = w]
        PROVE  After(w, due, key)
    <2>1. due \in Nat /\ due <= n
      OBVIOUS
    <2>2. /\ w \in Writer /\ w # None /\ w.file = writer[t].file /\ w.size = writer[t].size
          /\ w.cache = n /\ w.due = due /\ w.held = writer[t].held /\ w.cacheKey = key
          /\ w.stale = writer[t].stale
      BY <1>3, <1>6, <2>1, NoneFacts DEF Writer, Missed
    <2>3. w.held = FALSE /\ Owed(w) = due /\ (Backed(w) <=> Backed(writer[t]))
      <3>1. writer[t].held \in BOOLEAN
        BY <1>1, <1>2, WriterFacts DEF Inv
      <3>2. QED
        BY <1>2, <2>2, <3>1 DEF Owed, Backed
    <2>4. w.file <= w.size /\ w.due <= w.cache
      BY <1>3, <2>1, <2>2
    <2>5. QED
      BY <1>1, <1>6, <2>2, <2>3, <2>4, WriterStays DEF Inv, After
  <1>7. CASE MissDenied(t, n)
    <2>1. PICK w : w = Missed(t, n, 0, writer[t].cacheKey)
      OBVIOUS
    <2>2. ledger' = ledger /\ writer' = [writer EXCEPT ![t] = w]
      BY <1>7, <2>1 DEF MissDenied
    <2>3. 0 \in 0..n
      OBVIOUS
    <2>4. /\ w \in Writer /\ w # None /\ w.file = writer[t].file /\ w.size = writer[t].size
          /\ w.cache = n /\ w.due = 0 /\ w.held = FALSE /\ w.cacheKey = writer[t].cacheKey
          /\ Owed(w) = 0 /\ (Backed(w) <=> Backed(writer[t]))
          /\ writer' \in [Transfers -> Writer \cup {None}] /\ writer'[t] = w
          /\ \A u \in Transfers \ {t} : writer'[u] = writer[u]
          /\ \A u \in Transfers :
                writer'[u] # None => /\ writer'[u].file <= writer'[u].size
                                     /\ writer'[u].due <= writer'[u].cache
      <3>1. After(w, 0, writer[t].cacheKey)
        BY <1>3, <1>6, <2>1, <2>2, <2>3
      <3>2. QED
        BY <3>1 DEF After
    <2>5. Booking(t, ledger, w, 0, partial[t])
      <3>1. \A v \in Volumes, k \in Keys :
               ledger[v][k] # None => ledger[v][k].remaining \in Nat
        BY DEF Inv, TypeOK, Reservation
      <3>2. /\ Owed(w) \in Nat /\ Owed(writer[t]) \in Nat /\ 0 # 1
            /\ (Backed(w) => Backed(writer[t]) /\ Owed(w) <= Owed(writer[t]))
            /\ w.held => w.due = 0
        BY <1>5, <2>4
      <3>3. QED
        BY <1>1, <1>2, <1>3, <1>4, <2>4, <3>1, <3>2, BookedShrinks
    <2>6. TypeOK'
      BY <1>2, <2>2, <2>4, SameVolumes DEF Inv, TypeOK
    <2>7. Local(t)
      BY <1>2, <2>2, <2>4 DEF Local
    <2>8. Booking(t, ledger', writer'[t], landed'[t], partial'[t])
      BY <1>2, <2>2, <2>4, <2>5
    <2>9. QED
      BY <1>1, <2>6, <2>7, <2>8, LocalKeeps
  <1>8. ASSUME NEW kind \in Kinds, NEW r \in Reservation, NEW due \in 0..n,
               MissBooked(t, n, kind, r, due)
        PROVE  Inv'
    <2> DEFINE k == <<t, kind>>
    <2>1. /\ ledger' = Put(ledger, CacheVol, k, r)
          /\ r.peer = Owner[t]
          /\ r.remaining = Remaining(ledger[CacheVol][k]) + n
          /\ kind = "main" <=> ~separate
          /\ separate /\ writer[t].cacheKey # None => k = writer[t].cacheKey
          /\ ~separate => ledger[CacheVol][k] # None
      BY <1>8 DEF MissBooked
    <2>2. PICK w : w = Missed(t, n, due, k)
      OBVIOUS
    <2>3. writer' = [writer EXCEPT ![t] = w]
      BY <1>8, <2>2 DEF MissBooked
    <2>4. k \in Keys
      BY <1>1, KeyFacts
    <2>5. /\ w \in Writer /\ w # None /\ w.file = writer[t].file /\ w.size = writer[t].size
          /\ w.cache = n /\ w.due = due /\ w.held = FALSE /\ w.cacheKey = k
          /\ Owed(w) = due /\ (Backed(w) <=> Backed(writer[t]))
          /\ writer' \in [Transfers -> Writer \cup {None}] /\ writer'[t] = w
          /\ \A u \in Transfers \ {t} : writer'[u] = writer[u]
          /\ \A u \in Transfers :
                writer'[u] # None => /\ writer'[u].file <= writer'[u].size
                                     /\ writer'[u].due <= writer'[u].cache
      <3> HIDE DEF k
      <3>1. After(w, due, k)
        BY <1>6, <2>2, <2>3, <2>4
      <3>2. QED
        BY <3>1 DEF After
    <2>6. /\ ledger' \in Ledgers /\ ledger'[CacheVol][k] = r /\ r # None
          /\ \A v \in Volumes, j \in Kinds :
                v # CacheVol \/ j # kind => ledger'[v][<<t, j>>] = ledger[v][<<t, j>>]
          /\ \A u \in Transfers \ {t}, v \in Volumes, j \in Kinds :
                ledger'[v][<<u, j>>] = ledger[v][<<u, j>>]
      BY <1>1, <2>1, EntryPut
    <2>7. Booking(t, ledger', w, 0, partial[t])
      <3>1. k \in ShareKeys(t) /\ k # None
        <4>1. CASE separate
          BY <1>1, <2>1, <2>4, <4>1, NoneFacts DEF ShareKeys, Kinds
        <4>2. CASE ~separate
          BY <1>1, <2>1, <2>4, <4>2, NoneFacts DEF ShareKeys, Main
        <4>3. QED
          BY <4>1, <4>2
      <3>2. Remaining(ledger[CacheVol][k]) \in Nat
        BY <1>1, <2>4 DEF Inv, TypeOK, Remaining, Reservation
      <3>3. /\ ledger'[Inbox][Main(t)] # None
            /\ Backed(w) => ledger'[Inbox][Main(t)].remaining >=
                               w.file + (IF separate THEN 0 ELSE due)
        <4>1. CASE separate
          <5>1. ledger'[Inbox][Main(t)] = ledger[Inbox][Main(t)]
            BY <1>1, <2>1, <2>6, <4>1 DEF Main, Kinds
          <5>2. QED
            BY <1>1, <1>2, <1>4, <2>5, <4>1, <5>1 DEF Booking
        <4>2. CASE ~separate
          <5>1. k = Main(t) /\ ledger'[Inbox][Main(t)] = r /\ CacheVol = Inbox
            BY <2>1, <2>6, <4>2, VolumeFacts DEF Main
          <5>2. /\ ledger[Inbox][Main(t)] # None
                /\ Backed(w) => ledger[Inbox][Main(t)].remaining >= writer[t].file + 0
            BY <1>1, <1>2, <1>4, <1>5, <2>5, <4>2 DEF Booking
          <5>3. r.remaining = ledger[Inbox][Main(t)].remaining + n
                /\ ledger[Inbox][Main(t)].remaining \in Nat
            BY <2>1, <3>2, <5>1, <5>2 DEF Remaining
          <5>4. QED
            BY <1>3, <2>5, <2>6, <4>2, <5>1, <5>2, <5>3
        <4>3. QED
          BY <4>1, <4>2
      <3>4. r.remaining >= due
        BY <2>1, <3>2
      <3>5. ASSUME NEW v \in Volumes, NEW j \in Kinds, ledger'[v][<<t, j>>] # None
            PROVE  /\ ledger'[v][<<t, j>>].peer = Owner[t]
                   /\ j = "main" => v = VolOf(t)
                   /\ j # "main" => separate /\ v = CacheVol /\ k = <<t, j>>
        <4>1. CASE v = CacheVol /\ j = kind
          BY <1>1, <2>1, <2>6, <4>1, VolumeFacts
        <4>2. CASE ~(v = CacheVol /\ j = kind)
          <5>1. ledger[v][<<t, j>>] # None /\ ledger'[v][<<t, j>>] = ledger[v][<<t, j>>]
            BY <2>6, <3>5, <4>2
          <5>2. /\ ledger[v][<<t, j>>].peer = Owner[t]
                /\ j = "main" => v = VolOf(t)
                /\ j # "main" => separate /\ v = CacheVol /\ writer[t].cacheKey = <<t, j>>
            BY <1>4, <5>1 DEF Booking
          <5>3. j # "main" => k = <<t, j>>
            <6>1. j # "main" => <<t, j>> # None
              BY <1>1, KeyFacts, NoneFacts
            <6>2. QED
              BY <2>1, <5>2, <6>1
          <5>4. QED
            BY <5>1, <5>2, <5>3
        <4>3. QED
          BY <4>1, <4>2
      <3>6. w.file + partial[t] = w.size + 0
        BY <1>2, <1>4, <2>5 DEF Booking
      <3> HIDE DEF k
      <3>7. QED
        BY <1>1, <2>5, <2>6, <3>1, <3>3, <3>4, <3>5, <3>6 DEF Booking
    <2>8. TypeOK'
      <3>1. ledger' \in Ledgers
        BY <2>6
      <3>2. QED
        BY <1>2, <2>5, <3>1, SameVolumes DEF Inv, TypeOK, Ledgers
    <2>9. Local(t)
      BY <1>2, <2>5, <2>6 DEF Local
    <2>10. Booking(t, ledger', writer'[t], landed'[t], partial'[t])
      BY <1>2, <2>5, <2>7
    <2>11. QED
      BY <1>1, <2>8, <2>9, <2>10, LocalKeeps
  <1>9. QED
    BY <1>7, <1>8, CacheMissBooks

\* An upload that reserves its size keeps the bookings.
LEMMA UploadKeeps ==
    ASSUME Inv, separate' = separate, NEW t \in Uploads, NEW size \in Nat, Upload(t, size)
    PROVE  Inv'
  <1> DEFINE r == [peer |-> Owner[t], declared |-> size, remaining |-> size]
             w == [size |-> size, file |-> size, cache |-> 0, due |-> 0, held |-> FALSE,
                   stale |-> FALSE, cacheKey |-> None]
  <1>1. /\ t \in Transfers /\ t \notin Files /\ VolOf(t) = CacheVol /\ CacheVol \in Volumes
        /\ "main" \in Kinds
    BY ReservationAssumption, VolumeFacts DEF Transfers, VolOf, Kinds
  <1>2. /\ writer[t] = None
        /\ ledger' = Put(ledger, CacheVol, <<t, "main">>, r)
        /\ writer' = [writer EXCEPT ![t] = w]
        /\ UNCHANGED <<free, partial, landed, foreign, restarts>>
    BY DEF Upload
  <1>3. r \in Reservation /\ r.peer = Owner[t] /\ r.remaining = size
    BY <1>1, EntryFacts
  <1>4. w \in Writer /\ w # None /\ w.cacheKey = None /\ w.cache = 0 /\ w.file = size
        /\ w.size = size /\ w.due = 0 /\ w.held = FALSE /\ Owed(w) = 0
    <2>1. w \in Writer
      BY DEF Writer
    <2>2. Owed(w) = 0
      BY DEF Owed
    <2>3. QED
      BY <2>1, <2>2, NoneFacts
  <1> HIDE DEF r, w
  <1>5. /\ ledger' \in Ledgers /\ ledger'[CacheVol][<<t, "main">>] = r /\ r # None
        /\ \A v \in Volumes, j \in Kinds :
              v # CacheVol \/ j # "main" => ledger'[v][<<t, j>>] = ledger[v][<<t, j>>]
        /\ \A u \in Transfers \ {t}, v \in Volumes, j \in Kinds :
              ledger'[v][<<u, j>>] = ledger[v][<<u, j>>]
    BY <1>1, <1>2, <1>3, EntryPut
  <1>6. Booking(t, ledger, None, landed[t], partial[t])
    BY <1>1, <1>2 DEF Inv, Booked
  <1>7. Booking(t, ledger', w, landed[t], partial[t])
    <2>1. \A v \in Volumes, j \in Kinds : ledger[v][<<t, j>>] = None
      BY <1>6 DEF Booking
    <2>2. landed[t] # 1
      BY <1>6 DEF Booking
    <2>3. w.cacheKey \in ShareKeys(t)
      BY <1>4 DEF ShareKeys
    <2>4. \A v \in Volumes, j \in Kinds :
             ledger'[v][<<t, j>>] # None => v = CacheVol /\ j = "main"
      BY <1>5, <2>1
    <2>5. size >= size + 0
      OBVIOUS
    <2>6. QED
      BY <1>1, <1>3, <1>4, <1>5, <2>2, <2>3, <2>4, <2>5 DEF Booking, Main
  <1>8. writer'[t] = w /\ writer' \in [Transfers -> Writer \cup {None}]
        /\ \A u \in Transfers \ {t} : writer'[u] = writer[u]
    BY <1>1, <1>2, <1>4 DEF Inv, TypeOK
  <1>9. TypeOK'
    <2>1. \A u \in Transfers :
             writer'[u] # None => /\ writer'[u].file <= writer'[u].size
                                  /\ writer'[u].due <= writer'[u].cache
      BY <1>4, <1>8 DEF Inv, TypeOK
    <2>2. QED
      BY <1>2, <1>5, <1>8, <2>1, SameVolumes DEF Inv, TypeOK, Ledgers
  <1>10. Local(t)
    BY <1>2, <1>5, <1>8 DEF Local
  <1>11. QED
    BY <1>1, <1>2, <1>7, <1>8, <1>9, <1>10, LocalKeeps

\* Space taken by other programs changes no booking.
LEMMA ForeignKeeps ==
    ASSUME Inv, separate' = separate, NEW v \in Volumes, Foreign(v)
    PROVE  Inv'
  <1>1. /\ foreign[v] < MaxForeign /\ free[v] > 0
        /\ foreign' = [foreign EXCEPT ![v] = @ + 1] /\ free' = [free EXCEPT ![v] = @ - 1]
        /\ UNCHANGED <<ledger, writer, partial, landed, restarts>>
    BY DEF Foreign
  <1>2. TypeOK'
    <2>1. free' \in [Volumes -> Nat]
      BY <1>1 DEF Inv, TypeOK
    <2>2. foreign' \in [Volumes -> Nat]
      BY <1>1 DEF Inv, TypeOK
    <2>3. QED
      BY <1>1, <2>1, <2>2, SameVolumes DEF Inv, TypeOK
  <1>3. ASSUME NEW t \in Transfers PROVE Booked(t)'
    <2>1. Booked(t)
      BY DEF Inv
    <2>2. QED
      BY <1>1, <2>1, SameVolumes DEF Booked, Booking
  <1>4. QED
    BY <1>2, <1>3 DEF Inv

\* Empty ledgers book nothing, whatever partials are on disk.
LEMMA RestartKeeps ==
    ASSUME Inv, separate' = separate, Restart
    PROVE  Inv'
  <1>1. /\ restarts < MaxRestarts /\ restarts' = restarts + 1
        /\ ledger' = [v \in Volumes |-> [k \in Keys |-> None]]
        /\ writer' = [t \in Transfers |-> None]
        /\ landed' = [t \in Transfers |-> 0]
        /\ partial' = [t \in Transfers |-> IF t \in Uploads THEN 0 ELSE partial[t]]
        /\ UNCHANGED <<free, foreign>>
    BY DEF Restart
  <1>2. TypeOK'
    <2>1. restarts' \in 0..MaxRestarts
      BY <1>1, ReservationAssumption DEF Inv, TypeOK
    <2>2. partial' \in [Transfers -> Nat]
      BY <1>1 DEF Inv, TypeOK
    <2>3. QED
      BY <1>1, <2>1, <2>2, SameVolumes DEF Inv, TypeOK
  <1>3. ASSUME NEW t \in Transfers PROVE Booked(t)'
    <2>1. \A v \in Volumes, kind \in Kinds : ledger'[v][<<t, kind>>] = None
      BY <1>1, KeyFacts
    <2>2. writer'[t] = None /\ landed'[t] = 0
      BY <1>1
    <2>3. QED
      BY <2>1, <2>2, SameVolumes DEF Booked, Booking
  <1>4. QED
    BY <1>2, <1>3 DEF Inv

-----------------------------------------------------------------------------
(* The bookings hold in every reachable state.                             *)

LEMMA InitBooked == Init => Inv
  <1>1. SUFFICES ASSUME Init PROVE Inv
    OBVIOUS
  <1>2. TypeOK
    BY <1>1, ReservationAssumption DEF Init, TypeOK
  <1>3. ASSUME NEW t \in Transfers PROVE Booked(t)
    <2>1. \A v \in Volumes, kind \in Kinds : ledger[v][<<t, kind>>] = None
      BY <1>1, KeyFacts DEF Init
    <2>2. writer[t] = None /\ landed[t] = 0
      BY <1>1 DEF Init
    <2>3. QED
      BY <2>1, <2>2 DEF Booked, Booking
  <1>4. QED
    BY <1>2, <1>3 DEF Inv

LEMMA StepKeepsBooked == Inv /\ [Next]_vars => Inv'
  <1>1. SUFFICES ASSUME Inv, Next \/ UNCHANGED vars PROVE Inv'
    OBVIOUS
  <1>2. CASE UNCHANGED vars
    <2>1. TypeOK'
      BY <1>1, <1>2 DEF vars, Inv, TypeOK, Volumes, CacheVol
    <2>2. ASSUME NEW t \in Transfers PROVE Booked(t)'
      <3>1. Booked(t) /\ separate' = separate
        BY <1>1, <1>2 DEF Inv, vars
      <3>2. QED
        BY <1>2, <3>1, SameVolumes DEF Booked, Booking, vars
    <2>3. QED
      BY <2>1, <2>2 DEF Inv
  <1>3. CASE Next
    <2>1. separate' = separate /\ Step /\ Sizes \subseteq Nat
      BY <1>3, ReservationAssumption DEF Next
    <2>2. ASSUME NEW t \in Files, NEW size \in Sizes, NEW missing \in 0..size,
                 \/ \E hold \in BOOLEAN : OfferAdmitted(t, size, missing, hold)
                 \/ OfferRefused(t, size, missing)
          PROVE  Inv'
      <3>1. size \in Nat /\ missing \in Nat
        BY <2>1
      <3>2. QED
        BY <1>1, <2>1, <2>2, <3>1, OfferAdmittedKeeps, OfferRefusedKeeps
    <2>3. ASSUME NEW t \in Uploads, NEW size \in Sizes, Upload(t, size) PROVE Inv'
      BY <1>1, <2>1, <2>3, UploadKeeps
    <2>4. ASSUME NEW t \in Files, Accept(t) \/ SwarmAssist(t) \/ Chunk(t) PROVE Inv'
      BY <1>1, <2>1, <2>4, AcceptKeeps, SwarmAssistKeeps, ChunkKeeps
    <2>5. ASSUME NEW t \in Files, Park(t) PROVE Inv'
      BY <1>1, <2>1, <2>5, EndKeeps DEF Park, Transfers
    <2>6. ASSUME NEW t \in Files, NEW n \in Sizes, NEW ask \in BOOLEAN, n > 0,
                 CacheMiss(t, n, ask)
          PROVE  Inv'
      BY <1>1, <2>1, <2>6, CacheMissKeeps
    <2>7. ASSUME NEW t \in Transfers, ThreadWrite(t) PROVE Inv'
      BY <1>1, <2>1, <2>7, ThreadWriteKeeps
    <2>8. ASSUME NEW t \in Transfers, ThreadConsume(t) PROVE Inv'
      BY <1>1, <2>1, <2>8, ThreadConsumeKeeps
    <2>9. ASSUME NEW t \in Transfers, Finish(t) PROVE Inv'
      BY <1>1, <2>1, <2>9, EndKeeps DEF Finish
    <2>10. ASSUME NEW t \in Transfers, Abort(t) PROVE Inv'
      BY <1>1, <2>1, <2>10, AbortKeeps
    <2>11. ASSUME NEW v \in Volumes, Foreign(v) PROVE Inv'
      BY <1>1, <2>1, <2>11, ForeignKeeps
    <2>12. ASSUME Restart PROVE Inv'
      BY <1>1, <2>1, <2>12, RestartKeeps
    <2>13. QED
      BY <1>1, <2>1, <2>2, <2>3, <2>4, <2>5, <2>6, <2>7, <2>8, <2>9, <2>10, <2>11, <2>12 DEF Step
  <1>4. QED
    BY <1>1, <1>2, <1>3

LEMMA AlwaysBooked == Spec => []Inv
  BY InitBooked, StepKeepsBooked, PTL DEF Spec

\* Ledgers, writers and free space stay well formed, and no partial goes
\* missing: what is written and what is still to be written add up.
THEOREM TypeCorrect == Spec => []TypeOK
  <1>1. Inv => TypeOK
    BY DEF Inv
  <1>2. QED
    BY <1>1, AlwaysBooked, PTL

\* The bytes a sender was asked for are promised to its transfer, on the inbox
\* and on the cache volume, although a refused retry, a cache that lost chunks
\* and has no space for them and a held offer all leave larger missing sets
\* behind, as long as no held offer is accepted after a refused retry of it.
THEOREM WritersCovered == Spec => []WriterCovered
  <1>1. ASSUME Inv PROVE WriterCovered
    <2>1. SUFFICES ASSUME NEW t \in Transfers, writer[t] # None
                   PROVE  /\ ledger[VolOf(t)][Main(t)] # None
                          /\ Backed(writer[t]) => Covered(t)
      BY DEF WriterCovered, Backed, Main
    <2>2. Booking(t, ledger, writer[t], landed[t], partial[t])
      BY <1>1 DEF Inv, Booked
    <2>3. /\ writer[t].cache \in Nat /\ writer[t].due \in Nat /\ writer[t].file \in Nat
          /\ writer[t].due <= writer[t].cache /\ writer[t].cacheKey \in Keys \cup {None}
      BY <1>1, <2>1, WriterFacts DEF Inv
    <2>4. Owed(writer[t]) \in Nat /\ writer[t].due <= Owed(writer[t])
      BY <2>3 DEF Owed
    <2>5. ledger \in Ledgers /\ VolOf(t) \in Volumes /\ Main(t) \in Keys /\ CacheVol \in Volumes
      BY <1>1, KeyFacts, VolumeFacts DEF Inv, TypeOK, Ledgers
    <2>6. ledger[VolOf(t)][Main(t)] # None /\ ledger[VolOf(t)][Main(t)].remaining \in Nat
      BY <2>1, <2>2, <2>5 DEF Booking, Ledgers, Reservation
    <2>7. ASSUME Backed(writer[t]) PROVE Covered(t)
      <3>1. ledger[VolOf(t)][Main(t)].remaining >=
               writer[t].file + (IF separate THEN 0 ELSE writer[t].due)
        <4>1. ledger[VolOf(t)][Main(t)].remaining >=
                 writer[t].file + (IF separate THEN 0 ELSE Owed(writer[t]))
          BY <2>1, <2>2, <2>7 DEF Booking
        <4>2. QED
          BY <2>3, <2>4, <2>6, <4>1
      <3>2. ASSUME separate, writer[t].due > 0
            PROVE  /\ writer[t].cacheKey # None /\ ledger[CacheVol][writer[t].cacheKey] # None
                   /\ ledger[CacheVol][writer[t].cacheKey].remaining >= writer[t].due
        <4>1. writer[t].cacheKey # None
          BY <2>1, <2>2, <2>3, <2>4, <2>7, <3>2 DEF Booking
        <4>2. /\ ledger[CacheVol][writer[t].cacheKey] # None
              /\ ledger[CacheVol][writer[t].cacheKey].remaining >= Owed(writer[t])
          BY <2>1, <2>2, <2>7, <3>2, <4>1 DEF Booking
        <4>3. ledger[CacheVol][writer[t].cacheKey].remaining \in Nat
          BY <2>3, <2>5, <4>1, <4>2 DEF Ledgers, Reservation
        <4>4. QED
          BY <2>3, <2>4, <4>1, <4>2, <4>3
      <3>3. QED
        BY <3>1, <3>2 DEF Covered, Main
    <2>8. QED
      BY <2>6, <2>7
  <1>2. QED
    BY <1>1, AlwaysBooked, PTL

\* No promise outlives its transfer, on either ledger, whichever of commit,
\* park, abort, refusal or restart ends it.
THEOREM NoPromiseLeaks == Spec => []NoLeak
  <1>1. ASSUME Inv PROVE NoLeak
    <2>1. SUFFICES ASSUME NEW v \in Volumes, NEW k \in Keys, ledger[v][k] # None
                   PROVE  /\ writer[k[1]] # None
                          /\ k[2] # "main" => writer[k[1]].cacheKey = k
      BY DEF NoLeak
    <2>2. k[1] \in Transfers /\ k[2] \in Kinds /\ k = <<k[1], k[2]>>
      BY KeyFacts
    <2>3. Booking(k[1], ledger, writer[k[1]], landed[k[1]], partial[k[1]])
      BY <1>1, <2>2 DEF Inv, Booked
    <2>4. QED
      BY <2>1, <2>2, <2>3 DEF Booking
  <1>2. QED
    BY <1>1, AlwaysBooked, PTL
-----------------------------------------------------------------------------
(* What a booking does to the sums.                                        *)

\* The promises of a volume fit into the room it has, and the inbox is
\* within its quotas.
Fit(L, v, room) == Promised(L, v) > 0 => Promised(L, v) + MinFree <= room
Room(v) == free[v] + foreign[v] + Landed(v)
WithinLimits(L) ==
    /\ \A t \in Transfers :
          /\ Cardinality(HeldBy(L, Inbox, Owner[t])) <= MaxPerPeer
          /\ Declared(L, Inbox, Owner[t]) <= MaxBytesPerPeer
    /\ Cardinality(Held(L, Inbox)) <= MaxActive

\* A booking changes the promises of its volume by what it books.
LEMMA PromisedPut ==
    ASSUME NEW L \in Ledgers, NEW v \in Volumes, NEW k \in Keys,
           NEW r \in Reservation \cup {None}
    PROVE  /\ Promised(L, v) \in Nat /\ Promised(Put(L, v, k, r), v) \in Nat
           /\ Remaining(r) \in Nat /\ Remaining(L[v][k]) \in Nat
           /\ Promised(Put(L, v, k, r), v) + Remaining(L[v][k]) = Promised(L, v) + Remaining(r)
           /\ \A w \in Volumes : w # v => Promised(Put(L, v, k, r), w) = Promised(L, w)
  <1> DEFINE N == Put(L, v, k, r)
             f == [j \in Keys |-> Remaining(L[v][j])]
             g == [j \in Keys |-> Remaining(N[v][j])]
  <1>1. /\ N \in Ledgers /\ N[v][k] = r
        /\ \A w \in Volumes, j \in Keys : w # v \/ j # k => N[w][j] = L[w][j]
    BY PutFacts
  <1> HIDE DEF N
  <1>2. \A x \in Reservation \cup {None} : Remaining(x) \in Nat
    BY DEF Remaining, Reservation
  <1>3. \A j \in Keys : L[v][j] \in Reservation \cup {None} /\ N[v][j] \in Reservation \cup {None}
    BY <1>1 DEF Ledgers
  <1>4. \A j \in Keys : f[j] \in Nat /\ g[j] \in Nat
    BY <1>2, <1>3
  <1>5. /\ \A j \in Keys \ {k} : f[j] = g[j]
        /\ f[k] = Remaining(L[v][k]) /\ g[k] = Remaining(r)
    BY <1>1
  <1>6. Promised(L, v) = Sum(f, Keys) /\ Promised(N, v) = Sum(g, Keys)
    BY DEF Promised, Sum
  <1> HIDE DEF f, g
  <1>7. Sum(f, Keys) \in Nat /\ Sum(g, Keys) \in Nat
    BY <1>4, KeyFacts, SumNat
  <1>8. Sum(g, Keys) + f[k] = Sum(f, Keys) + g[k]
    BY <1>4, <1>5, KeyFacts, SumChanges
  <1>9. ASSUME NEW w \in Volumes, w # v PROVE Promised(N, w) = Promised(L, w)
    <2>1. \A j \in Keys : N[w][j] = L[w][j]
      BY <1>1, <1>9
    <2>2. [j \in Keys |-> Remaining(N[w][j])] = [j \in Keys |-> Remaining(L[w][j])]
      BY <2>1
    <2>3. QED
      BY <2>2 DEF Promised
  <1>10. QED
    BY <1>2, <1>3, <1>5, <1>6, <1>7, <1>8, <1>9 DEF N

\* Every volume has at least its free bytes as room.
LEMMA RoomFacts ==
    ASSUME TypeOK, NEW v \in Volumes
    PROVE  /\ Room(v) \in Nat /\ free[v] \in Nat /\ Landed(v) \in Nat /\ foreign[v] \in Nat
           /\ free[v] <= Room(v)
  <1>1. IsFiniteSet({t \in Transfers : VolOf(t) = v})
    BY FS_Subset, ReservationAssumption
  <1>2. \A t \in {u \in Transfers : VolOf(u) = v} : landed[t] \in Nat
    BY DEF TypeOK
  <1>3. Landed(v) \in Nat
    BY <1>1, <1>2, SumNat DEF Landed, Sum
  <1>4. free[v] \in Nat /\ foreign[v] \in Nat
    BY ReservationAssumption DEF TypeOK
  <1>5. QED
    BY <1>3, <1>4 DEF Room

\* A booking that is not larger than the one before, or that was tested with
\* all others, leaves the promises in the room there is.
LEMMA PutFits ==
    ASSUME NEW L \in Ledgers, NEW v \in Volumes, NEW k \in Keys,
           NEW r \in Reservation \cup {None}, NEW room,
           \A w \in Volumes : room[w] \in Nat /\ Fit(L, w, room[w]),
           \/ Remaining(r) <= Remaining(L[v][k])
           \/ Remaining(r) + Promised(Release(L, v, k), v) + MinFree <= room[v]
    PROVE  \A w \in Volumes : Fit(Put(L, v, k, r), w, room[w])
  <1>1. /\ Promised(L, v) \in Nat /\ Promised(Put(L, v, k, r), v) \in Nat
        /\ Remaining(r) \in Nat /\ Remaining(L[v][k]) \in Nat
        /\ Promised(Put(L, v, k, r), v) + Remaining(L[v][k]) = Promised(L, v) + Remaining(r)
        /\ \A w \in Volumes : w # v => Promised(Put(L, v, k, r), w) = Promised(L, w)
    BY PromisedPut
  <1>2. /\ Promised(Release(L, v, k), v) \in Nat
        /\ Promised(Release(L, v, k), v) + Remaining(L[v][k]) = Promised(L, v)
    <2>1. /\ Promised(Put(L, v, k, None), v) \in Nat
          /\ Promised(Put(L, v, k, None), v) + Remaining(L[v][k])
                = Promised(L, v) + Remaining(None)
      BY PromisedPut
    <2>2. Remaining(None) = 0
      BY DEF Remaining
    <2>3. QED
      BY <1>1, <2>1, <2>2 DEF Release
  <1>3. MinFree \in Nat /\ room[v] \in Nat
    BY ReservationAssumption
  <1>4. Fit(Put(L, v, k, r), v, room[v])
    <2>1. CASE Remaining(r) <= Remaining(L[v][k])
      BY <1>1, <1>3, <2>1 DEF Fit
    <2>2. CASE Remaining(r) + Promised(Release(L, v, k), v) + MinFree <= room[v]
      BY <1>1, <1>2, <1>3, <2>2 DEF Fit
    <2>3. QED
      BY <2>1, <2>2
  <1>5. QED
    BY <1>1, <1>4 DEF Fit

\* Chunks that are written and retired take as much from the promises as
\* from the room.
LEMMA RetireFits ==
    ASSUME NEW L \in Ledgers, NEW v \in Volumes, NEW k \in Keys, NEW r \in Reservation,
           L[v][k] # None, r.remaining = L[v][k].remaining - 1,
           NEW room \in Nat, Fit(L, v, room)
    PROVE  /\ Fit(Put(L, v, k, r), v, room - 1)
           /\ \A w \in Volumes \ {v} : Promised(Put(L, v, k, r), w) = Promised(L, w)
  <1>1. /\ Promised(L, v) \in Nat /\ Promised(Put(L, v, k, r), v) \in Nat
        /\ Remaining(r) \in Nat /\ Remaining(L[v][k]) \in Nat
        /\ Promised(Put(L, v, k, r), v) + Remaining(L[v][k]) = Promised(L, v) + Remaining(r)
        /\ \A w \in Volumes : w # v => Promised(Put(L, v, k, r), w) = Promised(L, w)
    BY PromisedPut
  <1>2. Remaining(r) = r.remaining /\ Remaining(L[v][k]) = L[v][k].remaining
    BY NoneFacts DEF Remaining
  <1>3. MinFree \in Nat
    BY ReservationAssumption
  <1>4. QED
    BY <1>1, <1>2, <1>3 DEF Fit

\* The reservations of a ledger are finitely many.
LEMMA HeldFinite ==
    ASSUME NEW L, NEW v, NEW p
    PROVE  /\ IsFiniteSet(Held(L, v)) /\ IsFiniteSet(HeldBy(L, v, p))
           /\ Cardinality(Held(L, v)) \in Nat /\ Cardinality(HeldBy(L, v, p)) \in Nat
  <1>1. Held(L, v) \in SUBSET Keys /\ HeldBy(L, v, p) \in SUBSET Keys
    BY DEF Held, HeldBy
  <1>2. QED
    BY <1>1, KeyFacts, FS_Subset, FS_CardinalityType

\* What is declared on the inbox, entry by entry.
LEMMA DeclaredFacts ==
    ASSUME NEW L \in Ledgers, NEW p
    PROVE  /\ \A k \in Held(L, Inbox) : L[Inbox][k] \in Reservation
                                        /\ L[Inbox][k].declared \in Nat
           /\ Declared(L, Inbox, p) \in Nat
  <1> DEFINE f == [k \in Held(L, Inbox) |-> L[Inbox][k].declared]
  <1>1. \A k \in Held(L, Inbox) : L[Inbox][k] \in Reservation
    BY VolumeFacts DEF Held, Ledgers
  <1>2. \A k \in Held(L, Inbox) : L[Inbox][k].declared \in Nat
    BY <1>1 DEF Reservation
  <1>3. \A k \in HeldBy(L, Inbox, p) : f[k] \in Nat
    BY <1>2 DEF HeldBy
  <1> HIDE DEF f
  <1>4. Sum(f, HeldBy(L, Inbox, p)) \in Nat
    BY <1>3, HeldFinite, SumNat
  <1>5. QED
    BY <1>1, <1>2, <1>4 DEF Declared, Sum, f

\* What is declared depends on the peers and sizes of the entries only.
LEMMA DeclaredSame ==
    ASSUME NEW L, NEW N, NEW p, HeldBy(N, Inbox, p) \in SUBSET HeldBy(L, Inbox, p),
           HeldBy(L, Inbox, p) \in SUBSET Held(L, Inbox),
           \A k \in HeldBy(N, Inbox, p) : N[Inbox][k].declared = L[Inbox][k].declared
    PROVE  Declared(N, Inbox, p)
              = Sum([k \in Held(L, Inbox) |-> L[Inbox][k].declared], HeldBy(N, Inbox, p))
  <1> DEFINE f == [k \in Held(L, Inbox) |-> L[Inbox][k].declared]
             g == [k \in Held(N, Inbox) |-> N[Inbox][k].declared]
  <1>1. \A k \in HeldBy(N, Inbox, p) : k \in Held(L, Inbox) /\ k \in Held(N, Inbox)
    BY DEF HeldBy
  <1>2. \A k \in HeldBy(N, Inbox, p) : g[k] = f[k]
    BY <1>1
  <1> HIDE DEF f, g
  <1>3. Sum(g, HeldBy(N, Inbox, p)) = Sum(f, HeldBy(N, Inbox, p))
    BY <1>2, HeldFinite, SumSame
  <1>4. QED
    BY <1>3 DEF Declared, Sum, f, g

\* Bookings on another volume, of an entry that is there with its peer and
\* size, and releases keep the quotas.
LEMMA PutKeepsLimits ==
    ASSUME NEW L \in Ledgers, NEW v \in Volumes, NEW k \in Keys,
           NEW r \in Reservation \cup {None}, WithinLimits(L),
           \/ v # Inbox \/ r = None
           \/ /\ L[v][k] # None /\ r.peer = L[v][k].peer /\ r.declared = L[v][k].declared
    PROVE  WithinLimits(Put(L, v, k, r))
  <1> DEFINE N == Put(L, v, k, r)
  <1>1. /\ N \in Ledgers /\ N[v][k] = r
        /\ \A w \in Volumes, j \in Keys : w # v \/ j # k => N[w][j] = L[w][j]
    BY PutFacts
  <1> HIDE DEF N
  <1>2. \A j \in Keys : N[Inbox][j] # None =>
           /\ L[Inbox][j] # None /\ N[Inbox][j].peer = L[Inbox][j].peer
           /\ N[Inbox][j].declared = L[Inbox][j].declared
    BY <1>1, VolumeFacts
  <1>3. Held(N, Inbox) \in SUBSET Held(L, Inbox)
    BY <1>2 DEF Held
  <1>4. Cardinality(Held(N, Inbox)) <= MaxActive
    <2>1. Cardinality(Held(N, Inbox)) <= Cardinality(Held(L, Inbox))
      BY <1>3, HeldFinite, FS_Subset
    <2>2. QED
      BY <2>1, HeldFinite, ReservationAssumption DEF WithinLimits
  <1>5. ASSUME NEW t \in Transfers
        PROVE  /\ Cardinality(HeldBy(N, Inbox, Owner[t])) <= MaxPerPeer
               /\ Declared(N, Inbox, Owner[t]) <= MaxBytesPerPeer
    <2> DEFINE p == Owner[t]
               f == [j \in Held(L, Inbox) |-> L[Inbox][j].declared]
    <2>1. /\ HeldBy(N, Inbox, p) \in SUBSET HeldBy(L, Inbox, p)
          /\ HeldBy(L, Inbox, p) \in SUBSET Held(L, Inbox)
          /\ \A j \in HeldBy(N, Inbox, p) : N[Inbox][j].declared = L[Inbox][j].declared
      BY <1>2 DEF HeldBy, Held
    <2>2. Cardinality(HeldBy(N, Inbox, p)) <= Cardinality(HeldBy(L, Inbox, p))
      BY <2>1, HeldFinite, FS_Subset
    <2>3. Declared(N, Inbox, p) = Sum(f, HeldBy(N, Inbox, p))
      BY <2>1, DeclaredSame
    <2>4. Declared(L, Inbox, p) = Sum(f, HeldBy(L, Inbox, p))
      BY DEF Declared, Sum
    <2>5. \A j \in HeldBy(L, Inbox, p) : f[j] \in Nat
      BY <2>1, DeclaredFacts
    <2> HIDE DEF f
    <2>6. Sum(f, HeldBy(N, Inbox, p)) <= Sum(f, HeldBy(L, Inbox, p))
      BY <2>1, <2>5, HeldFinite, SumPart
    <2>7. /\ Cardinality(HeldBy(L, Inbox, p)) <= MaxPerPeer
          /\ Declared(L, Inbox, p) <= MaxBytesPerPeer
      BY DEF WithinLimits
    <2>8. /\ Declared(L, Inbox, p) \in Nat /\ Declared(N, Inbox, p) \in Nat
          /\ Cardinality(HeldBy(N, Inbox, p)) \in Nat /\ Cardinality(HeldBy(L, Inbox, p)) \in Nat
          /\ MaxPerPeer \in Nat /\ MaxBytesPerPeer \in Nat
      BY <1>1, DeclaredFacts, HeldFinite, ReservationAssumption
    <2> HIDE DEF p
    <2>9. /\ Cardinality(HeldBy(N, Inbox, p)) <= MaxPerPeer
          /\ Declared(N, Inbox, p) <= MaxBytesPerPeer
      BY <2>2, <2>3, <2>4, <2>6, <2>7, <2>8
    <2>10. QED
      BY <2>9 DEF p
  <1>6. QED
    BY <1>4, <1>5 DEF WithinLimits, N

\* A new entry that the quotas admit keeps them.
LEMMA NewKeepsLimits ==
    ASSUME NEW L \in Ledgers, NEW k \in Keys, NEW r \in Reservation, WithinLimits(L),
           L[Inbox][k] = None, WithinQuota(L, Inbox, r.peer, r.declared)
    PROVE  WithinLimits(Put(L, Inbox, k, r))
  <1> DEFINE N == Put(L, Inbox, k, r)
  <1>1. /\ N \in Ledgers /\ N[Inbox][k] = r /\ r # None
        /\ \A j \in Keys : j # k => N[Inbox][j] = L[Inbox][j]
    BY PutFacts, VolumeFacts, NoneFacts
  <1> HIDE DEF N
  <1>2. Held(N, Inbox) = Held(L, Inbox) \cup {k} /\ k \notin Held(L, Inbox)
    BY <1>1 DEF Held
  <1>3. Cardinality(Held(N, Inbox)) = Cardinality(Held(L, Inbox)) + 1
    BY <1>2, HeldFinite, FS_AddElement
  <1>4. Cardinality(Held(N, Inbox)) <= MaxActive
    BY <1>3, HeldFinite, ReservationAssumption DEF WithinQuota
  <1>5. ASSUME NEW t \in Transfers, r.peer # Owner[t]
        PROVE  /\ Cardinality(HeldBy(N, Inbox, Owner[t])) <= MaxPerPeer
               /\ Declared(N, Inbox, Owner[t]) <= MaxBytesPerPeer
    <2> DEFINE p == Owner[t]
               f == [j \in Held(L, Inbox) |-> L[Inbox][j].declared]
    <2>1. /\ HeldBy(N, Inbox, p) = HeldBy(L, Inbox, p) /\ HeldBy(L, Inbox, p) \in SUBSET Held(L, Inbox)
          /\ \A j \in HeldBy(N, Inbox, p) : N[Inbox][j].declared = L[Inbox][j].declared
      BY <1>1, <1>2, <1>5 DEF HeldBy, Held
    <2>2. Declared(N, Inbox, p) = Sum(f, HeldBy(N, Inbox, p))
      BY <2>1, DeclaredSame
    <2>3. Declared(L, Inbox, p) = Sum(f, HeldBy(L, Inbox, p))
      BY DEF Declared, Sum
    <2>4. QED
      BY <2>1, <2>2, <2>3 DEF WithinLimits
  <1>6. ASSUME NEW t \in Transfers, r.peer = Owner[t]
        PROVE  /\ Cardinality(HeldBy(N, Inbox, Owner[t])) <= MaxPerPeer
               /\ Declared(N, Inbox, Owner[t]) <= MaxBytesPerPeer
    <2> DEFINE p == Owner[t]
               f == [j \in Held(L, Inbox) |-> L[Inbox][j].declared]
               g == [j \in Held(N, Inbox) |-> N[Inbox][j].declared]
               H == HeldBy(L, Inbox, p)
    <2>1. HeldBy(N, Inbox, p) = H \cup {k} /\ k \notin H /\ IsFiniteSet(H)
      <3>1. k \notin H
        BY <1>2 DEF HeldBy
      <3>2. \A j \in Held(L, Inbox) : j # k /\ j \in Keys /\ N[Inbox][j] = L[Inbox][j]
        BY <1>1, <1>2 DEF Held
      <3>3. HeldBy(N, Inbox, p) = H \cup {k}
        BY <1>1, <1>2, <1>6, <3>2 DEF HeldBy
      <3>4. IsFiniteSet(H)
        BY HeldFinite
      <3>5. QED
        BY <3>1, <3>3, <3>4
    <2>2. \A j \in H : g[j] = f[j] /\ f[j] \in Nat /\ j \in Held(L, Inbox)
      <3>1. \A j \in H : j \in Held(L, Inbox) /\ j \in Held(N, Inbox) /\ j # k /\ j \in Keys
        BY <1>2, <2>1 DEF HeldBy, Held
      <3>2. \A j \in Held(L, Inbox) : L[Inbox][j].declared \in Nat
        BY DeclaredFacts
      <3>3. QED
        BY <1>1, <3>1, <3>2
    <2>3. g[k] = r.declared /\ r.declared \in Nat
      BY <1>1, <1>2 DEF Reservation
    <2>4. Declared(N, Inbox, p) = Sum(g, H \cup {k}) /\ Declared(L, Inbox, p) = Sum(f, H)
      BY <2>1 DEF Declared, Sum
    <2>5. /\ Cardinality(H) < MaxPerPeer
          /\ Declared(L, Inbox, p) + r.declared <= MaxBytesPerPeer
      BY <1>6 DEF WithinQuota
    <2> HIDE DEF f, g
    <2>6. Cardinality(H \cup {k}) = Cardinality(H) + 1 /\ Cardinality(H) \in Nat
      BY <2>1, HeldFinite, FS_AddElement
    <2> HIDE DEF H
    <2>7. \A j \in H \cup {k} : g[j] \in Nat
      BY <2>2, <2>3
    <2>8. Sum(g, H) = Sum(f, H)
      BY <2>1, <2>2, SumSame
    <2>9. Sum(g, H \cup {k}) = Sum(g, H) + g[k] /\ Sum(g, H) \in Nat
      BY <2>1, <2>7, SumAdds
    <2> HIDE DEF p
    <2>10. /\ Cardinality(HeldBy(N, Inbox, p)) <= MaxPerPeer
           /\ Declared(N, Inbox, p) <= MaxBytesPerPeer
      BY <2>1, <2>3, <2>4, <2>5, <2>6, <2>8, <2>9, ReservationAssumption
    <2>11. QED
      BY <2>10 DEF p
  <1>7. QED
    BY <1>4, <1>5, <1>6 DEF WithinLimits, N
-----------------------------------------------------------------------------
(* No step overbooks.                                                      *)

Fitting == (\A v \in Volumes : Fit(ledger, v, Room(v))) /\ WithinLimits(ledger)

\* What threads have written, after one of them wrote or retired a chunk.
LEMMA LandedChanges ==
    ASSUME TypeOK, separate' = separate, NEW t \in Transfers, NEW n \in {0, 1},
           landed' = [landed EXCEPT ![t] = n]
    PROVE  \A v \in Volumes :
              /\ Landed(v)' \in Nat
              /\ v = VolOf(t) => Landed(v)' + landed[t] = Landed(v) + n
              /\ v # VolOf(t) => Landed(v)' = Landed(v)
  <1> DEFINE On(v) == {u \in Transfers : VolOf(u) = v}
  <1>1. \A u \in Transfers : VolOf(u)' = VolOf(u)
    BY SameVolumes
  <1>2. \A v \in Volumes : IsFiniteSet(On(v)) /\ On(v) \subseteq Transfers
    BY FS_Subset, ReservationAssumption
  <1>3. ASSUME NEW v \in Volumes
        PROVE  Landed(v)' = Sum(landed', On(v)) /\ Landed(v) = Sum(landed, On(v))
    BY <1>1 DEF Landed, Sum
  <1>4. /\ \A u \in Transfers : landed[u] \in Nat /\ landed'[u] \in Nat
        /\ \A u \in Transfers \ {t} : landed'[u] = landed[u]
        /\ landed'[t] = n
    BY DEF TypeOK
  <1>5. t \in On(VolOf(t)) /\ VolOf(t) \in Volumes
    BY VolumeFacts
  <1>6. \A v \in Volumes \ {VolOf(t)} : t \notin On(v)
    OBVIOUS
  <1> HIDE DEF On
  <1>8. Sum(landed', On(VolOf(t))) + landed[t] = Sum(landed, On(VolOf(t))) + n
    <2> DEFINE S == On(VolOf(t))
               new == landed'
    <2>1. \A y \in S : landed[y] \in Nat /\ new[y] \in Nat
      BY <1>2, <1>4, <1>5
    <2>2. \A y \in S \ {t} : landed[y] = new[y]
      BY <1>2, <1>4, <1>5
    <2>3. t \in S /\ IsFiniteSet(S) /\ new[t] = n
      BY <1>2, <1>4, <1>5
    <2> HIDE DEF S, new
    <2>4. Sum(new, S) + landed[t] = Sum(landed, S) + new[t]
      BY <2>1, <2>2, <2>3, SumChanges
    <2>5. QED
      BY <2>3, <2>4 DEF S, new
  <1>9. ASSUME NEW v \in Volumes \ {VolOf(t)} PROVE Landed(v)' = Landed(v)
    <2>1. \A y \in On(v) : landed'[y] = landed[y]
      BY <1>2, <1>4, <1>6
    <2>2. Sum(landed', On(v)) = Sum(landed, On(v))
      BY ZenonT(30), <1>2, <2>1, SumSame
    <2>3. QED
      BY <1>3, <2>2
  <1>10. ASSUME NEW v \in Volumes PROVE Landed(v)' \in Nat
    <2> DEFINE new == landed'
    <2>1. \A y \in On(v) : new[y] \in Nat
      BY <1>2, <1>4
    <2> HIDE DEF new
    <2>2. Sum(new, On(v)) \in Nat
      BY <1>2, <2>1, SumNat
    <2>3. QED
      BY <1>3, <2>2 DEF new
  <1>11. QED
    BY <1>3, <1>8, <1>9, <1>10

\* Without a change of the threads nothing of that changes.
LEMMA LandedSame ==
    ASSUME separate' = separate, landed' = landed, NEW v \in Volumes
    PROVE  Landed(v)' = Landed(v)
  <1>1. {u \in Transfers : VolOf(u) = v}' = {u \in Transfers : VolOf(u) = v}
    BY SameVolumes
  <1>2. QED
    BY <1>1 DEF Landed

\* Ledgers that fit the room after a step, given volume by volume.
LEMMA FittingNext ==
    ASSUME separate' = separate, WithinLimits(ledger'),
           \A v \in Volumes : Fit(ledger', v, Room(v)')
    PROVE  Fitting'
  <1>1. Volumes' = Volumes
    BY SameVolumes
  <1>2. ASSUME NEW v \in Volumes PROVE Fit(ledger, v, Room(v))'
    BY DEF Fit, Promised
  <1>3. WithinLimits(ledger)'
    BY DEF WithinLimits, Held, HeldBy, Declared, Inbox
  <1>4. QED
    BY <1>1, <1>2, <1>3 DEF Fitting

\* The room of a step that touches neither disk nor threads.
LEMMA RoomSame ==
    ASSUME separate' = separate, UNCHANGED <<free, foreign, landed>>
    PROVE  \A v \in Volumes : Room(v)' = Room(v)
  BY LandedSame DEF Room

\* The room as a function, for PutFits.
Rooms == [v \in Volumes |-> Room(v)]

\* One booking that a test or a smaller remainder justifies.
LEMMA BookingFits ==
    ASSUME Inv, NEW L \in Ledgers, \A v \in Volumes : Fit(L, v, Room(v)),
           NEW v \in Volumes, NEW k \in Keys, NEW r \in Reservation \cup {None},
           \/ Remaining(r) <= Remaining(L[v][k])
           \/ Remaining(r) + Promised(Release(L, v, k), v) + MinFree <= free[v]
    PROVE  \A w \in Volumes : Fit(Put(L, v, k, r), w, Room(w))
  <1>1. \A w \in Volumes : Rooms[w] = Room(w) /\ Room(w) \in Nat /\ free[w] <= Room(w)
                           /\ free[w] \in Nat
    BY RoomFacts DEF Rooms, Inv
  <1>2. /\ Remaining(r) \in Nat /\ Promised(Release(L, v, k), v) \in Nat /\ MinFree \in Nat
    BY PromisedPut, ReservationAssumption DEF Release
  <1>3. \/ Remaining(r) <= Remaining(L[v][k])
        \/ Remaining(r) + Promised(Release(L, v, k), v) + MinFree <= Rooms[v]
    <2>1. ASSUME Remaining(r) + Promised(Release(L, v, k), v) + MinFree <= free[v]
          PROVE  Remaining(r) + Promised(Release(L, v, k), v) + MinFree <= Rooms[v]
      BY <1>1, <1>2, <2>1
    <2>2. QED
      BY <2>1
  <1>4. \A w \in Volumes : Rooms[w] \in Nat /\ Fit(L, w, Rooms[w])
    BY <1>1
  <1>5. \A w \in Volumes : Fit(Put(L, v, k, r), w, Rooms[w])
    BY <1>3, <1>4, PutFits
  <1>6. QED
    BY <1>1, <1>5

\* A release fits.
LEMMA ReleaseFits ==
    ASSUME Inv, NEW L \in Ledgers, \A v \in Volumes : Fit(L, v, Room(v)), WithinLimits(L),
           NEW v \in Volumes, NEW k \in Keys
    PROVE  /\ Put(L, v, k, None) \in Ledgers /\ WithinLimits(Put(L, v, k, None))
           /\ \A w \in Volumes : Fit(Put(L, v, k, None), w, Room(w))
  <1>1. Remaining(None) = 0 /\ Remaining(L[v][k]) \in Nat
    BY PromisedPut DEF Remaining
  <1>2. Remaining(None) <= Remaining(L[v][k])
    BY <1>1
  <1>3. \A w \in Volumes : Fit(Put(L, v, k, None), w, Room(w))
    BY <1>2, BookingFits
  <1>4. QED
    BY <1>3, PutKeepsLimits, PutFacts

\* The test of a new entry: releasing what is not there changes nothing, and
\* an entry of nothing needs no test.
LEMMA FitsJustifies ==
    ASSUME NEW L \in Ledgers, NEW v \in Volumes, NEW k \in Keys, NEW r \in Reservation,
           free[v] \in Nat, Fits(L, v, r.remaining)
    PROVE  \/ Remaining(r) <= Remaining(L[v][k])
           \/ Remaining(r) + Promised(Release(L, v, k), v) + MinFree <= free[v]
  <1>1. /\ Promised(L, v) \in Nat /\ Promised(Release(L, v, k), v) \in Nat
        /\ Remaining(L[v][k]) \in Nat
        /\ Promised(Release(L, v, k), v) + Remaining(L[v][k]) = Promised(L, v) + Remaining(None)
    BY PromisedPut DEF Release
  <1>2. Remaining(None) = 0 /\ Remaining(r) = r.remaining /\ Remaining(r) \in Nat /\ MinFree \in Nat
    BY NoneFacts, PromisedPut, ReservationAssumption DEF Remaining
  <1>3. CASE r.remaining > 0
    BY <1>1, <1>2, <1>3 DEF Fits
  <1>4. CASE ~(r.remaining > 0)
    BY <1>1, <1>2, <1>4
  <1>5. QED
    BY <1>3, <1>4

\* The test of a resize justifies it.
LEMMA ResizeJustifies ==
    ASSUME NEW L \in Ledgers, NEW v \in Volumes, NEW k \in Keys, NEW r \in Reservation,
           L[v][k] # None, MayResize(L, v, k, r.remaining)
    PROVE  \/ Remaining(r) <= Remaining(L[v][k])
           \/ Remaining(r) + Promised(Release(L, v, k), v) + MinFree <= free[v]
  <1>1. Remaining(r) = r.remaining /\ Remaining(L[v][k]) = L[v][k].remaining
    BY NoneFacts DEF Remaining
  <1>2. Remaining(r) \in Nat /\ Remaining(L[v][k]) \in Nat
    BY PromisedPut
  <1>3. QED
    BY <1>1, <1>2 DEF MayResize

\* The first step of an offer fits, and keeps the quotas.
LEMMA MainFits ==
    ASSUME Inv, Fitting, NEW t \in Files, NEW size \in Nat, NEW want \in Nat,
           MainOk(t, size, want)
    PROVE  LET L == AfterMain(t, size, want)
           IN  /\ L \in Ledgers /\ WithinLimits(L)
               /\ \A v \in Volumes : Fit(L, v, Room(v))
  <1>1. /\ t \in Transfers /\ ledger \in Ledgers /\ Main(t) \in Keys /\ Inbox \in Volumes
        /\ free[Inbox] \in Nat
    BY KeyFacts, VolumeFacts DEF Transfers, Inv, TypeOK, Ledgers
  <1>2. PICK r \in Reservation : /\ AfterMain(t, size, want) = Put(ledger, Inbox, Main(t), r)
                                 /\ r.peer = Owner[t] /\ r.declared = size
                                 /\ r.remaining = want
    BY MainIsPut
  <1>3. (\A v \in Volumes : Fit(ledger, v, Room(v))) /\ WithinLimits(ledger)
    BY DEF Fitting
  <1>4. CASE ledger[Inbox][Main(t)] = None
    <2>1. WithinQuota(ledger, Inbox, r.peer, r.declared) /\ Fits(ledger, Inbox, r.remaining)
      BY <1>2, <1>4 DEF MainOk, Main
    <2>2. WithinLimits(Put(ledger, Inbox, Main(t), r))
      BY <1>1, <1>3, <1>4, <2>1, NewKeepsLimits
    <2>3. \/ Remaining(r) <= Remaining(ledger[Inbox][Main(t)])
          \/ Remaining(r) + Promised(Release(ledger, Inbox, Main(t)), Inbox) + MinFree <= free[Inbox]
      BY <1>1, <2>1, FitsJustifies
    <2>4. QED
      BY <1>1, <1>2, <1>3, <2>2, <2>3, BookingFits, PutFacts
  <1>5. CASE ledger[Inbox][Main(t)] # None
    <2>1. /\ ledger[Inbox][Main(t)].declared = r.declared
          /\ MayResize(ledger, Inbox, Main(t), r.remaining)
      BY <1>2, <1>5 DEF MainOk, Main
    <2>2. ledger[Inbox][Main(t)].peer = r.peer
      BY <1>1, <1>2, <1>5, VolumeFacts DEF Inv, Booked, Booking, Main, Kinds
    <2>3. WithinLimits(Put(ledger, Inbox, Main(t), r))
      BY <1>1, <1>3, <1>5, <2>1, <2>2, PutKeepsLimits
    <2>4. \/ Remaining(r) <= Remaining(ledger[Inbox][Main(t)])
          \/ Remaining(r) + Promised(Release(ledger, Inbox, Main(t)), Inbox) + MinFree <= free[Inbox]
      BY <1>1, <1>5, <2>1, ResizeJustifies
    <2>5. QED
      BY <1>1, <1>2, <1>3, <2>3, <2>4, BookingFits, PutFacts
  <1>6. QED
    BY <1>4, <1>5
\* The second step of an offer fits as well: a share is tested on the cache
\* volume, and what is released there is released for good.
LEMMA CacheFits ==
    ASSUME Inv, NEW t \in Files, NEW size \in Nat, NEW missing \in Nat, NEW want \in Nat,
           MainOk(t, size, want), NEW L, L = AfterMain(t, size, want), L \in Ledgers,
           WithinLimits(L), \A v \in Volumes : Fit(L, v, Room(v)), CacheOk(L, t, missing)
    PROVE  LET N == AfterCache(L, t, missing)
           IN  WithinLimits(N) /\ \A v \in Volumes : Fit(N, v, Room(v))
  <1> DEFINE key == CacheKey(t, missing)
             prior == PriorKey(t)
             M == IF prior # None /\ prior # key THEN Release(L, CacheVol, prior) ELSE L
             N == AfterCache(L, t, missing)
  <1>1. CASE ~separate
    BY <1>1 DEF AfterCache
  <1>2. CASE separate
    <2>1. /\ t \in Transfers /\ t \notin Uploads /\ CacheVol \in Volumes /\ CacheVol # Inbox
          /\ ledger \in Ledgers /\ free[CacheVol] \in Nat /\ <<t, "cache">> \in Keys
      BY <1>2, ReservationAssumption, VolumeFacts, KeyFacts
      DEF Transfers, Inv, TypeOK, Ledgers, Kinds
    <2>2. prior \in Keys \cup {None}
      BY <2>1, WriterFacts DEF PriorKey, Inv
    <2>3. /\ M \in Ledgers /\ WithinLimits(M) /\ \A v \in Volumes : Fit(M, v, Room(v))
          /\ Promised(M, CacheVol) <= Promised(L, CacheVol)
          /\ Promised(M, CacheVol) \in Nat /\ Promised(L, CacheVol) \in Nat
      <3>1. CASE prior # None /\ prior # key
        <4>1. M = Put(L, CacheVol, prior, None) /\ prior \in Keys
          BY <2>2, <3>1 DEF Release
        <4>2. /\ Promised(L, CacheVol) \in Nat /\ Promised(M, CacheVol) \in Nat
              /\ Remaining(None) = 0 /\ Remaining(L[CacheVol][prior]) \in Nat
              /\ Promised(M, CacheVol) + Remaining(L[CacheVol][prior])
                    = Promised(L, CacheVol) + Remaining(None)
          <5> HIDE DEF M, prior
          <5>1. QED
            BY <2>1, <4>1, PromisedPut DEF Remaining
        <4>3. Promised(M, CacheVol) <= Promised(L, CacheVol)
          BY <4>2
        <4> HIDE DEF M, prior
        <4>4. M \in Ledgers /\ WithinLimits(M) /\ \A v \in Volumes : Fit(M, v, Room(v))
          BY <2>1, <4>1, ReleaseFits
        <4>5. QED
          BY <4>2, <4>3, <4>4
      <3>2. CASE ~(prior # None /\ prior # key)
        <4>1. M = L
          BY <3>2
        <4> HIDE DEF M
        <4>2. Promised(L, CacheVol) \in Nat
          BY <2>1, PromisedPut
        <4>3. QED
          BY <4>1, <4>2
      <3>3. QED
        BY <3>1, <3>2
    <2>4. CASE missing = 0
      <3>1. N = M
        BY <1>2, <2>4 DEF AfterCache
      <3> HIDE DEF M, N
      <3>2. WithinLimits(N) /\ \A v \in Volumes : Fit(N, v, Room(v))
        BY <2>3, <3>1
      <3>3. QED
        BY <3>2 DEF N
    <2>5. CASE missing > 0 /\ prior = key
      <3>1. N = Resized(L, CacheVol, key, missing) /\ MayResize(L, CacheVol, key, missing)
        BY <1>2, <2>5 DEF AfterCache, CacheOk
      <3>2. key = <<t, "cache">> /\ key \in Keys
        BY <1>2, <2>1, <2>5 DEF CacheKey
      <3>3. L[CacheVol][key] # None
        <4>1. writer[t] # None /\ writer[t].cacheKey = key /\ key # None
          BY <2>5, <3>2, NoneFacts DEF PriorKey
        <4>2. ledger[CacheVol][key] # None
          BY <2>1, <4>1 DEF Inv, Booked, Booking
        <4>3. PICK r \in Reservation : L = Put(ledger, Inbox, Main(t), r)
          BY MainIsPut
        <4>4. L[CacheVol][key] = ledger[CacheVol][key]
          <5>1. Main(t) \in Keys /\ Inbox \in Volumes /\ r \in Reservation \cup {None}
            BY <2>1, KeyFacts, VolumeFacts
          <5>2. QED
            BY <2>1, <3>2, <4>3, <5>1, PutFacts
        <4>5. QED
          BY <4>2, <4>4
      <3> HIDE DEF key, N, prior
      <3>4. PICK r \in Reservation : N = Put(L, CacheVol, key, r) /\ r.remaining = missing
        BY <2>1, <3>1, <3>2, <3>3, ResizedIsPut
      <3>5. \/ Remaining(r) <= Remaining(L[CacheVol][key])
            \/ Remaining(r) + Promised(Release(L, CacheVol, key), CacheVol) + MinFree <= free[CacheVol]
        BY <2>1, <3>1, <3>2, <3>3, <3>4, ResizeJustifies
      <3>6. WithinLimits(N)
        BY <2>1, <3>2, <3>4, PutKeepsLimits
      <3>7. \A v \in Volumes : Fit(N, v, Room(v))
        BY <2>1, <3>2, <3>4, <3>5, BookingFits
      <3>8. QED
        BY <3>6, <3>7 DEF N
    <2>6. CASE missing > 0 /\ prior # key
      <3> DEFINE r == [peer |-> Owner[t], declared |-> missing, remaining |-> missing]
      <3>1. N = Put(M, CacheVol, key, r) /\ Fits(L, CacheVol, missing)
        BY <1>2, <2>6 DEF AfterCache, CacheOk
      <3>2. key = <<t, "cache">> /\ key \in Keys
        BY <1>2, <2>1, <2>6 DEF CacheKey
      <3>3. r \in Reservation /\ r.remaining = missing
        BY <2>1, EntryFacts
      <3> HIDE DEF key, N, M, r
      <3>4. Fits(M, CacheVol, r.remaining)
        <4>1. MinFree \in Nat
          BY ReservationAssumption
        <4>2. QED
          BY <2>1, <2>3, <3>1, <3>3, <4>1 DEF Fits
      <3>5. \/ Remaining(r) <= Remaining(M[CacheVol][key])
            \/ Remaining(r) + Promised(Release(M, CacheVol, key), CacheVol) + MinFree <= free[CacheVol]
        BY <2>1, <2>3, <3>2, <3>3, <3>4, FitsJustifies
      <3>6. WithinLimits(N)
        BY <2>1, <2>3, <3>1, <3>2, <3>3, PutKeepsLimits
      <3>7. \A v \in Volumes : Fit(N, v, Room(v))
        BY <2>1, <2>3, <3>1, <3>2, <3>3, <3>5, BookingFits
      <3>8. QED
        BY <3>6, <3>7 DEF N
    <2>7. QED
      BY <2>4, <2>5, <2>6
  <1>3. QED
    BY <1>1, <1>2

\* An offer, admitted or refused by either volume, overbooks nothing.
LEMMA OfferFits ==
    ASSUME Inv, Fitting, separate' = separate, NEW t \in Files, NEW size \in Nat,
           NEW missing \in Nat,
           \/ \E hold \in BOOLEAN : OfferAdmitted(t, size, missing, hold)
           \/ OfferRefused(t, size, missing)
    PROVE  Fitting'
  <1> DEFINE want == Want(size, partial[t], missing)
             L == AfterMain(t, size, want)
  <1>1. partial[t] <= size /\ UNCHANGED <<free, foreign, landed>>
    BY DEF OfferAdmitted, OfferRefused, MayOffer
  <1>2. /\ t \in Transfers /\ Main(t) \in Keys /\ Inbox \in Volumes /\ partial[t] \in Nat
        /\ ledger \in Ledgers
    BY KeyFacts, VolumeFacts DEF Transfers, Inv, TypeOK, Ledgers
  <1>3. want \in Nat
    BY <1>1, <1>2 DEF Want
  <1> HIDE DEF want
  <1>4. ASSUME MainOk(t, size, want)
        PROVE  L \in Ledgers /\ WithinLimits(L) /\ \A v \in Volumes : Fit(L, v, Room(v))
    BY <1>3, <1>4, MainFits
  <1>5. WithinLimits(ledger) /\ \A v \in Volumes : Fit(ledger, v, Room(v))
    BY DEF Fitting
  <1>6. ASSUME NEW hold \in BOOLEAN, OfferAdmitted(t, size, missing, hold)
        PROVE  Fitting'
    <2>1. /\ MainOk(t, size, want) /\ CacheOk(L, t, missing)
          /\ ledger' = AfterCache(L, t, missing)
      BY <1>6 DEF OfferAdmitted, want
    <2>2. L \in Ledgers /\ WithinLimits(L) /\ \A v \in Volumes : Fit(L, v, Room(v))
      BY <1>4, <2>1
    <2>3. WithinLimits(ledger') /\ \A v \in Volumes : Fit(ledger', v, Room(v))
      BY <1>3, <2>1, <2>2, CacheFits
    <2>4. QED
      BY <1>1, <2>3, RoomSame, FittingNext
  <1>7. CASE OfferRefused(t, size, missing)
    <2>1. ledger' = IF writer[t] = None THEN Put(ledger, Inbox, Main(t), None)
                    ELSE IF MainOk(t, size, want) THEN L ELSE ledger
      BY <1>7 DEF OfferRefused, Release, Main, want
    <2>2. WithinLimits(ledger') /\ \A v \in Volumes : Fit(ledger', v, Room(v))
      <3>1. CASE writer[t] = None
        BY <1>2, <1>5, <2>1, <3>1, ReleaseFits
      <3>2. CASE writer[t] # None /\ MainOk(t, size, want)
        BY <1>4, <2>1, <3>2
      <3>3. CASE writer[t] # None /\ ~MainOk(t, size, want)
        BY <1>5, <2>1, <3>3
      <3>4. QED
        BY <3>1, <3>2, <3>3
    <2>3. QED
      BY <1>1, <2>2, RoomSame, FittingNext
  <1>8. QED
    BY <1>6, <1>7

\* Accepting a held offer touches neither ledgers nor disk.
LEMMA AcceptFits ==
    ASSUME Inv, Fitting, separate' = separate, NEW t \in Files, Accept(t)
    PROVE  Fitting'
  <1>1. UNCHANGED <<ledger, free, foreign, landed>>
    BY DEF Accept
  <1>2. WithinLimits(ledger') /\ \A v \in Volumes : Fit(ledger', v, Room(v))
    BY <1>1 DEF Fitting
  <1>3. QED
    BY <1>1, <1>2, RoomSame, FittingNext

\* What the end of a transfer leaves fits where it fitted before.
LEMMA ReleasedFits ==
    ASSUME Inv, Fitting, NEW t \in Transfers, writer[t] # None
    PROVE  WithinLimits(Released(t)) /\ \A v \in Volumes : Fit(Released(t), v, Room(v))
  <1> DEFINE L == Put(ledger, VolOf(t), Main(t), None)
             k == writer[t].cacheKey
  <1>1. /\ ledger \in Ledgers /\ Main(t) \in Keys /\ VolOf(t) \in Volumes /\ CacheVol \in Volumes
        /\ k \in Keys \cup {None}
    BY KeyFacts, VolumeFacts, WriterFacts DEF Inv, TypeOK, Ledgers
  <1>2. L \in Ledgers /\ WithinLimits(L) /\ \A v \in Volumes : Fit(L, v, Room(v))
    BY <1>1, ReleaseFits DEF Fitting
  <1>3. Released(t) = IF k \in {None, Main(t)} THEN L ELSE Put(L, CacheVol, k, None)
    BY DEF Released, Release, Main
  <1> HIDE DEF L, k
  <1>4. CASE k \in {None, Main(t)}
    BY <1>2, <1>3, <1>4
  <1>5. CASE k \notin {None, Main(t)}
    <2>1. k \in Keys /\ Released(t) = Put(L, CacheVol, k, None)
      BY <1>1, <1>3, <1>5
    <2>2. WithinLimits(Put(L, CacheVol, k, None))
          /\ \A v \in Volumes : Fit(Put(L, CacheVol, k, None), v, Room(v))
      BY <1>1, <1>2, <2>1, ReleaseFits
    <2>3. QED
      BY <2>1, <2>2
  <1>6. QED
    BY <1>4, <1>5

LEMMA EndFits ==
    ASSUME Inv, Fitting, separate' = separate, NEW t \in Transfers, NEW keep \in BOOLEAN,
           End(t, keep)
    PROVE  Fitting'
  <1>1. writer[t] # None /\ ledger' = Released(t) /\ UNCHANGED <<free, foreign, landed>>
    BY DEF End
  <1>2. WithinLimits(ledger') /\ \A v \in Volumes : Fit(ledger', v, Room(v))
    BY <1>1, ReleasedFits
  <1>3. QED
    BY <1>1, <1>2, RoomSame, FittingNext

\* An abort gives back what is on disk, a thread's last chunk included.
LEMMA AbortFits ==
    ASSUME Inv, Fitting, separate' = separate, NEW t \in Transfers, Abort(t)
    PROVE  Fitting'
  <1>1. /\ writer[t] # None /\ ledger' = Released(t)
        /\ free' = [free EXCEPT ![VolOf(t)] = @ + partial[t]]
        /\ landed' = [landed EXCEPT ![t] = 0] /\ UNCHANGED foreign
    BY DEF Abort
  <1>2. WithinLimits(ledger') /\ \A v \in Volumes : Fit(ledger', v, Room(v))
    BY <1>1, ReleasedFits
  <1>3. partial[t] \in Nat /\ landed[t] \in Nat /\ landed[t] <= partial[t]
        /\ TypeOK /\ VolOf(t) \in Volumes
    <2>1. landed[t] = 1 => partial[t] > 0
      BY DEF Inv, Booked, Booking
    <2>2. partial[t] \in Nat /\ landed[t] \in {0, 1}
      BY DEF Inv, TypeOK
    <2>3. QED
      BY <2>1, <2>2, VolumeFacts DEF Inv
  <1>4. \A v \in Volumes :
           /\ Landed(v)' \in Nat
           /\ v = VolOf(t) => Landed(v)' + landed[t] = Landed(v) + 0
           /\ v # VolOf(t) => Landed(v)' = Landed(v)
    BY <1>1, <1>3, LandedChanges
  <1>5. ASSUME NEW v \in Volumes
        PROVE  Room(v) \in Nat /\ Room(v)' \in Nat /\ Room(v) <= Room(v)'
    <2>1. /\ Room(v) \in Nat /\ free[v] \in Nat /\ Landed(v) \in Nat /\ foreign[v] \in Nat
          /\ Room(v) = free[v] + foreign[v] + Landed(v)
      BY <1>3, RoomFacts DEF Room
    <2>2. Landed(v)' \in Nat
      BY <1>4
    <2>3. /\ Room(v)' = free'[v] + foreign[v] + Landed(v)'
          /\ free'[v] = IF v = VolOf(t) THEN free[v] + partial[t] ELSE free[v]
      BY <1>1, <1>3 DEF Room, TypeOK
    <2>4. CASE v = VolOf(t)
      <3>1. Landed(v)' + landed[t] = Landed(v) + 0
        BY <1>4, <2>4
      <3>2. QED
        BY <1>3, <2>1, <2>2, <2>3, <2>4, <3>1
    <2>5. CASE v # VolOf(t)
      BY <1>4, <2>1, <2>3, <2>5
    <2>6. QED
      BY <2>4, <2>5
  <1>6. ASSUME NEW v \in Volumes PROVE Fit(ledger', v, Room(v)')
    <2>1. Fit(ledger', v, Room(v)) /\ MinFree \in Nat /\ Promised(ledger', v) \in Nat
      <3>1. ledger' \in Ledgers /\ Main(t) \in Keys /\ None \in Reservation \cup {None}
        BY <1>1, ReleasedBooks, KeyFacts
      <3>2. Promised(ledger', v) \in Nat
        BY <3>1, PromisedPut
      <3>3. QED
        BY <1>2, <3>2, ReservationAssumption
    <2>2. QED
      BY <1>5, <2>1 DEF Fit
  <1>7. QED
    BY <1>2, <1>6, FittingNext
\* An upload is tested like an offer; on a shared volume its quotas too.
LEMMA UploadFits ==
    ASSUME Inv, Fitting, separate' = separate, NEW t \in Uploads, NEW size \in Nat,
           Upload(t, size)
    PROVE  Fitting'
  <1> DEFINE r == [peer |-> Owner[t], declared |-> size, remaining |-> size]
  <1>1. /\ t \in Transfers /\ CacheVol \in Volumes /\ Main(t) \in Keys /\ ledger \in Ledgers
        /\ free[CacheVol] \in Nat
    BY VolumeFacts, KeyFacts DEF Transfers, Inv, TypeOK, Ledgers
  <1>2. /\ writer[t] = None /\ ledger' = Put(ledger, CacheVol, Main(t), r)
        /\ WithinQuota(ledger, CacheVol, r.peer, r.declared) /\ Fits(ledger, CacheVol, r.remaining)
        /\ UNCHANGED <<free, foreign, landed>>
    BY DEF Upload, Main
  <1>3. r \in Reservation
    BY <1>1, EntryFacts
  <1> HIDE DEF r
  <1>4. ledger[CacheVol][Main(t)] = None
    BY <1>1, <1>2 DEF Inv, Booked, Booking, Main, Kinds
  <1>5. WithinLimits(ledger) /\ \A v \in Volumes : Fit(ledger, v, Room(v))
    BY DEF Fitting
  <1>6. WithinLimits(ledger')
    <2>1. CASE CacheVol = Inbox
      BY <1>1, <1>2, <1>3, <1>4, <1>5, <2>1, NewKeepsLimits
    <2>2. CASE CacheVol # Inbox
      BY <1>1, <1>2, <1>3, <1>5, <2>2, PutKeepsLimits
    <2>3. QED
      BY <2>1, <2>2
  <1>7. \/ Remaining(r) <= Remaining(ledger[CacheVol][Main(t)])
        \/ Remaining(r) + Promised(Release(ledger, CacheVol, Main(t)), CacheVol) + MinFree
              <= free[CacheVol]
    BY <1>1, <1>2, <1>3, FitsJustifies
  <1>8. \A v \in Volumes : Fit(ledger', v, Room(v))
    BY <1>1, <1>2, <1>3, <1>5, <1>7, BookingFits
  <1>9. QED
    BY <1>2, <1>6, <1>8, RoomSame, FittingNext

\* Chunks that will be sent again are tested before they are promised.
LEMMA CacheMissFits ==
    ASSUME Inv, Fitting, separate' = separate, NEW t \in Files, NEW n \in Nat, n > 0,
           NEW ask \in BOOLEAN, CacheMiss(t, n, ask)
    PROVE  Fitting'
  <1>1. /\ t \in Transfers /\ CacheVol \in Volumes /\ ledger \in Ledgers
        /\ UNCHANGED <<free, foreign, landed>>
    BY VolumeFacts DEF Transfers, Inv, TypeOK, Ledgers, CacheMiss
  <1>2. WithinLimits(ledger) /\ \A v \in Volumes : Fit(ledger, v, Room(v))
    BY DEF Fitting
  <1>3. CASE MissDenied(t, n)
    <2>1. WithinLimits(ledger') /\ \A v \in Volumes : Fit(ledger', v, Room(v))
      BY <1>2, <1>3 DEF MissDenied
    <2>2. QED
      BY <1>1, <2>1, RoomSame, FittingNext
  <1>4. ASSUME NEW kind \in Kinds, NEW r \in Reservation, NEW due \in 0..n,
               MissBooked(t, n, kind, r, due)
        PROVE  Fitting'
    <2> DEFINE k == <<t, kind>>
    <2>1. k \in Keys /\ Remaining(r) = r.remaining
      BY <1>1, KeyFacts, NoneFacts DEF Remaining
    <2>2. ledger[CacheVol][k] # None => ledger[CacheVol][k].peer = Owner[t]
      BY <1>1 DEF Inv, Booked, Booking
    <2>3. /\ ledger' = Put(ledger, CacheVol, k, r) /\ r.peer = Owner[t]
          /\ ledger[CacheVol][k] # None => r.declared = ledger[CacheVol][k].declared
          /\ Remaining(r) + Promised(Release(ledger, CacheVol, k), CacheVol) + MinFree
                <= free[CacheVol]
          /\ ~separate => ledger[CacheVol][k] # None
      BY <1>4, <2>1 DEF MissBooked
    <2> HIDE DEF k
    <2>4. WithinLimits(ledger')
      <3>1. CacheVol # Inbox \/ (ledger[CacheVol][k] # None
                                 /\ r.peer = ledger[CacheVol][k].peer
                                 /\ r.declared = ledger[CacheVol][k].declared)
        BY <2>2, <2>3, VolumeFacts
      <3>2. QED
        BY <1>1, <1>2, <2>1, <2>3, <3>1, PutKeepsLimits
    <2>5. \A v \in Volumes : Fit(ledger', v, Room(v))
      BY <1>1, <1>2, <2>1, <2>3, BookingFits
    <2>6. QED
      BY <1>1, <2>4, <2>5, RoomSame, FittingNext
  <1>5. QED
    BY <1>3, <1>4, CacheMissBooks

\* A thread's write moves a chunk from the free bytes to the landed ones.
LEMMA ThreadWriteFits ==
    ASSUME Inv, Fitting, separate' = separate, NEW t \in Transfers, ThreadWrite(t)
    PROVE  Fitting'
  <1>1. /\ landed[t] = 0 /\ free[VolOf(t)] > 0
        /\ free' = [free EXCEPT ![VolOf(t)] = @ - 1]
        /\ landed' = [landed EXCEPT ![t] = 1] /\ UNCHANGED <<ledger, foreign>>
    BY DEF ThreadWrite
  <1>2. TypeOK /\ VolOf(t) \in Volumes
    BY VolumeFacts DEF Inv
  <1>3. \A v \in Volumes :
           /\ Landed(v)' \in Nat
           /\ v = VolOf(t) => Landed(v)' + landed[t] = Landed(v) + 1
           /\ v # VolOf(t) => Landed(v)' = Landed(v)
    BY <1>1, <1>2, LandedChanges
  <1>4. ASSUME NEW v \in Volumes PROVE Room(v)' = Room(v)
    <2>1. /\ free[v] \in Nat /\ Landed(v) \in Nat /\ foreign[v] \in Nat
      BY <1>2, RoomFacts
    <2>2. free'[v] = IF v = VolOf(t) THEN free[v] - 1 ELSE free[v]
      BY <1>1, <1>2 DEF TypeOK
    <2>3. Landed(v)' = IF v = VolOf(t) THEN Landed(v) + 1 ELSE Landed(v)
      BY <1>1, <1>3, <2>1
    <2>4. QED
      BY <1>1, <2>1, <2>2, <2>3 DEF Room
  <1>5. WithinLimits(ledger') /\ \A v \in Volumes : Fit(ledger', v, Room(v))
    BY <1>1 DEF Fitting
  <1>6. QED
    BY <1>4, <1>5, FittingNext

\* Retiring it takes a chunk from the landed and from the promised ones, or
\* leaves it to those written on no promise.
LEMMA ThreadConsumeFits ==
    ASSUME Inv, Fitting, separate' = separate, NEW t \in Transfers, ThreadConsume(t)
    PROVE  Fitting'
  <1>1. /\ landed' = [landed EXCEPT ![t] = 0] /\ writer[t] # None
        /\ foreign' = IF ~writer[t].stale THEN foreign
                      ELSE [foreign EXCEPT ![VolOf(t)] = @ + 1]
        /\ UNCHANGED free
    BY DEF ThreadConsume
  <1>2. /\ TypeOK /\ VolOf(t) \in Volumes /\ ledger \in Ledgers /\ Main(t) \in Keys
        /\ WithinLimits(ledger) /\ \A v \in Volumes : Fit(ledger, v, Room(v)) /\ Room(v) \in Nat
    BY VolumeFacts, KeyFacts, RoomFacts DEF Inv, TypeOK, Ledgers, Fitting
  <1>3. PICK r \in Reservation : Charged(t, r)
    BY ThreadConsumeBooks
  <1>4. /\ ledger' = Put(ledger, VolOf(t), Main(t), r)
        /\ ledger[VolOf(t)][Main(t)] # None
        /\ r.peer = Owner[t] /\ r.declared = ledger[VolOf(t)][Main(t)].declared
        /\ r.remaining <= ledger[VolOf(t)][Main(t)].remaining
        /\ ~writer[t].stale => r.remaining = ledger[VolOf(t)][Main(t)].remaining - 1
        /\ landed[t] = 1
    BY <1>3 DEF Charged, Backed
  <1>5. \A v \in Volumes :
           /\ Landed(v)' \in Nat
           /\ v = VolOf(t) => Landed(v)' + landed[t] = Landed(v) + 0
           /\ v # VolOf(t) => Landed(v)' = Landed(v)
    BY <1>1, <1>2, LandedChanges
  <1>6. ASSUME NEW v \in Volumes
        PROVE  Room(v)' = IF v = VolOf(t) /\ ~writer[t].stale THEN Room(v) - 1 ELSE Room(v)
    <2>1. /\ free[v] \in Nat /\ Landed(v) \in Nat /\ foreign[v] \in Nat
      BY <1>2, RoomFacts
    <2>2. Landed(v)' = IF v = VolOf(t) THEN Landed(v) - 1 ELSE Landed(v)
      BY <1>4, <1>5, <2>1
    <2>3. foreign'[v] = IF v = VolOf(t) /\ writer[t].stale THEN foreign[v] + 1 ELSE foreign[v]
      BY <1>1, <1>2 DEF TypeOK
    <2>4. QED
      BY <1>1, <2>1, <2>2, <2>3 DEF Room
  <1>7. ledger[VolOf(t)][Main(t)].peer = Owner[t]
    BY <1>2, <1>4 DEF Inv, Booked, Booking, Main, Kinds
  <1>8. WithinLimits(ledger')
    BY <1>2, <1>4, <1>7, PutKeepsLimits
  <1>9. CASE writer[t].stale
    <2>1. Remaining(r) <= Remaining(ledger[VolOf(t)][Main(t)])
      BY <1>2, <1>4, NoneFacts DEF Remaining
    <2>2. \A v \in Volumes : Fit(ledger', v, Room(v))
      BY <1>2, <1>4, <2>1, BookingFits
    <2>3. \A v \in Volumes : Room(v)' = Room(v)
      BY <1>6, <1>9
    <2>4. QED
      BY <1>8, <2>2, <2>3, FittingNext
  <1>10. CASE ~writer[t].stale
    <2>1. /\ Fit(ledger', VolOf(t), Room(VolOf(t)) - 1)
          /\ \A w \in Volumes \ {VolOf(t)} : Promised(ledger', w) = Promised(ledger, w)
      BY <1>2, <1>4, <1>10, RetireFits
    <2>2. ASSUME NEW v \in Volumes PROVE Fit(ledger', v, Room(v)')
      <3>1. CASE v = VolOf(t)
        BY <1>6, <1>10, <2>1, <3>1
      <3>2. CASE v # VolOf(t)
        <4>1. /\ Fit(ledger, v, Room(v)) /\ Room(v)' = Room(v)
              /\ Promised(ledger', v) = Promised(ledger, v)
          BY <1>2, <1>6, <2>1, <3>2
        <4>2. QED
          BY <4>1 DEF Fit
      <3>3. QED
        BY <3>1, <3>2
    <2>3. QED
      BY <1>8, <2>2, FittingNext
  <1>11. QED
    BY <1>9, <1>10

\* A missing chunk takes as much from the promises as it takes of the disk,
\* on one volume or on two; one that came on no promise is counted as such.
LEMMA ChunkFits ==
    ASSUME Inv, Fitting, separate' = separate, NEW t \in Files, Chunk(t)
    PROVE  Fitting'
  <1> DEFINE c == ShareKey(t)
             cv == ShareVol(t)
  <1>1. /\ free' = IF separate THEN [v \in Volumes |-> free[v] - 1]
                   ELSE [free EXCEPT ![Inbox] = @ - 2]
        /\ foreign' = IF ~writer[t].stale THEN foreign
                      ELSE [v \in Volumes |-> foreign[v] + (IF separate THEN 1 ELSE 2)]
        /\ UNCHANGED landed /\ writer[t] # None /\ writer[t].due > 0
    BY SameVolumes DEF Chunk
  <1>2. /\ TypeOK /\ t \in Transfers /\ t \notin Uploads /\ VolOf(t) = Inbox
        /\ Inbox \in Volumes /\ CacheVol \in Volumes /\ ledger \in Ledgers /\ Main(t) \in Keys
        /\ \A v \in Volumes : Fit(ledger, v, Room(v))
        /\ \A v \in Volumes : Room(v) \in Nat
        /\ WithinLimits(ledger)
    BY ReservationAssumption, VolumeFacts, KeyFacts, RoomFacts
    DEF Inv, TypeOK, Ledgers, Fitting, Transfers, VolOf
  <1>3. /\ c \in Keys /\ cv \in Volumes /\ (c = Main(t) <=> cv = Inbox)
        /\ ~separate => c = Main(t)
        /\ Backed(writer[t]) => cv = CacheVol
        /\ ledger[cv][c].peer = Owner[t] /\ ledger[Inbox][Main(t)].peer = Owner[t]
    BY <1>1, ShareFacts
  <1>4. PICK q \in Reservation, r \in Reservation : Retired(t, q, r)
    BY ChunkBooks
  <1> DEFINE A == Put(ledger, cv, c, q)
  <1>5. /\ ledger' = Put(A, Inbox, Main(t), r) /\ A[Inbox][Main(t)] # None
        /\ r.remaining <= A[Inbox][Main(t)].remaining
        /\ ~writer[t].stale => r.remaining = A[Inbox][Main(t)].remaining - 1
        /\ r.declared = A[Inbox][Main(t)].declared /\ r.peer = Owner[t] /\ q.peer = Owner[t]
        /\ q.declared = ledger[cv][c].declared /\ ledger[cv][c] # None
        /\ q.remaining <= ledger[cv][c].remaining
        /\ ~writer[t].stale => q.remaining = ledger[cv][c].remaining - 1
    BY <1>4 DEF Retired, Backed
  <1> HIDE DEF c, cv
  <1>6. /\ A \in Ledgers /\ A[cv][c] = q
        /\ \A v \in Volumes, j \in Keys : v # cv \/ j # c => A[v][j] = ledger[v][j]
    BY <1>2, <1>3, PutFacts
  <1>7. ASSUME ~writer[t].stale
        PROVE  /\ Fit(A, cv, Room(cv) - 1)
               /\ \A w \in Volumes \ {cv} : Promised(A, w) = Promised(ledger, w)
    BY <1>2, <1>3, <1>5, <1>7, RetireFits
  <1>8. \A v \in Volumes : Fit(A, v, Room(v))
    <2>1. Remaining(q) <= Remaining(ledger[cv][c])
      BY <1>5, NoneFacts DEF Remaining
    <2>2. q \in Reservation \cup {None}
      OBVIOUS
    <2>3. QED
      BY <1>2, <1>3, <2>1, <2>2, BookingFits
  <1>9. WithinLimits(A)
    BY <1>2, <1>3, <1>5, PutKeepsLimits
  <1> HIDE DEF A
  <1>10. A[Inbox][Main(t)].peer = Owner[t]
    <2>1. CASE c = Main(t)
      BY <1>3, <1>5, <1>6, <2>1
    <2>2. CASE c # Main(t)
      <3>1. A[Inbox][Main(t)] = ledger[Inbox][Main(t)]
        BY <1>2, <1>6, <2>2
      <3>2. QED
        BY <1>3, <3>1
    <2>3. QED
      BY <2>1, <2>2
  <1>11. WithinLimits(ledger')
    BY <1>2, <1>5, <1>6, <1>9, <1>10, PutKeepsLimits
  <1>12. \A v \in Volumes : Landed(v)' = Landed(v)
    BY <1>1, LandedSame
  <1>13. ASSUME NEW v \in Volumes
         PROVE  /\ free[v] \in Nat /\ Landed(v) \in Nat /\ foreign[v] \in Nat
                /\ Room(v) = free[v] + foreign[v] + Landed(v)
                /\ Room(v)' = free'[v] + foreign'[v] + Landed(v)
                /\ free'[v] = free[v] - (IF separate THEN 1 ELSE 2)
                /\ foreign'[v] = IF writer[t].stale
                                 THEN foreign[v] + (IF separate THEN 1 ELSE 2)
                                 ELSE foreign[v]
    <2>1. ~separate => v = Inbox
      BY VolumeFacts
    <2>2. free'[v] = free[v] - (IF separate THEN 1 ELSE 2)
      BY <1>1, <1>2, <2>1 DEF TypeOK
    <2>3. QED
      BY <1>1, <1>2, <1>12, <2>2, RoomFacts DEF Room
  <1>14. CASE writer[t].stale
    <2>1. \A v \in Volumes : Room(v)' = Room(v)
      BY <1>13, <1>14
    <2>2. Remaining(r) <= Remaining(A[Inbox][Main(t)]) /\ r \in Reservation \cup {None}
      BY <1>5, NoneFacts DEF Remaining
    <2>3. \A v \in Volumes : Fit(ledger', v, Room(v))
      BY <1>2, <1>5, <1>6, <1>8, <2>2, BookingFits
    <2>4. QED
      BY <1>11, <2>1, <2>3, FittingNext
  <1>15. CASE separate /\ ~writer[t].stale
    <2>1. CacheVol # Inbox /\ cv = CacheVol
      BY <1>3, <1>15, VolumeFacts DEF Backed
    <2>2. \A v \in Volumes : Room(v)' = Room(v) - 1
      BY <1>13, <1>15
    <2>3. Fit(A, Inbox, Room(Inbox)) /\ Fit(A, CacheVol, Room(CacheVol) - 1)
      BY <1>2, <1>7, <1>8, <1>15, <2>1
    <2>4. /\ Fit(ledger', Inbox, Room(Inbox) - 1)
          /\ \A w \in Volumes \ {Inbox} : Promised(ledger', w) = Promised(A, w)
      BY <1>2, <1>5, <1>6, <1>15, <2>3, RetireFits
    <2>5. ASSUME NEW v \in Volumes PROVE Fit(ledger', v, Room(v) - 1)
      <3>1. CASE v = Inbox
        BY <2>4, <3>1
      <3>2. CASE v # Inbox
        <4>1. v = CacheVol
          BY <3>2, VolumeFacts
        <4>2. QED
          BY <2>3, <2>4, <3>2, <4>1 DEF Fit
      <3>3. QED
        BY <3>1, <3>2
    <2>6. \A v \in Volumes : Fit(ledger', v, Room(v)')
      BY <2>2, <2>5
    <2>7. QED
      BY <1>11, <2>6, FittingNext
  <1>16. CASE ~separate /\ ~writer[t].stale
    <2>1. cv = Inbox /\ \A v \in Volumes : v = Inbox
      BY <1>3, <1>16, VolumeFacts
    <2>2. Room(Inbox)' = Room(Inbox) - 2
      BY <1>2, <1>13, <1>16
    <2>3. Fit(A, Inbox, Room(Inbox) - 1)
      BY <1>7, <1>16, <2>1
    <2>4. /\ Promised(A, Inbox) \in Nat /\ Promised(ledger', Inbox) \in Nat
          /\ Remaining(r) \in Nat /\ Remaining(A[Inbox][Main(t)]) \in Nat
          /\ Promised(ledger', Inbox) + Remaining(A[Inbox][Main(t)]) = Promised(A, Inbox) + Remaining(r)
      BY <1>2, <1>5, <1>6, PromisedPut
    <2>5. Remaining(r) = r.remaining /\ Remaining(A[Inbox][Main(t)]) = A[Inbox][Main(t)].remaining
      BY <1>5, NoneFacts DEF Remaining
    <2>6. Promised(ledger', Inbox) = Promised(A, Inbox) - 1
      BY <1>5, <1>16, <2>4, <2>5
    <2>7. Fit(ledger', Inbox, Room(Inbox) - 2)
      <3>1. MinFree \in Nat /\ Room(Inbox) \in Nat
        BY <1>2, ReservationAssumption
      <3>2. QED
        BY <2>3, <2>4, <2>6, <3>1 DEF Fit
    <2>8. \A v \in Volumes : Fit(ledger', v, Room(v)')
      BY <2>1, <2>2, <2>7
    <2>9. QED
      BY <1>11, <2>8, FittingNext
  <1>17. QED
    BY <1>14, <1>15, <1>16

\* A chunk on no promise is accounted for.
LEMMA UnpromisedFits ==
    ASSUME Inv, Fitting, separate' = separate, NEW u \in Volumes,
           foreign' = [foreign EXCEPT ![u] = @ + 1], free' = [free EXCEPT ![u] = @ - 1],
           UNCHANGED <<ledger, landed>>
    PROVE  Fitting'
  <1>1. ASSUME NEW v \in Volumes PROVE Room(v)' = Room(v)
    <2>1. free[v] \in Nat /\ Landed(v) \in Nat /\ foreign[v] \in Nat
      BY RoomFacts DEF Inv
    <2>2. /\ free'[v] = IF v = u THEN free[v] - 1 ELSE free[v]
          /\ foreign'[v] = IF v = u THEN foreign[v] + 1 ELSE foreign[v]
      BY DEF Inv, TypeOK
    <2>3. Landed(v)' = Landed(v)
      BY LandedSame
    <2>4. QED
      BY <2>1, <2>2, <2>3 DEF Room
  <1>2. WithinLimits(ledger') /\ \A v \in Volumes : Fit(ledger', v, Room(v))
    BY DEF Fitting
  <1>3. QED
    BY <1>1, <1>2, FittingNext

\* So are those of other programs and of the swarm.
LEMMA ForeignFits ==
    ASSUME Inv, Fitting, separate' = separate, NEW v \in Volumes, Foreign(v)
    PROVE  Fitting'
  BY UnpromisedFits DEF Foreign

LEMMA SwarmAssistFits ==
    ASSUME Inv, Fitting, separate' = separate, NEW t \in Files, SwarmAssist(t)
    PROVE  Fitting'
  BY UnpromisedFits, VolumeFacts DEF SwarmAssist

\* Empty ledgers promise and charge nothing.
LEMMA EmptyFits ==
    ASSUME NEW L, L = [v \in Volumes |-> [k \in Keys |-> None]]
    PROVE  /\ WithinLimits(L) /\ \A v \in Volumes : Promised(L, v) = 0
  <1>1. Held(L, Inbox) = {}
    BY VolumeFacts DEF Held
  <1>2. Cardinality(Held(L, Inbox)) = 0
    BY <1>1, FS_EmptySet
  <1>3. ASSUME NEW p
        PROVE  Cardinality(HeldBy(L, Inbox, p)) = 0 /\ Declared(L, Inbox, p) = 0
    <2>1. HeldBy(L, Inbox, p) = {}
      BY <1>1 DEF HeldBy
    <2>2. Declared(L, Inbox, p) = Sum([k \in Held(L, Inbox) |-> L[Inbox][k].declared], {})
      BY <2>1 DEF Declared, Sum
    <2>3. QED
      BY <2>1, <2>2, SumEmpty, FS_EmptySet
  <1>4. WithinLimits(L)
    BY <1>2, <1>3, ReservationAssumption DEF WithinLimits
  <1>5. ASSUME NEW v \in Volumes PROVE Promised(L, v) = 0
    <2> DEFINE f == [k \in Keys |-> Remaining(L[v][k])]
               zero == [k \in Keys |-> 0]
    <2>1. f = zero
      BY DEF Remaining
    <2>2. Promised(L, v) = Sum(zero, Keys)
      BY <2>1 DEF Promised, Sum
    <2>3. Sum(zero, Keys) = 0
      BY KeyFacts, SumZero
    <2>4. QED
      BY <2>2, <2>3
  <1>6. QED
    BY <1>4, <1>5

LEMMA RestartFits ==
    ASSUME separate' = separate, Restart
    PROVE  Fitting'
  <1>1. WithinLimits(ledger') /\ \A v \in Volumes : Promised(ledger', v) = 0
    BY EmptyFits DEF Restart
  <1>2. \A v \in Volumes : Fit(ledger', v, Room(v)')
    BY <1>1 DEF Fit
  <1>3. QED
    BY <1>1, <1>2, FittingNext

\* No overbooking: everything promised on a volume fits above its floor, but
\* for what came without a promise and what threads wrote; no peer and no
\* device goes beyond its quotas.
THEOREM NeverOverbooked == Spec => []PromisesFit
  <1>1. Init => Fitting
    <2>1. SUFFICES ASSUME Init PROVE Fitting
      OBVIOUS
    <2>2. WithinLimits(ledger) /\ \A v \in Volumes : Promised(ledger, v) = 0
      BY <2>1, EmptyFits DEF Init
    <2>3. QED
      BY <2>2 DEF Fitting, Fit
  <1>2. Inv /\ Fitting /\ [Next]_vars => Fitting'
    <2>1. SUFFICES ASSUME Inv, Fitting, Next \/ UNCHANGED vars PROVE Fitting'
      OBVIOUS
    <2>2. CASE UNCHANGED vars
      <3>1. separate' = separate /\ ledger' = ledger /\ UNCHANGED <<free, foreign, landed>>
        BY <2>2 DEF vars
      <3>2. WithinLimits(ledger') /\ \A v \in Volumes : Fit(ledger', v, Room(v))
        BY <2>1, <3>1 DEF Fitting
      <3>3. QED
        BY <3>1, <3>2, RoomSame, FittingNext
    <2>3. CASE Next
      <3>1. separate' = separate /\ Step /\ Sizes \subseteq Nat
        BY <2>3, ReservationAssumption DEF Next
      <3>2. ASSUME NEW t \in Files, NEW size \in Sizes, NEW missing \in 0..size,
                   \/ \E hold \in BOOLEAN : OfferAdmitted(t, size, missing, hold)
                   \/ OfferRefused(t, size, missing)
            PROVE  Fitting'
        <4>1. size \in Nat /\ missing \in Nat
          BY <3>1
        <4>2. QED
          BY <2>1, <3>1, <3>2, <4>1, OfferFits
      <3>3. ASSUME NEW t \in Uploads, NEW size \in Sizes, Upload(t, size) PROVE Fitting'
        BY <2>1, <3>1, <3>3, UploadFits
      <3>4. ASSUME NEW t \in Files, Accept(t) \/ SwarmAssist(t) \/ Chunk(t) PROVE Fitting'
        BY <2>1, <3>1, <3>4, AcceptFits, SwarmAssistFits, ChunkFits
      <3>5. ASSUME NEW t \in Files, Park(t) PROVE Fitting'
        BY <2>1, <3>1, <3>5, EndFits DEF Park, Transfers
      <3>6. ASSUME NEW t \in Files, NEW n \in Sizes, NEW ask \in BOOLEAN, n > 0,
                   CacheMiss(t, n, ask)
            PROVE  Fitting'
        BY <2>1, <3>1, <3>6, CacheMissFits
      <3>7. ASSUME NEW t \in Transfers, ThreadWrite(t) PROVE Fitting'
        BY <2>1, <3>1, <3>7, ThreadWriteFits
      <3>8. ASSUME NEW t \in Transfers, ThreadConsume(t) PROVE Fitting'
        BY <2>1, <3>1, <3>8, ThreadConsumeFits
      <3>9. ASSUME NEW t \in Transfers, Finish(t) PROVE Fitting'
        BY <2>1, <3>1, <3>9, EndFits DEF Finish
      <3>10. ASSUME NEW t \in Transfers, Abort(t) PROVE Fitting'
        BY <2>1, <3>1, <3>10, AbortFits
      <3>11. ASSUME NEW v \in Volumes, Foreign(v) PROVE Fitting'
        BY <2>1, <3>1, <3>11, ForeignFits
      <3>12. ASSUME Restart PROVE Fitting'
        BY <3>1, <3>12, RestartFits
      <3>13. QED
        BY <3>1, <3>2, <3>3, <3>4, <3>5, <3>6, <3>7, <3>8, <3>9, <3>10, <3>11, <3>12 DEF Step
    <2>4. QED
      BY <2>1, <2>2, <2>3
  <1>3. Fitting => PromisesFit
    BY DEF Fitting, Fit, Room, WithinLimits, PromisesFit
  <1>4. QED
    BY <1>1, <1>2, <1>3, AlwaysBooked, PTL DEF Spec
=============================================================================
