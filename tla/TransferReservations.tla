------------------------ MODULE TransferReservations ------------------------
(***************************************************************************)
(* Disk promises to incoming files and uploads (transfer_safety.py, and    *)
(* its use by daemon.py and server.py). A ledger admits a transfer when    *)
(* the free bytes of its volume cover it on top of everything promised     *)
(* before. CDC transfers write every missing chunk twice, to the chunk     *)
(* cache and to the output; the cache may be on another volume with a      *)
(* ledger of its own, which uploads then share. Sizes are in chunks.       *)
(*                                                                         *)
(* What a transfer misses may grow without a promise: a refused retry and  *)
(* a recovery without space leave the larger set behind. The sender has to *)
(* be asked for the chunks before they come.                               *)
(***************************************************************************)
EXTENDS Integers, FiniteSets, Functions

CONSTANTS
    Files,           \* incoming transfers
    Uploads,         \* browser and phone uploads
    Owner,           \* Owner[t]: the peer that is charged
    None,            \* no reservation, no writer
    Sizes,           \* declared sizes
    Capacity,        \* free chunks of a volume at the start
    MinFree,         \* min_free_reserve_bytes
    MaxPerPeer,      \* max_active_inbound_transfers_per_peer
    MaxBytesPerPeer, \* max_active_inbound_bytes_per_peer
    MaxActive,       \* max_active_inbound_transfers
    MaxBytes,        \* max_active_inbound_bytes
    MaxForeign,      \* bound on what is written without a promise of its own
    MaxRestarts      \* bound on the restarts

Transfers == Files \cup Uploads

\* Reservation ids: the transfer's own, the one of its cache share, and the
\* one of a share that was needed only after a cache entry disappeared.
Kinds == {"main", "cache", "recovery"}
Keys  == Transfers \X Kinds

\* InboundTransferReservation.
Reservation == [peer : {Owner[t] : t \in Transfers}, declared : Nat, remaining : Nat]

\* What is known of a transfer in flight: its declared size, the chunks of
\* its output still to be written, the chunks it misses (cdc_missing), those
\* of them the sender was asked for, whether the offer is held for the user,
\* whether a retry was refused while it was, and the id of its cache share.
Writer == [size : Nat, file : Nat, cache : Nat, due : Nat, held : BOOLEAN,
           stale : BOOLEAN, cacheKey : Keys \cup {None}]

ASSUME ReservationAssumption ==
    /\ Files \cap Uploads = {} /\ IsFiniteSet(Transfers) /\ Sizes \subseteq Nat
    /\ None \notin Reservation \cup Writer \cup Keys
    /\ Capacity \in Nat /\ MinFree \in Nat
    /\ MaxPerPeer \in Nat \ {0} /\ MaxBytesPerPeer \in Nat \ {0}
    /\ MaxActive \in Nat \ {0} /\ MaxBytes \in Nat \ {0}
    /\ MaxForeign \in Nat /\ MaxRestarts \in Nat

VARIABLES
    separate, \* whether the cache is on another volume than the inbox
    ledger,   \* ledger[v][k]: an InboundTransferReservation, or None
    free,     \* free[v]: free chunks of the volume
    writer,   \* writer[t]: what the transfer has still to write, or None
    partial,  \* partial[t]: chunks of its output that are on disk
    landed,   \* landed[t]: chunks written by a thread, not yet retired
    foreign,  \* foreign[v]: chunks written there on no promise (history)
    restarts

vars == <<separate, ledger, free, writer, partial, landed, foreign, restarts>>

Inbox    == "inbox"
CacheVol == IF separate THEN "cache" ELSE "inbox"
Volumes  == {Inbox, CacheVol}

\* VolOf(t): the volume a transfer's own bytes go to.
VolOf(t)    == IF t \in Uploads THEN CacheVol ELSE Inbox
Held(L, v)  == {k \in Keys : L[v][k] # None}
Remaining(r) == IF r = None THEN 0 ELSE r.remaining
Promised(L, v) == SumFunctionOnSet([k \in Keys |-> Remaining(L[v][k])], Keys)

\* The reservations of a peer, and the bytes they declare.
HeldBy(L, v, p) == {k \in Held(L, v) : L[v][k].peer = p}
Declared(L, v, p) == SumFunctionOnSet([k \in Held(L, v) |-> L[v][k].declared],
                                      HeldBy(L, v, p))

Init ==
    /\ separate \in BOOLEAN
    /\ ledger = [v \in Volumes |-> [k \in Keys |-> None]]
    /\ free = [v \in Volumes |-> Capacity]
    /\ writer = [t \in Transfers |-> None]
    /\ partial = [t \in Transfers |-> 0]
    /\ landed = [t \in Transfers |-> 0]
    /\ foreign = [v \in Volumes |-> 0]
    /\ restarts = 0

-----------------------------------------------------------------------------
(* The ledger's operations, each under its lock; L is the ledgers before.  *)

\* The quotas of evaluate_transfer_admission, in transfers and in declared
\* bytes: of the peer, and over all peers.
WithinQuota(L, v, p, size) ==
    /\ Cardinality(HeldBy(L, v, p)) < MaxPerPeer
    /\ Declared(L, v, p) + size <= MaxBytesPerPeer
    /\ Cardinality(Held(L, v)) < MaxActive
    /\ SumFunctionOnSet([k \in Held(L, v) |-> L[v][k].declared], Held(L, v)) + size
          <= MaxBytes

\* The disk test of evaluate_transfer_admission.
Fits(L, v, want) ==
    want > 0 => want + Promised(L, v) + MinFree <= free[v]

Put(L, v, k, r) == [L EXCEPT ![v][k] = r]
Release(L, v, k) == Put(L, v, k, None)

\* Mutant: growth is tested against the free bytes only.
MayResizeAlone(L, v, k, want) ==
    want > L[v][k].remaining => want + MinFree <= free[v]

\* resize_remaining: a smaller promise is always fine, a larger one is
\* tested with all others.
MayResize(L, v, k, want) ==
    want > L[v][k].remaining =>
        want + Promised(Release(L, v, k), v) + MinFree <= free[v]

Resized(L, v, k, want) == [L EXCEPT ![v][k].remaining = want]

\* consume: never below zero, and nothing for an unknown id.
Consumed(L, v, k, n) ==
    IF L[v][k] = None THEN L
    ELSE [L EXCEPT ![v][k].remaining = IF @ > n THEN @ - n ELSE 0]

-----------------------------------------------------------------------------
(* Admission of an offer.                                                  *)

\* The key under which the cache share of an offer is booked, if any.
CacheKey(t, missing) ==
    CASE ~separate               -> <<t, "main">>
      [] separate /\ missing > 0 -> <<t, "cache">>
      [] OTHER                   -> None

\* Step 1, the inbox ledger: a new reservation, or the one there is resized.
MainOk(t, size, want) ==
    LET k == <<t, "main">>
    IN  IF ledger[Inbox][k] = None
        THEN WithinQuota(ledger, Inbox, Owner[t], size) /\ Fits(ledger, Inbox, want)
        ELSE /\ ledger[Inbox][k].declared = size
             /\ MayResize(ledger, Inbox, k, want)

AfterMain(t, size, want) ==
    LET k == <<t, "main">>
    IN  IF ledger[Inbox][k] = None
        THEN Put(ledger, Inbox, k,
                 [peer |-> Owner[t], declared |-> size, remaining |-> want])
        ELSE Resized(ledger, Inbox, k, want)

\* The cache key of the writer the offer retries.
PriorKey(t) == IF writer[t] = None THEN None ELSE writer[t].cacheKey

\* Step 2, the ledger of a separate cache volume, which knows no quotas.
CacheOk(L, t, missing) ==
    LET k == CacheKey(t, missing)
    IN  separate /\ missing > 0 =>
            IF PriorKey(t) = k THEN MayResize(L, CacheVol, k, missing)
            ELSE Fits(L, CacheVol, missing)

\* Mutant: the cache share of an earlier attempt is kept beside the new one.
AfterCacheKeepsPrior(L, t, missing) ==
    LET k == CacheKey(t, missing)
    IN  IF ~separate \/ missing = 0 THEN L
        ELSE Put(L, CacheVol, k, [peer |-> Owner[t], declared |-> missing,
                                  remaining |-> missing])

\* The share is booked; one under another key, or no longer needed, goes.
AfterCache(L, t, missing) ==
    LET k     == CacheKey(t, missing)
        prior == PriorKey(t)
        M     == IF prior # None /\ prior # k
                 THEN Release(L, CacheVol, prior) ELSE L
    IN  CASE ~separate -> L
          [] separate /\ missing = 0 -> M
          [] separate /\ missing > 0 /\ prior = k -> Resized(L, CacheVol, k, missing)
          [] OTHER -> Put(M, CacheVol, k, [peer |-> Owner[t], declared |-> missing,
                                           remaining |-> missing])

\* What the inbox volume has to hold for an offer.
Want(size, have, missing) ==
    (size - have) + (IF separate THEN 0 ELSE missing)

\* A new offer of a file, a resume of its partial, or a retry of the one in
\* flight with another share of its chunks in the cache. A file that is
\* being finalized is left alone.
MayOffer(t, size, missing) ==
    /\ writer[t] # None => writer[t].size = size /\ landed[t] = 0
    /\ partial[t] <= size /\ missing <= size - partial[t]

\* The sender is asked for everything missing at once, or the offer is held
\* until the user accepts it; one that was granted is not held again.
OfferAdmitted(t, size, missing, hold) ==
    LET want == Want(size, partial[t], missing)
        L    == AfterMain(t, size, want)
    IN  /\ MayOffer(t, size, missing)
        /\ hold /\ writer[t] # None => writer[t].held
        /\ MainOk(t, size, want) /\ CacheOk(L, t, missing)
        /\ ledger' = AfterCache(L, t, missing)
        /\ writer' = [writer EXCEPT ![t] =
               [size |-> size, file |-> size - partial[t], cache |-> missing,
                due |-> IF hold THEN 0 ELSE missing, held |-> hold,
                stale |-> FALSE, cacheKey |-> CacheKey(t, missing)]]
        /\ UNCHANGED <<free, partial, landed, foreign, restarts>>

\* The inbox or the cache volume refuses. A reservation made for this offer
\* is undone, one of the writer in flight keeps its new size. The writer has
\* its new missing set already; what is under way of the old one still comes.
OfferRefused(t, size, missing) ==
    LET want == Want(size, partial[t], missing)
        L    == AfterMain(t, size, want)
        main == MainOk(t, size, want)
    IN  /\ MayOffer(t, size, missing)
        /\ ~(main /\ CacheOk(L, t, missing))
        /\ ledger' = IF writer[t] = None THEN Release(ledger, Inbox, <<t, "main">>)
                     ELSE IF main THEN L ELSE ledger
        /\ writer' = IF writer[t] = None THEN writer
                     ELSE [writer EXCEPT ![t].cache = missing,
                                         ![t].due = IF @ > missing THEN missing ELSE @,
                                         ![t].stale = @ \/ writer[t].held]
        /\ UNCHANGED <<free, partial, landed, foreign, restarts>>

\* The user accepts a held offer: the sender is asked for all that is
\* missing by now.
Accept(t) ==
    /\ writer[t] # None /\ writer[t].held
    /\ writer' = [writer EXCEPT ![t].held = FALSE, ![t].due = writer[t].cache]
    /\ UNCHANGED <<ledger, free, partial, landed, foreign, restarts>>

\* Another device of the swarm has a missing chunk: it goes to the cache, and
\* the promise made for it stays.
SwarmAssist(t) ==
    /\ writer[t] # None /\ writer[t].cache > 0
    /\ foreign[CacheVol] < MaxForeign /\ free[CacheVol] > 0
    /\ free' = [free EXCEPT ![CacheVol] = @ - 1]
    /\ foreign' = [foreign EXCEPT ![CacheVol] = @ + 1]
    /\ writer' = [writer EXCEPT ![t].cache = @ - 1,
                                ![t].due = IF @ = writer[t].cache THEN @ - 1 ELSE @]
    /\ UNCHANGED <<ledger, partial, landed, restarts>>

-----------------------------------------------------------------------------
(* Writing.                                                                *)

\* The ledgers after a chunk went to the cache: a transfer without a cache
\* share pays from its own reservation.
AfterCacheWrite(t) ==
    LET k == writer[t].cacheKey
    IN  IF k = None THEN Consumed(ledger, Inbox, <<t, "main">>, 1)
        ELSE Consumed(ledger, CacheVol, k, 1)

\* A missing chunk arrives: it goes to the cache and to the output, and each
\* promise is retired after its write.
Chunk(t) ==
    /\ writer[t] # None /\ t \in Files
    /\ writer[t].due > 0 /\ writer[t].file > 0
    /\ free' = IF separate THEN [v \in Volumes |-> free[v] - 1]
               ELSE [free EXCEPT ![Inbox] = @ - 2]
    /\ foreign' = IF ~writer[t].stale THEN foreign
                  ELSE [v \in Volumes |-> foreign[v] + (IF separate THEN 1 ELSE 2)]
    /\ ledger' = Consumed(AfterCacheWrite(t), Inbox, <<t, "main">>, 1)
    /\ writer' = [writer EXCEPT ![t].cache = @ - 1, ![t].due = @ - 1,
                                ![t].file = @ - 1]
    /\ partial' = [partial EXCEPT ![t] = @ + 1]
    /\ \A v \in Volumes : free'[v] >= 0
    /\ UNCHANGED <<landed, restarts>>

\* A worker thread writes one chunk: a cached chunk during assembly, or a
\* part of an upload. Its promise is retired by a later step.
ThreadWrite(t) ==
    /\ writer[t] # None /\ writer[t].cache = 0 /\ writer[t].file > 0
    /\ ~writer[t].held
    /\ landed[t] = 0 /\ free[VolOf(t)] > 0
    /\ free' = [free EXCEPT ![VolOf(t)] = @ - 1]
    /\ landed' = [landed EXCEPT ![t] = 1]
    /\ partial' = [partial EXCEPT ![t] = @ + 1]
    /\ UNCHANGED <<ledger, writer, foreign, restarts>>

ThreadConsume(t) ==
    /\ landed[t] > 0 /\ writer[t] # None
    /\ ledger' = Consumed(ledger, VolOf(t), <<t, "main">>, 1)
    /\ landed' = [landed EXCEPT ![t] = 0]
    /\ writer' = [writer EXCEPT ![t].file = @ - 1]
    /\ foreign' = IF ~writer[t].stale THEN foreign
                  ELSE [foreign EXCEPT ![VolOf(t)] = @ + 1]
    /\ UNCHANGED <<free, partial, restarts>>

\* Mutant: the sender is asked although the cache volume has no space.
AskedAnyway(ok, ask, n) == IF ask THEN n ELSE 0

\* What the sender is asked for when n cached chunks have disappeared.
AskedAgain(ok, ask, n) == IF ok /\ ask THEN n ELSE 0

\* _reserve_cdc_recovery_cache: n chunks that were to come from the cache
\* are gone. They are missing whether there is space for them or not; with
\* it the sender is asked for them, unless it waits for a receipt and offers
\* again by itself.
CacheMiss(t, n, ask) ==
    LET sep  == writer[t].cacheKey
        k    == CASE ~separate -> <<t, "main">>
                  [] separate /\ sep # None -> sep
                  [] OTHER -> <<t, "recovery">>
        v    == CacheVol
        cur  == ledger[v][k]
        more == Remaining(cur) + n
        ok   == IF cur = None THEN Fits(ledger, v, more)
                ELSE MayResize(ledger, v, k, more)
    IN  /\ t \in Files /\ writer[t] # None /\ writer[t].cache = 0
        /\ ~writer[t].held /\ landed[t] = 0 /\ n <= writer[t].file
        /\ ledger' = CASE ~ok -> ledger
                       [] ok /\ cur = None -> Put(ledger, v, k,
                             [peer |-> Owner[t], declared |-> n, remaining |-> more])
                       [] OTHER -> Resized(ledger, v, k, more)
        /\ writer' = [writer EXCEPT ![t].cache = n,
                                    ![t].due = AskedAgain(ok, ask, n),
                                    ![t].cacheKey = IF ok THEN k ELSE @]
        /\ UNCHANGED <<free, partial, landed, foreign, restarts>>

-----------------------------------------------------------------------------
(* The end of a transfer.                                                  *)

\* _release_inbound_reservation; for an upload, the release of its id.
Released(t) ==
    LET L == Release(ledger, VolOf(t), <<t, "main">>)
        k == writer[t].cacheKey
    IN  IF k \in {None, <<t, "main">>} THEN L ELSE Release(L, CacheVol, k)

\* Committed, or parked for resume: the bytes stay where they are.
End(t, keep) ==
    /\ writer[t] # None /\ landed[t] = 0
    /\ ledger' = Released(t)
    /\ writer' = [writer EXCEPT ![t] = None]
    /\ partial' = [partial EXCEPT ![t] = IF keep THEN @ ELSE 0]
    /\ UNCHANGED <<free, landed, foreign, restarts>>

Finish(t) == writer[t] # None /\ writer[t].file = 0 /\ End(t, FALSE)
Park(t)   == t \in Files /\ End(t, TRUE)

\* _abort_incoming_file, a failed upload: the output is unlinked. A thread
\* at work does not retire its promise any more.
Abort(t) ==
    /\ writer[t] # None
    /\ ledger' = Released(t)
    /\ free' = [free EXCEPT ![VolOf(t)] = @ + partial[t]]
    /\ writer' = [writer EXCEPT ![t] = None]
    /\ partial' = [partial EXCEPT ![t] = 0]
    /\ landed' = [landed EXCEPT ![t] = 0]
    /\ UNCHANGED <<foreign, restarts>>

\* An upload reserves its declared size.
Upload(t, size) ==
    /\ t \in Uploads /\ writer[t] = None
    /\ WithinQuota(ledger, CacheVol, Owner[t], size) /\ Fits(ledger, CacheVol, size)
    /\ ledger' = Put(ledger, CacheVol, <<t, "main">>,
                     [peer |-> Owner[t], declared |-> size, remaining |-> size])
    /\ writer' = [writer EXCEPT ![t] =
           [size |-> size, file |-> size, cache |-> 0, due |-> 0, held |-> FALSE,
            stale |-> FALSE, cacheKey |-> None]]
    /\ UNCHANGED <<free, partial, landed, foreign, restarts>>

\* Another program takes space.
Foreign(v) ==
    /\ foreign[v] < MaxForeign /\ free[v] > 0
    /\ foreign' = [foreign EXCEPT ![v] = @ + 1]
    /\ free' = [free EXCEPT ![v] = @ - 1]
    /\ UNCHANGED <<ledger, writer, partial, landed, restarts>>

\* Shutdown or crash: the ledgers live in memory, partials stay on disk.
Restart ==
    /\ restarts < MaxRestarts /\ restarts' = restarts + 1
    /\ ledger' = [v \in Volumes |-> [k \in Keys |-> None]]
    /\ writer' = [t \in Transfers |-> None]
    /\ landed' = [t \in Transfers |-> 0]
    /\ partial' = [t \in Transfers |-> IF t \in Uploads THEN 0 ELSE partial[t]]
    /\ UNCHANGED <<free, foreign>>

Step ==
    \/ \E t \in Files, size \in Sizes : \E missing \in 0..size :
          \/ \E hold \in BOOLEAN : OfferAdmitted(t, size, missing, hold)
          \/ OfferRefused(t, size, missing)
    \/ \E t \in Uploads, size \in Sizes : Upload(t, size)
    \/ \E t \in Files :
          \/ Accept(t) \/ SwarmAssist(t) \/ Chunk(t) \/ Park(t)
          \/ \E n \in Sizes, ask \in BOOLEAN : n > 0 /\ CacheMiss(t, n, ask)
    \/ \E t \in Transfers : \/ ThreadWrite(t) \/ ThreadConsume(t)
                            \/ Finish(t) \/ Abort(t)
    \/ \E v \in Volumes : Foreign(v)
    \/ Restart

\* The volumes are what they are while the daemon runs.
Next == Step /\ UNCHANGED separate

Spec == Init /\ [][Next]_vars

-----------------------------------------------------------------------------
\* Ledgers, writers and free space stay well formed.
TypeOK ==
    /\ separate \in BOOLEAN
    /\ ledger \in [Volumes -> [Keys -> Reservation \cup {None}]]
    /\ free \in [Volumes -> Nat]
    /\ writer \in [Transfers -> Writer \cup {None}]
    /\ partial \in [Transfers -> Nat]
    /\ landed \in [Transfers -> {0, 1}]
    /\ foreign \in [Volumes -> Nat]
    /\ restarts \in 0..MaxRestarts
    /\ \A t \in Transfers :
          writer[t] # None => /\ writer[t].file <= writer[t].size
                              /\ writer[t].due <= writer[t].cache

\* What threads have written to a volume without retiring it yet.
Landed(v) == SumFunctionOnSet(landed, {t \in Transfers : VolOf(t) = v})

\* No overbooking: everything promised on a volume fits into its free space
\* above the floor, but for what came without a promise (from other programs,
\* from the swarm, and of an offer accepted after a refused retry of it) and
\* what threads have written without retiring it yet. A peer's transfers and
\* bytes in flight stay within its quota, and the inbox within the limit of
\* the device.
PromisesFit ==
    /\ \A v \in Volumes :
          Promised(ledger, v) > 0 =>
              Promised(ledger, v) + MinFree <= free[v] + foreign[v] + Landed(v)
    /\ \A t \in Transfers :
          /\ Cardinality(HeldBy(ledger, Inbox, Owner[t])) <= MaxPerPeer
          /\ Declared(ledger, Inbox, Owner[t]) <= MaxBytesPerPeer
    /\ Cardinality(Held(ledger, Inbox)) <= MaxActive

\* The bytes that come for a transfer are promised to it: the rest of its
\* output, and of its missing chunks those the sender was asked for, on the
\* inbox and on the cache volume.
Covered(t) ==
    /\ ledger[VolOf(t)][<<t, "main">>].remaining >=
          writer[t].file + (IF separate THEN 0 ELSE writer[t].due)
    /\ separate /\ writer[t].due > 0 =>
          /\ writer[t].cacheKey # None
          /\ ledger[CacheVol][writer[t].cacheKey] # None
          /\ ledger[CacheVol][writer[t].cacheKey].remaining >= writer[t].due

\* A transfer in flight is booked, and covered although what it misses may grow
\* behind its promise, as long as no held offer is accepted after a refused
\* retry of it (stale).
WriterCovered ==
    \A t \in Transfers :
        writer[t] # None =>
            /\ ledger[VolOf(t)][<<t, "main">>] # None
            /\ (writer[t].stale => writer[t].held) => Covered(t)

\* The same without the exception, which the code does not keep.
EveryWriterCovered ==
    \A t \in Transfers :
        writer[t] # None => ledger[VolOf(t)][<<t, "main">>] # None /\ Covered(t)

\* No promise outlives its transfer, on either ledger, and there is one per
\* transfer and volume.
NoLeak ==
    \A v \in Volumes, k \in Keys :
        ledger[v][k] # None =>
            /\ writer[k[1]] # None
            /\ k[2] # "main" => writer[k[1]].cacheKey = k

=============================================================================
