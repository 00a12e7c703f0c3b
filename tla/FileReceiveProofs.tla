-------------------------- MODULE FileReceiveProofs --------------------------
(***************************************************************************)
(* Theorems about FileReceive.                                             *)
(***************************************************************************)
EXTENDS FileReceive, TLAPS

USE DEF tableVars, memVars, fileVars, rowVars, consentVars, wireVars, bounds

----------------------------------------------------------------------------
(* Types, and what belongs to which delivery.                              *)

\* Path p was opened for delivery d.
Known(p, d) == p \in 1..made /\ DeliveryOf(p) = d

\* A sidecar describes a partial of its own delivery, kept in chunks.
Partial(sc) ==
    sc # None => Known(sc.path, sc.delivery) /\ writer[sc.path].mode = "cdc"

WritersOwn ==
    \A w \in 1..made :
        /\ Known(PathOf(w), DeliveryOf(w))
        /\ writer[PathOf(w)].mode = writer[w].mode
        /\ writer[w].mode = "stream" => PathOf(w) = w

RowsOwn ==
    \A d \in Deliveries :
        /\ prepared[d] # 0 => Known(prepared[d], d)
        /\ evidence[d] # 0 => Known(evidence[d], d)
        /\ recovery[d] # Idle => Known(recovery[d].path, d)

FilesOwn ==
    /\ staged \subseteq 1..made /\ public \subseteq 1..made
    /\ \A w \in Writers : task[w] # "idle" => w \in 1..made

\* A handler that waits for the swarm holds a writer; that of an offer is one
\* of its delivery that was accepted.
OffersOwn ==
    \A s \in suspended :
        /\ s.kind \in {"offer", "assist"} => s.writer \in 1..made
        /\ s.kind = "offer" => /\ DeliveryOf(s.writer) = s.delivery
                               /\ writer[s.writer].granted

\* Nothing is kept, written or published under a path of another delivery.
Owned ==
    /\ WritersOwn /\ RowsOwn /\ FilesOwn /\ OffersOwn
    /\ Partial(sidecar) /\ Partial(registry)

\* A stream that has all its chunks is no longer receiving.
Roomy ==
    table # 0 /\ writer[table].mode = "stream" /\ task[table] = "idle"
        => chunks[PathOf(table)] < Chunks

Shape == TypeOK /\ Owned /\ Roomy

\* The bounds, as numbers.
LEMMA Numbers ==
    ASSUME TypeOK
    PROVE  /\ Chunks \in Nat \ {0} /\ MaxWriters \in Nat \ {0}
           /\ made \in 0..MaxWriters /\ 1..made \subseteq Writers
           /\ scenario.writers \in 0..MaxWriters
           /\ scenario.faults \in Nat /\ scenario.crashes \in Nat
           /\ scenario.offered \subseteq Deliveries
BY FileReceiveAssumption DEF TypeOK, TableTyped, BoundsTyped, Writers

\* Giving a writer up keeps the types of what it touches.
LEMMA AbortTyped ==
    ASSUME TypeOK, NEW w \in 1..made,
           NEW s \in {"failed", "paused"}, AbortIncoming(w, s)
    PROVE  /\ table' = 0 /\ open' \subseteq 1..made
           /\ reserved' \subseteq Deliveries /\ sidecar' = None
           /\ staged' \subseteq staged /\ public' \subseteq public
           /\ chunks' = chunks
           /\ RowsTyped' /\ FilesTyped'
<1>1. DeliveryOf(w) \in Deliveries
  BY DEF TypeOK, TableTyped, DeliveryOf, WriterFields
<1>2. RowsTyped'
  BY <1>1 DEF TypeOK, RowsTyped, AbortIncoming, SetRow
<1> QED
  BY <1>1, <1>2 DEF TypeOK, TableTyped, MemoryTyped, FilesTyped, AbortIncoming

\* The fields of a writer.
LEMMA WriterFacts ==
    ASSUME Shape, NEW w \in 1..made
    PROVE  /\ writer[w] \in WriterFields
           /\ DeliveryOf(w) \in Deliveries /\ PathOf(w) \in 1..made
           /\ DeliveryOf(PathOf(w)) = DeliveryOf(w)
           /\ writer[w].mode \in Modes
BY DEF Shape, TypeOK, TableTyped, Owned, WritersOwn, Known, DeliveryOf, PathOf,
       WriterFields

\* Writers are added and change, but none changes hands.
Grown ==
    /\ made' \in Nat /\ made <= made'
    /\ \A w \in 1..made :
          /\ writer'[w].delivery = writer[w].delivery
          /\ writer'[w].path = writer[w].path
          /\ writer'[w].mode = writer[w].mode
          /\ writer[w].granted => writer'[w].granted

\* What belonged to a delivery still does when no writer changes hands.
LEMMA OwnersStay ==
    ASSUME Shape, Grown
    PROVE  /\ \A p, d : Known(p, d) => p \in 1..made' /\ writer'[p].delivery = d
           /\ UNCHANGED sidecar => Partial(sidecar)'
           /\ UNCHANGED registry => Partial(registry)'
           /\ UNCHANGED <<prepared, evidence, recovery>> => RowsOwn'
           /\ suspended' \subseteq suspended => OffersOwn'
           /\ made' = made => WritersOwn'
<1> USE Numbers DEF Shape, Grown
<1>0. 1..made \subseteq 1..made'
  OBVIOUS
<1>1. \A p, d : Known(p, d) => p \in 1..made' /\ writer'[p].delivery = d
  BY <1>0 DEF Known, DeliveryOf
<1>2. UNCHANGED sidecar => Partial(sidecar)'
  BY <1>1 DEF Owned, Partial, Known, DeliveryOf
<1>3. UNCHANGED registry => Partial(registry)'
  BY <1>1 DEF Owned, Partial, Known, DeliveryOf
<1>4. UNCHANGED <<prepared, evidence, recovery>> => RowsOwn'
  BY <1>1 DEF Owned, RowsOwn, Known, DeliveryOf
<1>5. suspended' \subseteq suspended => OffersOwn'
  BY <1>0 DEF Owned, OffersOwn, DeliveryOf
<1>6. made' = made => WritersOwn'
  BY <1>0 DEF Owned, WritersOwn, Known, DeliveryOf, PathOf
<1> QED
  BY <1>1, <1>2, <1>3, <1>4, <1>5, <1>6

Statuses == {"none", "offered", "active", "paused", "failed", "complete"}

\* A status is written.
LEMMA SetRowTyped ==
    ASSUME Shape, NEW d \in Deliveries, NEW s \in Statuses, SetRow(d, s)
    PROVE  RowsTyped' /\ UNCHANGED <<prepared, evidence>>
BY DEF Shape, TypeOK, RowsTyped, SetRow, Statuses

RecSteps == {"idle", "start", "final", "verified", "both", "publish", "linked",
             "published"}

\* A recovery goes on with its path, or ends.
LEMMA RecAtEffect ==
    ASSUME Shape, NEW d \in Deliveries, NEW s \in RecSteps,
           recovery[d].at # "idle", RecAt(d, s)
    PROVE  /\ recovery' \in [Deliveries -> [at : RecSteps, path : 0..MaxWriters]]
           /\ recovery'[d] = IF s = "idle" THEN Idle
                             ELSE [at |-> s, path |-> recovery[d].path]
           /\ \A e \in Deliveries \ {d} : recovery'[e] = recovery[e]
           /\ \A e \in Deliveries : recovery'[e] # Idle =>
                 recovery[e] # Idle /\ recovery'[e].path = recovery[e].path
<1> USE DEF Shape, RecSteps
<1>1. recovery \in [Deliveries -> [at : RecSteps, path : 0..MaxWriters]]
  BY DEF TypeOK, MemoryTyped
<1>2. recovery[d] \in [at : RecSteps, path : 0..MaxWriters]
  BY <1>1
<1>3. recovery[d] # Idle
  BY DEF Idle
<1>4. Idle \in [at : RecSteps, path : 0..MaxWriters]
  BY Numbers DEF Idle
<1>5. recovery'[d] = IF s = "idle" THEN Idle
                     ELSE [at |-> s, path |-> recovery[d].path]
  BY <1>1, <1>2 DEF RecAt
<1>6. \A e \in Deliveries \ {d} : recovery'[e] = recovery[e]
  BY <1>1 DEF RecAt
<1>7. recovery'[d] \in [at : RecSteps, path : 0..MaxWriters]
  BY <1>2, <1>4, <1>5
<1>8. recovery' \in [Deliveries -> [at : RecSteps, path : 0..MaxWriters]]
  BY <1>1, <1>6, <1>7 DEF RecAt
<1> QED
  BY <1>3, <1>5, <1>6, <1>8

\* Recovery steps keep what belongs to a delivery.
LEMMA RecOwned ==
    ASSUME Shape, UNCHANGED <<made, writer, prepared, evidence>>,
           \A e \in Deliveries : recovery'[e] # Idle =>
               recovery[e] # Idle /\ recovery'[e].path = recovery[e].path
    PROVE  RowsOwn'
BY DEF Shape, Owned, RowsOwn, Known, DeliveryOf

\* Parking leaves a partial of the writer's delivery, or nothing.
LEMMA ParkEffect ==
    ASSUME Shape, NEW w \in 1..made, NEW g \in BOOLEAN, Park(w, g), Grown,
           UNCHANGED made
    PROVE  /\ table' = 0 /\ open' \subseteq open /\ reserved' \subseteq reserved
           /\ held' \in [Deliveries -> {"no", "held", "accepted"}]
           /\ registry' \in Sidecars \cup {None}
           /\ FilesTyped' /\ staged' \subseteq staged /\ UNCHANGED <<chunks, public>>
           /\ Partial(sidecar)' /\ Partial(registry)'
<1> USE DEF Shape
<1> DEFINE sc == [delivery |-> DeliveryOf(w), path |-> PathOf(w),
                  granted |-> g]
<1>0. sc \in Sidecars
  BY Numbers, WriterFacts DEF Sidecars, WriterFields
<1>1. Known(sc.path, sc.delivery) /\ (writer[w].mode = "cdc" => writer[sc.path].mode = "cdc")
  BY DEF Owned, WritersOwn, Known
<1>4. PICK p, e : p = PathOf(w) /\ e = DeliveryOf(w)
  OBVIOUS
<1>5. Known(p, e)' /\ (writer[w].mode = "cdc" => writer'[p].mode = "cdc")
  BY <1>1, <1>4, OwnersStay DEF Known, DeliveryOf, Grown
<1>2. CASE writer[w].mode = "cdc"
  <2>1. sidecar' = sc /\ registry' = sc /\ staged' = staged
    BY <1>2 DEF Park
  <2>2. Partial(sidecar)' /\ Partial(registry)'
    BY <2>1, <1>2, <1>4, <1>5 DEF Partial
  <2> HIDE DEF sc
  <2> QED
    BY <1>0, <2>1, <2>2 DEF Park, TypeOK, MemoryTyped, FilesTyped
<1>3. CASE writer[w].mode # "cdc"
  <2>1. sidecar' = None /\ registry' = registry /\ staged' \subseteq staged
    BY <1>3 DEF Park
  <2>2. Partial(sidecar)' /\ Partial(registry)'
    BY <2>1, OwnersStay DEF Partial
  <2> QED
    BY <2>1, <2>2 DEF Park, TypeOK, MemoryTyped, FilesTyped
<1> QED
  BY <1>2, <1>3

\* Two states of a writer that differ at most in what was asked for.
Alike(V, W) ==
    /\ V \in WriterFields /\ V.delivery = W.delivery /\ V.mode = W.mode
    /\ V.path = W.path /\ V.missing = W.missing /\ V.granted = W.granted
    /\ V.finalizing = W.finalizing

\* What an offer leaves behind, answered or waiting for the swarm.
LEMMA OfferEffect ==
    ASSUME Shape, NEW d \in Deliveries, NEW w \in 1..made', NEW W \in WriterFields,
           W.delivery = d, NEW sc,
           made' = made \/ (made' = made + 1 /\ w = made + 1),
           OfferContinues(w, d, W, sc)
    PROVE  /\ writer' \in [1..made' -> WriterFields]
           /\ \A v \in 1..made : v # w => writer'[v] = writer[v]
           /\ Alike(writer'[w], W)
           /\ writer'[w].wanted => W.wanted \/ W.granted
           /\ \/ suspended' = suspended
              \/ /\ suspended' = suspended \cup
                       {[kind |-> "offer", delivery |-> d, writer |-> w,
                         missing |-> W.missing]}
                 /\ W.granted
           /\ \/ sidecar' = sc
              \/ /\ W.mode = "cdc"
                 /\ sidecar' = [delivery |-> d, path |-> W.path,
                                granted |-> W.granted]
           /\ RowsTyped'
           /\ \A e \in Deliveries : /\ prepared'[e] \in {prepared[e], 0}
                                    /\ evidence'[e] \in {evidence[e], 0}
           /\ held' \in [Deliveries -> {"no", "held", "accepted"}]
           /\ due' \in BOOLEAN
<1> USE Numbers DEF Shape
<1>0. \A v \in 1..made' : v # w => v \in 1..made
  OBVIOUS
<1>a. 1..made \subseteq 1..made'
  OBVIOUS
<1>b. \A v \in 1..made : writer[v] \in WriterFields
  BY DEF TypeOK, TableTyped
<1>1. CASE W.mode = "cdc" /\ W.missing > 0 /\ W.granted /\ Swarm
  <2>1. writer' = [v \in 1..made' |-> IF v = w THEN W ELSE writer[v]]
    BY <1>1 DEF OfferContinues
  <2>2. /\ suspended' = suspended \cup
               {[kind |-> "offer", delivery |-> d, writer |-> w,
                 missing |-> W.missing]}
        /\ sidecar' = sc /\ UNCHANGED <<rowVars, held, due>>
    BY <1>1 DEF OfferContinues
  <2>3. writer' \in [1..made' -> WriterFields]
    BY <2>1, <1>0, <1>b
  <2>4. \A v \in 1..made : v # w => writer'[v] = writer[v]
    BY <2>1, <1>a
  <2>5. writer'[w] = W
    BY <2>1
  <2>6. RowsTyped' /\ held' \in [Deliveries -> {"no", "held", "accepted"}]
        /\ due' \in BOOLEAN
    BY <2>2 DEF TypeOK, MemoryTyped, RowsTyped
  <2> QED
    BY <1>1, <2>2, <2>3, <2>4, <2>5, <2>6 DEF Alike
<1>2. CASE ~(W.mode = "cdc" /\ W.missing > 0 /\ W.granted /\ Swarm)
  <2> DEFINE V == [W EXCEPT !.wanted = @ \/ W.granted]
  <2>1. writer' = [v \in 1..made' |-> IF v = w THEN V ELSE writer[v]]
    BY <1>2 DEF OfferContinues
  <2>2. OfferTail(d, W, W.missing, sc, IF W.granted THEN "ask" ELSE "hold")
        /\ UNCHANGED suspended
    BY <1>2 DEF OfferContinues
  <2>3. Alike(V, W) /\ (V.wanted => W.wanted \/ W.granted)
    BY DEF Alike, WriterFields
  <2>4. V \in WriterFields
    BY <2>3 DEF Alike
  <2> HIDE DEF V
  <2>5. writer' \in [1..made' -> WriterFields]
    BY <2>1, <2>4, <1>0, <1>b
  <2>6. \A v \in 1..made : v # w => writer'[v] = writer[v]
    BY <2>1, <1>a
  <2>7. writer'[w] = V
    BY <2>1
  <2>8. RowsTyped' /\ \A e \in Deliveries : /\ prepared'[e] \in {prepared[e], 0}
                                            /\ evidence'[e] \in {evidence[e], 0}
    BY <2>2 DEF OfferTail, TypeOK, RowsTyped
  <2>9. held' \in [Deliveries -> {"no", "held", "accepted"}] /\ due' \in BOOLEAN
    BY <2>2 DEF OfferTail, TypeOK, MemoryTyped
  <2>10. \/ sidecar' = sc
         \/ /\ W.mode = "cdc"
            /\ sidecar' = [delivery |-> d, path |-> W.path,
                           granted |-> W.granted]
    BY <2>2 DEF OfferTail
  <2> QED
    BY <2>2, <2>3, <2>5, <2>6, <2>7, <2>8, <2>9, <2>10
<1> QED
  BY <1>1, <1>2

\* A writer starts or ends its commit, nothing else about it changes.
LEMMA FinalizingSet ==
    ASSUME Shape, NEW w \in 1..made, NEW b \in BOOLEAN, UNCHANGED made,
           writer' = [writer EXCEPT ![w].finalizing = b]
    PROVE  writer' \in [1..made -> WriterFields] /\ Grown
<1>1. \A v \in 1..made : writer[v] \in WriterFields
  BY DEF Shape, TypeOK, TableTyped
<1>2. writer \in [1..made -> WriterFields]
  BY DEF Shape, TypeOK, TableTyped
<1>3. [writer[w] EXCEPT !.finalizing = b] \in WriterFields
  BY <1>1 DEF WriterFields
<1>4. writer' \in [1..made -> WriterFields]
  BY <1>2, <1>3
<1>5. \A v \in 1..made : v # w => writer'[v] = writer[v]
  BY <1>2
<1>6. writer'[w] = [writer[w] EXCEPT !.finalizing = b]
  BY <1>2
<1>7. /\ writer'[w].delivery = writer[w].delivery
      /\ writer'[w].path = writer[w].path
      /\ writer'[w].mode = writer[w].mode
      /\ writer'[w].granted = writer[w].granted
  BY <1>1, <1>6 DEF WriterFields
<1>8. made' \in Nat /\ made <= made'
  BY Numbers DEF Shape
<1> QED
  BY <1>4, <1>5, <1>7, <1>8 DEF Grown

\* A commit that raised gives up everything it held.
LEMMA FinishFailsEffect ==
    ASSUME Shape, NEW w \in 1..made, FinishFails(w)
    PROVE  /\ table' = 0 /\ open' \subseteq open /\ reserved' \subseteq reserved
           /\ sidecar' \in {sidecar, None}
           /\ FilesTyped' /\ staged' \subseteq staged /\ public' \subseteq public
           /\ RowsTyped' /\ UNCHANGED <<chunks, prepared, evidence>>
           /\ \A d \in Deliveries \ {DeliveryOf(w)} : row'[d] = row[d]
           /\ row'[DeliveryOf(w)] = "failed"
<1>0. DeliveryOf(w) \in Deliveries
  BY WriterFacts
<1>1. SetRow(DeliveryOf(w), "failed")
  BY DEF FinishFails, AbortIncoming
<1>2. RowsTyped' /\ UNCHANGED <<prepared, evidence>>
  BY <1>0, <1>1, SetRowTyped DEF Statuses
<1>3. /\ \A d \in Deliveries \ {DeliveryOf(w)} : row'[d] = row[d]
      /\ row'[DeliveryOf(w)] = "failed"
  BY <1>0, <1>1 DEF SetRow, Shape, TypeOK, RowsTyped
<1>4. /\ table' = 0 /\ open' \subseteq open /\ reserved' \subseteq reserved
      /\ sidecar' \in {sidecar, None} /\ chunks' = chunks
      /\ staged' \subseteq staged /\ public' \subseteq public
  BY DEF FinishFails, AbortIncoming
<1> QED
  BY <1>2, <1>3, <1>4 DEF Shape, TypeOK, FilesTyped

\* Abort keeps the shape.
LEMMA ShapeAbort ==
    ASSUME Shape, Abort, UNCHANGED scenario PROVE Shape'
<1> USE DEF Shape
<1>1. table \in 1..made
  BY Numbers DEF TypeOK, TableTyped, Abort
<1>2. TableTyped'
  BY <1>1, AbortTyped DEF TypeOK, TableTyped, Abort
<1>3. MemoryTyped'
  BY <1>1, AbortTyped DEF TypeOK, MemoryTyped, Abort
<1>4. FilesTyped'
  BY <1>1, AbortTyped DEF Abort
<1>5. RowsTyped'
  BY <1>1, AbortTyped DEF Abort
<1>6. BoundsTyped'
  BY Numbers, WriterFacts DEF TypeOK, BoundsTyped, Abort, AbortIncoming, SetRow, Fault
<1>7. FilesOwn'
  BY Numbers, WriterFacts DEF TypeOK, MemoryTyped, Owned, FilesOwn, Abort, AbortIncoming, SetRow, Fault
<1>8. Partial(sidecar)'
  BY Numbers, WriterFacts DEF TypeOK, TableTyped, Owned, Partial, Known, DeliveryOf, Abort, AbortIncoming, SetRow, Fault
<1>9. Roomy'
  BY Numbers, WriterFacts DEF TypeOK, TableTyped, MemoryTyped, FilesTyped, Roomy, PathOf, Abort, AbortIncoming, SetRow, Fault
<1>10. (WritersOwn /\ RowsOwn /\ OffersOwn /\ Partial(registry))'
  BY DEF Owned, WritersOwn, Known, DeliveryOf, PathOf, RowsOwn, OffersOwn, Partial, Abort, AbortIncoming, SetRow, Fault
<1> QED
  BY <1>2, <1>3, <1>4, <1>5, <1>6, <1>7, <1>8, <1>9, <1>10 DEF TypeOK, Owned

\* Stall keeps the shape.
LEMMA ShapeStall ==
    ASSUME Shape, NEW d \in Deliveries, Stall(d), UNCHANGED scenario PROVE Shape'
<1> USE DEF Shape
<1>1. RowsTyped'
  BY Numbers, WriterFacts DEF TypeOK, RowsTyped, Stall, Fault
<1>2. BoundsTyped'
  BY Numbers, WriterFacts DEF TypeOK, BoundsTyped, Stall, Fault
<1>3. (TableTyped /\ MemoryTyped /\ FilesTyped /\ WritersOwn /\ RowsOwn /\ FilesOwn /\ OffersOwn /\ Partial(sidecar) /\ Partial(registry) /\ Roomy)'
  BY DEF TypeOK, TableTyped, MemoryTyped, FilesTyped, Owned, WritersOwn, Known, DeliveryOf, PathOf, RowsOwn, FilesOwn, OffersOwn, Partial, Roomy, Stall, Fault
<1> QED
  BY <1>1, <1>2, <1>3 DEF TypeOK, Owned

\* Reap keeps the shape.
LEMMA ShapeReap ==
    ASSUME Shape, NEW d \in Deliveries, Reap(d), UNCHANGED scenario PROVE Shape'
<1> USE DEF Shape
<1>1. RowsTyped' /\ UNCHANGED <<prepared, evidence>>
  BY SetRowTyped DEF Reap, Statuses
<1>2. /\ table' = 0 /\ open' \subseteq open /\ reserved' \subseteq reserved
      /\ held' \in [Deliveries -> {"no", "held", "accepted"}]
      /\ registry' \in Sidecars \cup {None}
      /\ FilesTyped' /\ staged' \subseteq staged /\ UNCHANGED <<chunks, public>>
      /\ Partial(sidecar)' /\ Partial(registry)'
  <2>1. CASE table # 0
    <3>1. /\ table \in 1..made /\ Park(table, writer[table].granted)
          /\ UNCHANGED <<made, writer>>
      BY <2>1, Numbers DEF TypeOK, TableTyped, Reap
    <3>2. writer[table].granted \in BOOLEAN /\ Grown
      BY <3>1, Numbers DEF TypeOK, TableTyped, WriterFields, Grown
    <3> QED
      BY <3>1, <3>2, ParkEffect
  <2>2. CASE table = 0
    <3>1. UNCHANGED <<table, open, reserved, held, registry, sidecar, fileVars, made, writer>>
      BY <2>2 DEF Reap
    <3>2. FilesTyped' /\ Partial(sidecar)' /\ Partial(registry)'
      BY <3>1 DEF TypeOK, FilesTyped, Owned, Partial, Known, DeliveryOf
    <3> QED
      BY <2>2, <3>1, <3>2 DEF TypeOK, MemoryTyped
  <2> QED
    BY <2>1, <2>2
<1>3. TableTyped'
  BY <1>2, Numbers DEF TypeOK, TableTyped, Reap
<1>4. MemoryTyped'
  BY <1>2 DEF TypeOK, MemoryTyped, Reap
<1>5. FilesTyped'
  BY <1>2
<1>6. RowsTyped'
  BY <1>1
<1>7. RowsOwn'
  BY <1>1 DEF Owned, RowsOwn, Known, DeliveryOf, Reap
<1>8. FilesOwn'
  BY <1>2 DEF Owned, FilesOwn, Reap
<1>9. Partial(sidecar)'
  BY <1>2
<1>10. Partial(registry)'
  BY <1>2
<1>11. Roomy'
  BY <1>2 DEF Roomy
<1>12. (BoundsTyped /\ WritersOwn /\ OffersOwn)'
  BY DEF TypeOK, BoundsTyped, Owned, WritersOwn, Known, DeliveryOf, PathOf, OffersOwn, Reap
<1> QED
  BY <1>3, <1>4, <1>5, <1>6, <1>7, <1>8, <1>9, <1>10, <1>11, <1>12 DEF TypeOK, Owned

\* OfferReplay keeps the shape.
LEMMA ShapeOfferReplay ==
    ASSUME Shape, NEW d \in Deliveries, OfferReplay(d), UNCHANGED scenario PROVE Shape'
<1> USE DEF Shape
<1>1. BoundsTyped'
  BY Numbers, WriterFacts DEF TypeOK, BoundsTyped, OfferReplay
<1>2. (TableTyped /\ MemoryTyped /\ FilesTyped /\ RowsTyped /\ WritersOwn /\ RowsOwn /\ FilesOwn /\ OffersOwn /\ Partial(sidecar) /\ Partial(registry) /\ Roomy)'
  BY DEF TypeOK, TableTyped, MemoryTyped, FilesTyped, RowsTyped, Owned, WritersOwn, Known, DeliveryOf, PathOf, RowsOwn, FilesOwn, OffersOwn, Partial, Roomy, OfferReplay
<1> QED
  BY <1>1, <1>2 DEF TypeOK, Owned

\* OfferRecover keeps the shape.
LEMMA ShapeOfferRecover ==
    ASSUME Shape, NEW d \in Deliveries, OfferRecover(d), UNCHANGED scenario PROVE Shape'
<1> USE DEF Shape
<1>1. MemoryTyped'
  BY Numbers, WriterFacts DEF TypeOK, MemoryTyped, OfferRecover, RowsTyped
<1>2. RowsOwn'
  BY Numbers, WriterFacts DEF TypeOK, TableTyped, Owned, RowsOwn, Known, DeliveryOf, OfferRecover, RowsTyped, MemoryTyped, Idle
<1>3. (TableTyped /\ FilesTyped /\ RowsTyped /\ BoundsTyped /\ WritersOwn /\ FilesOwn /\ OffersOwn /\ Partial(sidecar) /\ Partial(registry) /\ Roomy)'
  BY DEF TypeOK, TableTyped, FilesTyped, RowsTyped, BoundsTyped, Owned, WritersOwn, Known, DeliveryOf, PathOf, MemoryTyped, FilesOwn, OffersOwn, Partial, Roomy, OfferRecover
<1> QED
  BY <1>1, <1>2, <1>3 DEF TypeOK, Owned

\* OfferRefused keeps the shape.
LEMMA ShapeOfferRefused ==
    ASSUME Shape, NEW d \in Deliveries, NEW m \in Modes, OfferRefused(d,m), UNCHANGED scenario PROVE Shape'
<1> USE Numbers DEF Shape
<1>0. UNCHANGED <<tableVars, task, held, suspended, due, recovery, public,
                  rowVars, wireVars, crashes>> /\ Fault
  BY DEF OfferRefused
<1>1. BoundsTyped'
  BY <1>0 DEF TypeOK, BoundsTyped, Fault
<1>2. \/ /\ registry # None /\ sidecar' = registry /\ UNCHANGED registry
         /\ staged' = staged \cup {registry.path}
         /\ chunks' = [chunks EXCEPT ![registry.path] = OnDisk(registry.path)]
      \/ registry' = None /\ UNCHANGED <<sidecar, staged, chunks>>
  BY DEF OfferRefused, Resumes
<1>3. registry # None => registry.path \in 1..made /\ registry.path \in Writers
  BY DEF Owned, Partial, Known
<1>4. registry # None => OnDisk(registry.path) \in 0..Chunks
  BY <1>3 DEF OnDisk, TypeOK, FilesTyped
<1>5. MemoryTyped'
  <2>1. reserved' \subseteq reserved
    BY DEF OfferRefused
  <2>2. registry' \in Sidecars \cup {None}
    BY <1>2 DEF TypeOK, MemoryTyped
  <2> QED
    BY <1>0, <2>1, <2>2 DEF TypeOK, MemoryTyped
<1>6. FilesTyped'
  <2>1. sidecar' \in Sidecars \cup {None}
    BY <1>2 DEF TypeOK, MemoryTyped, FilesTyped
  <2> QED
    BY <1>0, <1>2, <1>3, <1>4, <2>1 DEF TypeOK, FilesTyped
<1>7. Grown
  BY <1>0 DEF Grown
<1>8. Partial(sidecar)' /\ Partial(registry)'
  BY <1>0, <1>2 DEF Owned, Partial, Known, DeliveryOf
<1>9. FilesOwn'
  BY <1>0, <1>2, <1>3 DEF Owned, FilesOwn
<1>10. WritersOwn' /\ RowsOwn' /\ OffersOwn'
  BY <1>0, <1>7, OwnersStay
<1>11. Roomy'
  <2>1. CASE UNCHANGED chunks
    BY <1>0, <2>1 DEF Roomy, PathOf
  <2>2. CASE /\ registry # None
             /\ chunks' = [chunks EXCEPT ![registry.path] = OnDisk(registry.path)]
    <3>1. \A p \in Writers : chunks'[p] <= chunks[p] /\ chunks'[p] \in Nat /\ chunks[p] \in Nat
      BY <1>3, <2>2 DEF OnDisk, TypeOK, FilesTyped
    <3>2. table # 0 => PathOf(table) \in Writers
      <4>1. table # 0 => table \in 1..made
        BY DEF TypeOK, TableTyped
      <4> QED
        BY <4>1, WriterFacts
    <3> QED
      BY <1>0, <3>1, <3>2 DEF Roomy, PathOf
  <2> QED
    BY <1>2, <2>1, <2>2
<1>12. TableTyped' /\ RowsTyped'
  BY <1>0 DEF TypeOK, TableTyped, RowsTyped
<1> QED
  BY <1>1, <1>5, <1>6, <1>8, <1>9, <1>10, <1>11, <1>12 DEF TypeOK, Owned

\* AcceptMarks keeps the shape.
LEMMA ShapeAcceptMarks ==
    ASSUME Shape, NEW d \in Deliveries, AcceptMarks(d), UNCHANGED scenario PROVE Shape'
<1> USE DEF Shape
<1>1. MemoryTyped'
  BY Numbers, WriterFacts DEF TypeOK, MemoryTyped, AcceptMarks, SetRow
<1>2. RowsTyped'
  BY Numbers, WriterFacts DEF TypeOK, RowsTyped, AcceptMarks, SetRow
<1>3. OffersOwn'
  BY Numbers, WriterFacts DEF TypeOK, TableTyped, Owned, OffersOwn, DeliveryOf, AcceptMarks, SetRow
<1>4. (TableTyped /\ FilesTyped /\ BoundsTyped /\ WritersOwn /\ RowsOwn /\ FilesOwn /\ Partial(sidecar) /\ Partial(registry) /\ Roomy)'
  BY DEF TypeOK, TableTyped, FilesTyped, BoundsTyped, Owned, WritersOwn, Known, DeliveryOf, PathOf, RowsOwn, MemoryTyped, FilesOwn, Partial, Roomy, AcceptMarks, SetRow
<1> QED
  BY <1>1, <1>2, <1>3, <1>4 DEF TypeOK, Owned

\* Decline keeps the shape.
LEMMA ShapeDecline ==
    ASSUME Shape, NEW d \in Deliveries, Decline(d), UNCHANGED scenario PROVE Shape'
<1> USE DEF Shape
<1>1. MemoryTyped'
  BY Numbers, WriterFacts DEF TypeOK, MemoryTyped, Decline, Suspensions
<1>2. OffersOwn'
  BY Numbers, WriterFacts DEF TypeOK, TableTyped, Owned, OffersOwn, DeliveryOf, Decline
<1>3. (TableTyped /\ FilesTyped /\ RowsTyped /\ BoundsTyped /\ WritersOwn /\ RowsOwn /\ FilesOwn /\ Partial(sidecar) /\ Partial(registry) /\ Roomy)'
  BY DEF TypeOK, TableTyped, FilesTyped, RowsTyped, BoundsTyped, Owned, WritersOwn, Known, DeliveryOf, PathOf, RowsOwn, MemoryTyped, FilesOwn, Partial, Roomy, Decline
<1> QED
  BY <1>1, <1>2, <1>3 DEF TypeOK, Owned

\* DeclineAborts keeps the shape.
LEMMA ShapeDeclineAborts ==
    ASSUME Shape, NEW d \in Deliveries, DeclineAborts(d), UNCHANGED scenario PROVE Shape'
<1> USE DEF Shape
<1>1. table' = 0 /\ open' \subseteq open
  BY DEF DeclineAborts
<1>2. TableTyped'
  BY <1>1, Numbers DEF TypeOK, TableTyped, DeclineAborts
<1>3. MemoryTyped'
  BY Numbers, WriterFacts DEF TypeOK, MemoryTyped, DeclineAborts, SetRow
<1>4. FilesTyped'
  BY Numbers, WriterFacts DEF TypeOK, FilesTyped, DeclineAborts, SetRow
<1>5. RowsTyped'
  BY Numbers, WriterFacts DEF TypeOK, RowsTyped, DeclineAborts, SetRow
<1>6. FilesOwn'
  BY Numbers, WriterFacts DEF TypeOK, MemoryTyped, Owned, FilesOwn, DeclineAborts, SetRow
<1>7. OffersOwn'
  BY Numbers, WriterFacts DEF TypeOK, TableTyped, Owned, OffersOwn, DeliveryOf, DeclineAborts, SetRow
<1>8. Partial(sidecar)'
  BY Numbers, WriterFacts DEF TypeOK, TableTyped, Owned, Partial, Known, DeliveryOf, DeclineAborts, SetRow
<1>9. Roomy'
  BY <1>1 DEF Roomy
<1>10. (BoundsTyped /\ WritersOwn /\ RowsOwn /\ Partial(registry))'
  BY DEF TypeOK, BoundsTyped, Owned, WritersOwn, Known, DeliveryOf, PathOf, RowsOwn, Partial, DeclineAborts, SetRow
<1> QED
  BY <1>2, <1>3, <1>4, <1>5, <1>6, <1>7, <1>8, <1>9, <1>10 DEF TypeOK, Owned

\* FinishStart keeps the shape.
LEMMA ShapeFinishStart ==
    ASSUME Shape, FinishStart, UNCHANGED scenario PROVE Shape'
<1> USE DEF Shape
<1>1. writer' \in [1..made -> WriterFields] /\ Grown
  <2>1. CASE UNCHANGED writer
    BY <2>1, Numbers DEF TypeOK, TableTyped, Grown, FinishStart
  <2>2. CASE table # 0 /\ writer' = [writer EXCEPT ![table].finalizing = TRUE]
    <3>1. table \in 1..made /\ UNCHANGED made
      BY <2>2, Numbers DEF TypeOK, TableTyped, FinishStart
    <3> QED
      BY <2>2, <3>1, FinalizingSet
  <2> QED
    BY <2>1, <2>2 DEF FinishStart
<1>2. TableTyped'
  BY <1>1 DEF TypeOK, TableTyped, FinishStart
<1>3. MemoryTyped'
  BY Numbers, WriterFacts DEF TypeOK, MemoryTyped, FinishStart, At, Writers, TaskSteps
<1>4. WritersOwn'
  BY <1>1, OwnersStay DEF FinishStart
<1>5. RowsOwn'
  BY <1>1, OwnersStay DEF FinishStart
<1>6. FilesOwn'
  BY Numbers DEF TypeOK, TableTyped, MemoryTyped, Owned, FilesOwn, FinishStart, At
<1>7. OffersOwn'
  BY <1>1, OwnersStay DEF FinishStart
<1>8. Partial(sidecar)'
  BY <1>1, OwnersStay DEF FinishStart
<1>9. Partial(registry)'
  BY <1>1, OwnersStay DEF FinishStart
<1>10. Roomy'
  BY Numbers, WriterFacts DEF TypeOK, TableTyped, MemoryTyped, FilesTyped, Roomy, PathOf, FinishStart, At
<1>11. (FilesTyped /\ RowsTyped /\ BoundsTyped)'
  BY DEF TypeOK, FilesTyped, RowsTyped, BoundsTyped, FinishStart, At
<1> QED
  BY <1>2, <1>3, <1>4, <1>5, <1>6, <1>7, <1>8, <1>9, <1>10, <1>11 DEF TypeOK, Owned

\* Assemble keeps the shape.
LEMMA ShapeAssemble ==
    ASSUME Shape, NEW w \in 1..made, Assemble(w), UNCHANGED scenario PROVE Shape'
<1> USE DEF Shape
<1>1. TableTyped'
  BY Numbers, WriterFacts DEF TypeOK, TableTyped, Assemble, At, Fault
<1>2. MemoryTyped'
  BY Numbers, WriterFacts DEF TypeOK, MemoryTyped, Assemble, At, Fault, TaskSteps
<1>3. FilesTyped'
  BY Numbers, WriterFacts DEF TypeOK, FilesTyped, Assemble, At, Fault
<1>4. BoundsTyped'
  BY Numbers, WriterFacts DEF TypeOK, BoundsTyped, Assemble, At, Fault
<1>5. FilesOwn'
  BY Numbers, WriterFacts DEF TypeOK, MemoryTyped, Owned, FilesOwn, Assemble, At, Fault
<1>6. Roomy'
  <2>1. SUFFICES ASSUME table # 0, writer[table].mode = "stream",
                        task'[table] = "idle"
                 PROVE  chunks'[PathOf(table)] < Chunks
    BY DEF Roomy, PathOf, Assemble
  <2>2. table \in 1..made
    BY <2>1, Numbers DEF TypeOK, TableTyped
  <2>3. task[table] = "idle" /\ table # w
    BY <2>1, <2>2, Numbers DEF TypeOK, MemoryTyped, TaskSteps, Assemble, At
  <2>4. PathOf(table) = table /\ PathOf(w) # table
    BY <2>1, <2>2, <2>3 DEF Owned, WritersOwn
  <2>5. chunks'[PathOf(table)] = chunks[PathOf(table)]
    BY <2>2, <2>4, Numbers DEF TypeOK, FilesTyped, Assemble
  <2> QED
    BY <2>1, <2>3, <2>5 DEF Roomy
<1>7. (RowsTyped /\ WritersOwn /\ RowsOwn /\ OffersOwn /\ Partial(sidecar) /\ Partial(registry))'
  BY DEF TypeOK, RowsTyped, Owned, WritersOwn, Known, DeliveryOf, PathOf, RowsOwn, OffersOwn, Partial, Assemble, At, Fault
<1> QED
  BY <1>1, <1>2, <1>3, <1>4, <1>5, <1>6, <1>7 DEF TypeOK, Owned

\* CacheMiss keeps the shape.
LEMMA ShapeCacheMiss ==
    ASSUME Shape, NEW w \in 1..made, CacheMiss(w), UNCHANGED scenario PROVE Shape'
<1> USE DEF Shape
<1>1. writer' \in [1..made -> WriterFields] /\ Grown
  <2> DEFINE n == Chunks - chunks[PathOf(w)]
             U == [writer[w] EXCEPT !.finalizing = FALSE]
             V == [U EXCEPT !.missing = n]
  <2>1. n \in 0..Chunks
    BY Numbers, WriterFacts DEF TypeOK, FilesTyped, CacheMiss
  <2>2. writer \in [1..made -> WriterFields] /\ UNCHANGED made
    BY DEF TypeOK, TableTyped, CacheMiss
  <2>3. writer' = [writer EXCEPT ![w] = V]
    BY <2>2 DEF CacheMiss, WriterFields
  <2>4. /\ V \in WriterFields /\ V.delivery = writer[w].delivery
        /\ V.path = writer[w].path /\ V.mode = writer[w].mode
        /\ V.granted = writer[w].granted
    <3>0. writer[w] \in WriterFields
      BY <2>2
    <3>1. /\ U \in WriterFields /\ U.delivery = writer[w].delivery
          /\ U.path = writer[w].path /\ U.mode = writer[w].mode
          /\ U.granted = writer[w].granted
      BY ONLY <3>0 DEF WriterFields
    <3> HIDE DEF U, n
    <3> QED
      BY <2>1, <3>1 DEF WriterFields
  <2> HIDE DEF V
  <2> QED
    BY <2>2, <2>3, <2>4, Numbers DEF Grown
<1>2. TableTyped'
  BY <1>1 DEF TypeOK, TableTyped, CacheMiss
<1>3. MemoryTyped'
  BY Numbers, WriterFacts DEF TypeOK, MemoryTyped, CacheMiss, At, Fault, TaskSteps
<1>4. RowsTyped'
  BY WriterFacts, SetRowTyped DEF CacheMiss, Statuses
<1>5. BoundsTyped'
  BY Numbers, WriterFacts DEF TypeOK, BoundsTyped, CacheMiss, At, Fault
<1>6. WritersOwn'
  BY <1>1, OwnersStay DEF CacheMiss
<1>7. RowsOwn'
  BY <1>1, OwnersStay DEF CacheMiss, SetRow
<1>8. FilesOwn'
  BY Numbers, WriterFacts DEF TypeOK, MemoryTyped, Owned, FilesOwn, CacheMiss, At, Fault
<1>9. OffersOwn'
  BY <1>1, OwnersStay DEF CacheMiss
<1>10. Partial(sidecar)'
  BY <1>1, OwnersStay DEF CacheMiss
<1>11. Partial(registry)'
  BY <1>1, OwnersStay DEF CacheMiss
<1>12. Roomy'
  BY Numbers, WriterFacts DEF TypeOK, TableTyped, MemoryTyped, FilesTyped, Roomy, PathOf, CacheMiss, At, Fault
<1>13. (FilesTyped)'
  BY DEF TypeOK, FilesTyped, CacheMiss, At, Fault
<1> QED
  BY <1>2, <1>3, <1>4, <1>5, <1>6, <1>7, <1>8, <1>9, <1>10, <1>11, <1>12, <1>13 DEF TypeOK, Owned

\* Verify keeps the shape.
LEMMA ShapeVerify ==
    ASSUME Shape, NEW w \in 1..made, Verify(w), UNCHANGED scenario PROVE Shape'
<1> USE DEF Shape
<1>1. MemoryTyped'
  BY Numbers, WriterFacts DEF TypeOK, MemoryTyped, Verify, At, TaskSteps
<1>2. FilesOwn'
  BY Numbers, WriterFacts DEF TypeOK, MemoryTyped, Owned, FilesOwn, Verify, At
<1>3. Roomy'
  BY Numbers, WriterFacts DEF TypeOK, TableTyped, MemoryTyped, FilesTyped, Roomy, PathOf, Verify, At
<1>4. (TableTyped /\ FilesTyped /\ RowsTyped /\ BoundsTyped /\ WritersOwn /\ RowsOwn /\ OffersOwn /\ Partial(sidecar) /\ Partial(registry))'
  BY DEF TypeOK, TableTyped, FilesTyped, RowsTyped, BoundsTyped, Owned, WritersOwn, Known, DeliveryOf, PathOf, RowsOwn, OffersOwn, Partial, Verify, At
<1> QED
  BY <1>1, <1>2, <1>3, <1>4 DEF TypeOK, Owned

\* Prepare keeps the shape.
LEMMA ShapePrepare ==
    ASSUME Shape, NEW w \in 1..made, Prepare(w), UNCHANGED scenario PROVE Shape'
<1> USE DEF Shape
<1>1. DeliveryOf(w) \in Deliveries /\ Known(PathOf(w), DeliveryOf(w)) /\ PathOf(w) \in 0..MaxWriters
  BY Numbers, WriterFacts DEF Known
<1>2. MemoryTyped'
  BY Numbers, WriterFacts DEF TypeOK, MemoryTyped, Prepare, At, Fault, TaskSteps
<1>3. RowsTyped'
  BY <1>1, Numbers DEF TypeOK, RowsTyped, Prepare
<1>4. BoundsTyped'
  BY Numbers, WriterFacts DEF TypeOK, BoundsTyped, Prepare, At, Fault
<1>5. RowsOwn'
  BY <1>1 DEF TypeOK, RowsTyped, Owned, RowsOwn, Known, Prepare, DeliveryOf, PathOf
<1>6. FilesOwn'
  <2>1. UNCHANGED <<staged, public, made>>
    BY DEF Prepare
  <2>2. \A v \in Writers : v # w => task'[v] = task[v]
    BY DEF Prepare, At, TypeOK, MemoryTyped
  <2> QED
    BY <2>1, <2>2 DEF Owned, FilesOwn
<1>7. Roomy'
  BY Numbers, WriterFacts DEF TypeOK, TableTyped, MemoryTyped, FilesTyped, Roomy, PathOf, Prepare, At, Fault
<1>8. (TableTyped /\ FilesTyped /\ WritersOwn /\ OffersOwn /\ Partial(sidecar) /\ Partial(registry))'
  BY DEF TypeOK, TableTyped, FilesTyped, Owned, WritersOwn, Known, DeliveryOf, PathOf, OffersOwn, Partial, Prepare, At, Fault
<1> QED
  BY <1>2, <1>3, <1>4, <1>5, <1>6, <1>7, <1>8 DEF TypeOK, Owned

\* Link keeps the shape.
LEMMA ShapeLink ==
    ASSUME Shape, NEW w \in 1..made, Link(w), UNCHANGED scenario PROVE Shape'
<1> USE DEF Shape
<1>1. MemoryTyped'
  BY Numbers, WriterFacts DEF TypeOK, MemoryTyped, Link, At, TaskSteps
<1>2. FilesTyped'
  BY Numbers, WriterFacts DEF TypeOK, FilesTyped, Link, At
<1>3. FilesOwn'
  BY Numbers, WriterFacts DEF TypeOK, MemoryTyped, Owned, FilesOwn, Link, At
<1>4. Roomy'
  <2>1. UNCHANGED <<tableVars, chunks>>
    BY DEF Link
  <2>2. \A v \in Writers : task'[v] = "idle" => task[v] = "idle"
    <3>1. At(w, "linked") \/ At(w, "failed")
      BY DEF Link
    <3> QED
      BY <3>1 DEF At, TypeOK, MemoryTyped
  <2>3. table # 0 => table \in Writers
    BY Numbers DEF TypeOK, TableTyped
  <2> QED
    BY <2>1, <2>2, <2>3 DEF Roomy, PathOf
<1>5. (TableTyped /\ RowsTyped /\ BoundsTyped /\ WritersOwn /\ RowsOwn /\ OffersOwn /\ Partial(sidecar) /\ Partial(registry))'
  BY DEF TypeOK, TableTyped, RowsTyped, BoundsTyped, Owned, WritersOwn, Known, DeliveryOf, PathOf, RowsOwn, OffersOwn, Partial, Link, At
<1> QED
  BY <1>1, <1>2, <1>3, <1>4, <1>5 DEF TypeOK, Owned

\* Unlink keeps the shape.
LEMMA ShapeUnlink ==
    ASSUME Shape, NEW w \in 1..made, Unlink(w), UNCHANGED scenario PROVE Shape'
<1> USE DEF Shape
<1>1. MemoryTyped'
  BY Numbers, WriterFacts DEF TypeOK, MemoryTyped, Unlink, At, Fault, TaskSteps
<1>2. FilesTyped'
  BY Numbers, WriterFacts DEF TypeOK, FilesTyped, Unlink, At, Fault
<1>3. BoundsTyped'
  BY Numbers, WriterFacts DEF TypeOK, BoundsTyped, Unlink, At, Fault
<1>4. FilesOwn'
  <2>1. staged' \subseteq staged /\ public' \subseteq public /\ made' = made
    BY DEF Unlink
  <2>2. \A v \in Writers : v # w => task'[v] = task[v]
    BY DEF Unlink, At, TypeOK, MemoryTyped
  <2> QED
    BY <2>1, <2>2 DEF Owned, FilesOwn
<1>5. Roomy'
  <2>1. UNCHANGED <<tableVars, chunks>>
    BY DEF Unlink
  <2>2. \A v \in Writers : task'[v] = "idle" => task[v] = "idle"
    <3>1. At(w, "published") \/ At(w, "failed")
      BY DEF Unlink
    <3> QED
      BY <3>1 DEF At, TypeOK, MemoryTyped
  <2>3. table # 0 => table \in Writers
    BY Numbers DEF TypeOK, TableTyped
  <2> QED
    BY <2>1, <2>2, <2>3 DEF Roomy, PathOf
<1>6. (TableTyped /\ RowsTyped /\ WritersOwn /\ RowsOwn /\ OffersOwn /\ Partial(sidecar) /\ Partial(registry))'
  BY DEF TypeOK, TableTyped, RowsTyped, Owned, WritersOwn, Known, DeliveryOf, PathOf, RowsOwn, OffersOwn, Partial, Unlink, At, Fault
<1> QED
  BY <1>1, <1>2, <1>3, <1>4, <1>5, <1>6 DEF TypeOK, Owned

\* Record keeps the shape.
LEMMA ShapeRecord ==
    ASSUME Shape, NEW w \in 1..made, Record(w), UNCHANGED scenario PROVE Shape'
<1> USE DEF Shape
<1>1. writer' \in [1..made -> WriterFields] /\ Grown
  <2>1. CASE UNCHANGED writer
    BY <2>1, Numbers DEF TypeOK, TableTyped, Grown, Record
  <2>2. CASE writer' = [writer EXCEPT ![w].finalizing = FALSE]
    BY <2>2, FinalizingSet DEF Record
  <2> QED
    BY <2>1, <2>2 DEF Record
<1>2. DeliveryOf(w) \in Deliveries /\ Known(PathOf(w), DeliveryOf(w)) /\ PathOf(w) \in 0..MaxWriters
  BY Numbers, WriterFacts DEF Known
<1>3. TableTyped'
  BY <1>1, Numbers DEF TypeOK, TableTyped, Record
<1>4. MemoryTyped'
  BY Numbers, WriterFacts DEF TypeOK, MemoryTyped, Record, Recorded, At, Fault, TaskSteps, DeliveryOf
<1>5. FilesTyped'
  BY Numbers, WriterFacts DEF TypeOK, FilesTyped, Record, Recorded, At, Fault
<1>6. RowsTyped'
  BY Numbers, WriterFacts DEF TypeOK, RowsTyped, Record, Recorded, At, Fault
<1>7. BoundsTyped'
  BY Numbers, WriterFacts DEF TypeOK, BoundsTyped, Record, Recorded, At, Fault
<1>8. WritersOwn'
  BY <1>1, OwnersStay DEF Record
<1>9. RowsOwn'
  <2>1. CASE Recorded(DeliveryOf(w), PathOf(w))
    <3>1. Known(PathOf(w), DeliveryOf(w))'
      BY <1>1, <1>2, OwnersStay DEF Known, DeliveryOf, PathOf, Grown, Record
    <3>2. \A d \in Deliveries :
             /\ prepared'[d] # 0 => prepared'[d] = prepared[d]
             /\ evidence'[d] # 0 => evidence'[d] = evidence[d] \/ (d = DeliveryOf(w) /\ evidence'[d] = PathOf(w))
      BY <2>1 DEF Recorded, TypeOK, RowsTyped
    <3> QED
      BY <1>1, <1>2, <3>2, OwnersStay DEF Owned, RowsOwn, Known, DeliveryOf, Record
  <2>2. CASE UNCHANGED <<prepared, evidence>>
    BY <1>1, <2>2, OwnersStay DEF Record
  <2> QED
    BY <2>1, <2>2 DEF Record
<1>10. FilesOwn'
  BY Numbers, WriterFacts DEF TypeOK, MemoryTyped, Owned, FilesOwn, Record, Recorded, At, Fault
<1>11. OffersOwn'
  BY <1>1, OwnersStay DEF Record
<1>12. Partial(sidecar)'
  BY <1>1, OwnersStay DEF Partial, Record
<1>13. Partial(registry)'
  BY <1>1, OwnersStay DEF Record
<1>14. Roomy'
  BY Numbers, WriterFacts DEF TypeOK, TableTyped, MemoryTyped, FilesTyped, Roomy, PathOf, Record, Recorded, At, Fault
<1> QED
  BY <1>3, <1>4, <1>5, <1>6, <1>7, <1>8, <1>9, <1>10, <1>11, <1>12, <1>13, <1>14 DEF TypeOK, Owned

\* FinishFails keeps the shape.
LEMMA ShapeFinishFails ==
    ASSUME Shape, NEW w \in 1..made, FinishFails(w), UNCHANGED scenario PROVE Shape'
<1> USE DEF Shape
<1>1. writer' \in [1..made -> WriterFields] /\ Grown
  BY FinalizingSet DEF FinishFails
<1>2. TableTyped'
  <2>1. table' = 0 /\ open' \subseteq open /\ UNCHANGED made
    BY FinishFailsEffect DEF FinishFails
  <2> QED
    BY <1>1, <2>1, Numbers DEF TypeOK, TableTyped
<1>3. MemoryTyped'
  BY FinishFailsEffect DEF TypeOK, MemoryTyped, FinishFails, At, TaskSteps
<1>4. FilesTyped'
  BY FinishFailsEffect
<1>5. RowsTyped'
  BY FinishFailsEffect
<1>6. BoundsTyped'
  BY WriterFacts DEF TypeOK, BoundsTyped, FinishFails
<1>7. WritersOwn'
  BY <1>1, OwnersStay DEF FinishFails
<1>8. RowsOwn'
  BY <1>1, OwnersStay, FinishFailsEffect DEF FinishFails
<1>9. FilesOwn'
  BY FinishFailsEffect DEF TypeOK, MemoryTyped, Owned, FilesOwn, FinishFails, At
<1>10. OffersOwn'
  BY <1>1, OwnersStay DEF FinishFails
<1>11. Partial(sidecar)'
  BY <1>1, OwnersStay, FinishFailsEffect DEF Partial
<1>12. Partial(registry)'
  BY <1>1, OwnersStay DEF FinishFails
<1>13. Roomy'
  BY FinishFailsEffect DEF Roomy
<1> QED
  BY <1>2, <1>3, <1>4, <1>5, <1>6, <1>7, <1>8, <1>9, <1>10, <1>11, <1>12, <1>13 DEF TypeOK, Owned

\* RecStart keeps the shape.
LEMMA ShapeRecStart ==
    ASSUME Shape, NEW d \in Deliveries, RecStart(d), UNCHANGED scenario PROVE Shape'
<1> USE DEF Shape
<1>1. recovery[d].at # "idle"
  BY DEF RecStart
<1>2. MemoryTyped'
  BY <1>1, RecAtEffect DEF TypeOK, MemoryTyped, RecSteps, RecStart
<1>3. RowsOwn'
  BY <1>1, RecAtEffect, RecOwned DEF RecStart, RecSteps
<1>4. (TableTyped /\ FilesTyped /\ RowsTyped /\ BoundsTyped /\ WritersOwn /\ FilesOwn /\ OffersOwn /\ Partial(sidecar) /\ Partial(registry) /\ Roomy)'
  BY DEF TypeOK, TableTyped, FilesTyped, RowsTyped, BoundsTyped, Owned, WritersOwn, Known, DeliveryOf, PathOf, MemoryTyped, FilesOwn, OffersOwn, Partial, Roomy, RecStart
<1> QED
  BY <1>2, <1>3, <1>4 DEF TypeOK, Owned

\* RecFinal keeps the shape.
LEMMA ShapeRecFinal ==
    ASSUME Shape, NEW d \in Deliveries, RecFinal(d), UNCHANGED scenario PROVE Shape'
<1> USE DEF Shape
<1>1. recovery[d].at # "idle"
  BY DEF RecFinal
<1>2. MemoryTyped'
  BY <1>1, RecAtEffect DEF TypeOK, MemoryTyped, RecSteps, RecFinal
<1>3. RowsOwn'
  BY <1>1, RecAtEffect, RecOwned DEF RecFinal, RecSteps
<1>4. (TableTyped /\ FilesTyped /\ RowsTyped /\ BoundsTyped /\ WritersOwn /\ FilesOwn /\ OffersOwn /\ Partial(sidecar) /\ Partial(registry) /\ Roomy)'
  BY DEF TypeOK, TableTyped, FilesTyped, RowsTyped, BoundsTyped, Owned, WritersOwn, Known, DeliveryOf, PathOf, MemoryTyped, FilesOwn, OffersOwn, Partial, Roomy, RecFinal
<1> QED
  BY <1>2, <1>3, <1>4 DEF TypeOK, Owned

\* RecBoth keeps the shape.
LEMMA ShapeRecBoth ==
    ASSUME Shape, NEW d \in Deliveries, RecBoth(d), UNCHANGED scenario PROVE Shape'
<1> USE DEF Shape
<1>1. recovery[d].at # "idle"
  BY DEF RecBoth
<1>2. MemoryTyped'
  BY <1>1, RecAtEffect DEF TypeOK, MemoryTyped, RecSteps, RecBoth
<1>3. RowsOwn'
  BY <1>1, RecAtEffect, RecOwned DEF RecBoth, RecSteps
<1>4. (TableTyped /\ FilesTyped /\ RowsTyped /\ BoundsTyped /\ WritersOwn /\ FilesOwn /\ OffersOwn /\ Partial(sidecar) /\ Partial(registry) /\ Roomy)'
  BY DEF TypeOK, TableTyped, FilesTyped, RowsTyped, BoundsTyped, Owned, WritersOwn, Known, DeliveryOf, PathOf, MemoryTyped, FilesOwn, OffersOwn, Partial, Roomy, RecBoth
<1> QED
  BY <1>2, <1>3, <1>4 DEF TypeOK, Owned

\* RecGiveUp keeps the shape.
LEMMA ShapeRecGiveUp ==
    ASSUME Shape, NEW d \in Deliveries, RecGiveUp(d), UNCHANGED scenario PROVE Shape'
<1> USE DEF Shape
<1>1. recovery[d].at # "idle"
  BY DEF RecGiveUp
<1>2. MemoryTyped'
  BY <1>1, RecAtEffect DEF TypeOK, MemoryTyped, RecSteps, RecGiveUp
<1>3. RowsOwn'
  BY <1>1, RecAtEffect, RecOwned DEF RecGiveUp, RecSteps
<1>4. (TableTyped /\ FilesTyped /\ RowsTyped /\ BoundsTyped /\ WritersOwn /\ FilesOwn /\ OffersOwn /\ Partial(sidecar) /\ Partial(registry) /\ Roomy)'
  BY DEF TypeOK, TableTyped, FilesTyped, RowsTyped, BoundsTyped, Owned, WritersOwn, Known, DeliveryOf, PathOf, MemoryTyped, FilesOwn, OffersOwn, Partial, Roomy, RecGiveUp
<1> QED
  BY <1>2, <1>3, <1>4 DEF TypeOK, Owned

\* RecLink keeps the shape.
LEMMA ShapeRecLink ==
    ASSUME Shape, NEW d \in Deliveries, RecLink(d), UNCHANGED scenario PROVE Shape'
<1> USE DEF Shape
<1>1. recovery[d].at # "idle"
  BY DEF RecLink
<1>2. MemoryTyped'
  BY <1>1, RecAtEffect DEF TypeOK, MemoryTyped, RecSteps, RecLink
<1>3. FilesTyped'
  BY Numbers, WriterFacts DEF TypeOK, FilesTyped, RecLink
<1>4. RowsOwn'
  BY <1>1, RecAtEffect, RecOwned DEF RecLink, RecSteps
<1>5. FilesOwn'
  BY Numbers, WriterFacts DEF TypeOK, MemoryTyped, Owned, FilesOwn, RecLink
<1>6. (TableTyped /\ RowsTyped /\ BoundsTyped /\ WritersOwn /\ OffersOwn /\ Partial(sidecar) /\ Partial(registry) /\ Roomy)'
  BY DEF TypeOK, TableTyped, RowsTyped, BoundsTyped, Owned, WritersOwn, Known, DeliveryOf, PathOf, OffersOwn, Partial, MemoryTyped, FilesTyped, Roomy, RecLink
<1> QED
  BY <1>2, <1>3, <1>4, <1>5, <1>6 DEF TypeOK, Owned

\* RecUnlink keeps the shape.
LEMMA ShapeRecUnlink ==
    ASSUME Shape, NEW d \in Deliveries, RecUnlink(d), UNCHANGED scenario PROVE Shape'
<1> USE DEF Shape
<1>1. recovery[d].at # "idle"
  BY DEF RecUnlink
<1>2. MemoryTyped'
  BY <1>1, RecAtEffect DEF TypeOK, MemoryTyped, RecSteps, RecUnlink
<1>3. FilesTyped'
  BY Numbers, WriterFacts DEF TypeOK, FilesTyped, RecUnlink
<1>4. RowsOwn'
  BY <1>1, RecAtEffect, RecOwned DEF RecUnlink, RecSteps
<1>5. FilesOwn'
  BY Numbers, WriterFacts DEF TypeOK, MemoryTyped, Owned, FilesOwn, RecUnlink
<1>6. (TableTyped /\ RowsTyped /\ WritersOwn /\ OffersOwn /\ Partial(sidecar) /\ Partial(registry) /\ Roomy)'
  BY DEF TypeOK, TableTyped, RowsTyped, Owned, WritersOwn, Known, DeliveryOf, PathOf, OffersOwn, Partial, MemoryTyped, FilesTyped, Roomy, RecUnlink
<1>7. BoundsTyped'
  <2>1. Fault \/ UNCHANGED faults
    BY DEF RecUnlink
  <2> QED
    BY <2>1, Numbers DEF RecUnlink, Fault, TypeOK, BoundsTyped
<1> QED
  BY <1>2, <1>3, <1>4, <1>5, <1>6, <1>7 DEF TypeOK, Owned

\* RecRecord keeps the shape.
LEMMA ShapeRecRecord ==
    ASSUME Shape, NEW d \in Deliveries, RecRecord(d), UNCHANGED scenario PROVE Shape'
<1> USE DEF Shape
<1>1. recovery[d].at # "idle"
  BY DEF RecRecord
<1>2. recovery[d].path \in 0..MaxWriters /\ Known(recovery[d].path, d)
  BY <1>1 DEF TypeOK, MemoryTyped, Owned, RowsOwn, Idle
<1>3. MemoryTyped'
  BY <1>1, RecAtEffect DEF TypeOK, MemoryTyped, RecSteps, RecRecord
<1>4. FilesTyped'
  BY Numbers, WriterFacts DEF TypeOK, FilesTyped, RecRecord, Recorded
<1>5. RowsTyped'
  BY <1>2, Numbers DEF TypeOK, RowsTyped, RecRecord, Recorded
<1>6. BoundsTyped'
  BY Numbers, WriterFacts DEF TypeOK, BoundsTyped, RecRecord, Recorded
<1>7. RowsOwn'
  BY <1>1, <1>2, RecAtEffect DEF TypeOK, RowsTyped, Owned, RowsOwn, Known, DeliveryOf, RecRecord, Recorded, RecSteps, Idle
<1>8. FilesOwn'
  BY Numbers, WriterFacts DEF TypeOK, MemoryTyped, Owned, FilesOwn, RecRecord, Recorded
<1>9. (TableTyped /\ WritersOwn /\ OffersOwn /\ Partial(sidecar) /\ Partial(registry) /\ Roomy)'
  BY DEF TypeOK, TableTyped, Owned, WritersOwn, Known, DeliveryOf, PathOf, OffersOwn, Partial, MemoryTyped, FilesTyped, Roomy, RecRecord, Recorded
<1> QED
  BY <1>3, <1>4, <1>5, <1>6, <1>7, <1>8, <1>9 DEF TypeOK, Owned

\* Restart keeps the shape.
LEMMA ShapeRestart ==
    ASSUME Shape, Restart, UNCHANGED scenario PROVE Shape'
<1> USE DEF Shape
<1>1. TableTyped'
  BY Numbers, WriterFacts DEF TypeOK, TableTyped, Restart
<1>2. MemoryTyped'
  <2>1. Idle \in [at : RecSteps, path : 0..MaxWriters]
    BY Numbers DEF Idle, RecSteps
  <2>2. recovery' \in [Deliveries -> [at : RecSteps, path : 0..MaxWriters]]
    BY <2>1 DEF Restart
  <2>3. task' \in [Writers -> TaskSteps]
    BY DEF Restart, TaskSteps
  <2>4. registry' \in Sidecars \cup {None}
    BY DEF Restart, TypeOK, FilesTyped
  <2> QED
    BY <2>2, <2>3, <2>4 DEF MemoryTyped, RecSteps, Restart
<1>3. FilesTyped'
  BY Numbers, WriterFacts DEF TypeOK, FilesTyped, Restart
<1>4. RowsTyped'
  BY Numbers, WriterFacts DEF TypeOK, RowsTyped, Restart
<1>5. BoundsTyped'
  <2>1. UNCHANGED <<consented, borrowed, confirmed, retriable, faults>>
        /\ crashes < scenario.crashes /\ crashes' = crashes + 1
    BY DEF Restart
  <2>2. allowed' \in BOOLEAN
    BY DEF Restart
  <2> QED
    BY <2>1, <2>2, Numbers DEF TypeOK, BoundsTyped
<1>6. RowsOwn'
  BY Numbers, WriterFacts DEF TypeOK, TableTyped, Owned, RowsOwn, Known, DeliveryOf, Restart
<1>7. FilesOwn'
  BY Numbers, WriterFacts DEF TypeOK, MemoryTyped, Owned, FilesOwn, Restart
<1>8. OffersOwn'
  BY Numbers, WriterFacts DEF TypeOK, TableTyped, Owned, OffersOwn, DeliveryOf, Restart
<1>9. Partial(sidecar)'
  BY Numbers, WriterFacts DEF TypeOK, TableTyped, Owned, Partial, Known, DeliveryOf, Restart
<1>10. Partial(registry)'
  BY Numbers, WriterFacts DEF TypeOK, TableTyped, Owned, Partial, Known, DeliveryOf, Restart
<1>11. Roomy'
  BY Numbers, WriterFacts DEF TypeOK, TableTyped, MemoryTyped, FilesTyped, Roomy, PathOf, Restart
<1>12. (WritersOwn)'
  BY DEF Owned, WritersOwn, Known, DeliveryOf, PathOf, Restart
<1> QED
  BY <1>1, <1>2, <1>3, <1>4, <1>5, <1>6, <1>7, <1>8, <1>9, <1>10, <1>11, <1>12 DEF TypeOK, Owned

\* An offer that goes on keeps the shape, with the writer there was or with
\* a new one.
LEMMA ShapeOffer ==
    ASSUME Shape, NEW d \in Deliveries, NEW w \in 1..made', NEW W \in WriterFields,
           W.delivery = d, NEW sc \in {sidecar, None},
           OfferContinues(w, d, W, sc),
           made' = made \/ (made' = made + 1 /\ w = made + 1),
           made' <= MaxWriters,
           w \in 1..made => /\ W.delivery = writer[w].delivery
                            /\ W.path = writer[w].path
                            /\ W.mode = writer[w].mode
                            /\ writer[w].granted => W.granted,
           w \notin 1..made =>
              \/ W.path = w
              \/ W.mode = "cdc" /\ Known(W.path, d) /\ writer[W.path].mode = "cdc",
           table' \in 0..made', open' \subseteq 1..made',
           reserved' \subseteq Deliveries, registry' \in {registry, None},
           staged' \subseteq 1..made', chunks' \in [Writers -> 0..Chunks],
           UNCHANGED <<task, recovery, public>>, BoundsTyped', Roomy'
    PROVE  Shape'
<1> USE Numbers DEF Shape
<1>1. /\ writer' \in [1..made' -> WriterFields]
      /\ \A v \in 1..made : v # w => writer'[v] = writer[v]
      /\ Alike(writer'[w], W)
  BY OfferEffect
<1>2. /\ \/ suspended' = suspended
         \/ /\ suspended' = suspended \cup
                  {[kind |-> "offer", delivery |-> d, writer |-> w,
                    missing |-> W.missing]}
            /\ W.granted
      /\ \/ sidecar' = sc
         \/ /\ W.mode = "cdc"
            /\ sidecar' = [delivery |-> d, path |-> W.path,
                           granted |-> W.granted]
  BY OfferEffect
<1>3. /\ RowsTyped'
      /\ \A e \in Deliveries : /\ prepared'[e] \in {prepared[e], 0}
                               /\ evidence'[e] \in {evidence[e], 0}
      /\ held' \in [Deliveries -> {"no", "held", "accepted"}]
      /\ due' \in BOOLEAN
  BY OfferEffect
<1>4. made' \in 0..MaxWriters /\ made <= made' /\ 1..made \subseteq 1..made'
      /\ 1..made' \subseteq Writers /\ w \in Writers
  BY DEF Writers
<1>5. Grown
  BY <1>1, <1>4 DEF Grown, Alike
<1>6. Known(W.path, d)' /\ writer'[W.path].mode = W.mode
  <2>1. CASE w \in 1..made
    <3>1. Known(writer[w].path, d) /\ writer[writer[w].path].mode = W.mode
      BY <2>1 DEF Owned, WritersOwn, Known, DeliveryOf, PathOf
    <3> QED
      BY <2>1, <3>1, <1>4, <1>5, OwnersStay DEF Known, DeliveryOf, Grown
  <2>2. CASE W.path = w
    BY <2>2, <1>1 DEF Known, DeliveryOf, Alike
  <2>3. CASE W.mode = "cdc" /\ Known(W.path, d) /\ writer[W.path].mode = "cdc"
    BY <2>3, <1>4, <1>5, OwnersStay DEF Known, DeliveryOf, Grown
  <2> QED
    BY <2>1, <2>2, <2>3
<1>7. TableTyped'
  BY <1>1, <1>4 DEF TableTyped
<1>8. FilesTyped'
  <2>1. sidecar' \in Sidecars \cup {None}
    BY <1>2 DEF TypeOK, FilesTyped, Sidecars, WriterFields
  <2> QED
    BY <1>4, <2>1 DEF TypeOK, FilesTyped
<1>9. MemoryTyped'
  <2>1. suspended' \subseteq Suspensions
    BY <1>2, <1>4 DEF TypeOK, MemoryTyped, Suspensions, WriterFields
  <2> QED
    BY <2>1, <1>3 DEF TypeOK, MemoryTyped
<1>10. WritersOwn'
  <2>1. ASSUME NEW v \in 1..made, v # w
        PROVE  (Known(PathOf(v), DeliveryOf(v)) /\ writer[PathOf(v)].mode = writer[v].mode
               /\ (writer[v].mode = "stream" => PathOf(v) = v))'
    <3>1. Known(writer[v].path, writer[v].delivery) /\ writer[writer[v].path].mode = writer[v].mode
          /\ (writer[v].mode = "stream" => writer[v].path = v)
      BY DEF Owned, WritersOwn, Known, DeliveryOf, PathOf
    <3>2. writer'[v] = writer[v]
      BY <1>1, <2>1
    <3> QED
      BY <3>1, <3>2, <1>4, <1>5, OwnersStay DEF Known, DeliveryOf, PathOf, Grown
  <2>2. (Known(PathOf(w), DeliveryOf(w)) /\ writer[PathOf(w)].mode = writer[w].mode)'
    BY <1>1, <1>6 DEF Known, DeliveryOf, PathOf, Alike
  <2>3. writer'[w].mode = "stream" => writer'[w].path = w
    BY <1>1 DEF Owned, WritersOwn, PathOf, Alike
  <2>4. \A v \in 1..made' : v \in 1..made \/ v = w
    OBVIOUS
  <2> QED
    BY <2>1, <2>2, <2>3, <2>4 DEF WritersOwn, PathOf
<1>11. RowsOwn'
  <2>1. \A p, e : Known(p, e) => p \in 1..made' /\ writer'[p].delivery = e
    BY <1>5, OwnersStay
  <2> QED
    BY <1>3, <2>1 DEF Owned, RowsOwn, Known, DeliveryOf
<1>12. FilesOwn'
  BY <1>4 DEF Owned, FilesOwn
<1>13. OffersOwn'
  <2>1. \A s \in suspended :
           /\ s.kind \in {"offer", "assist"} => s.writer \in 1..made'
           /\ s.kind = "offer" => /\ writer'[s.writer].delivery = s.delivery
                                  /\ writer'[s.writer].granted
    BY <1>4, <1>5 DEF Owned, OffersOwn, DeliveryOf, Grown
  <2>2. W.granted => writer'[w].granted /\ writer'[w].delivery = d
    BY <1>1 DEF Alike
  <2> QED
    BY <1>2, <2>1, <2>2 DEF OffersOwn, DeliveryOf
<1>14. Partial(registry)'
  <2>1. registry' # None => UNCHANGED registry
    OBVIOUS
  <2> QED
    BY <2>1, <1>5, OwnersStay DEF Partial
<1>15. Partial(sidecar)'
  <2>1. CASE sidecar' = sc
    <3>1. sidecar' # None => UNCHANGED sidecar
      BY <2>1
    <3> QED
      BY <3>1, <1>5, OwnersStay DEF Partial
  <2>2. CASE W.mode = "cdc" /\ sidecar' = [delivery |-> d, path |-> W.path,
                                           granted |-> W.granted]
    BY <2>2, <1>6 DEF Partial
  <2> QED
    BY <1>2, <2>1, <2>2
<1> QED
  BY <1>3, <1>7, <1>8, <1>9, <1>10, <1>11, <1>12, <1>13, <1>14, <1>15
     DEF TypeOK, Owned

\* A retry finds a writer of its delivery in the table.
LEMMA RetryTable ==
    ASSUME Shape, NEW d \in Deliveries, NEW m \in Modes, Admissible(d),
           InSessionRetry(d, m)
    PROVE  table \in 1..made /\ DeliveryOf(table) = d /\ PathOf(table) \in Writers
<1>1. Admissible(d) /\ InSessionRetry(d, m)
  OBVIOUS
<1>2. table # 0 /\ DeliveryOf(table) = d
  BY <1>1 DEF Admissible, InSessionRetry
<1>3. table \in 1..made
  BY <1>2, Numbers DEF Shape, TypeOK, TableTyped
<1>4. PathOf(table) \in 1..made
  BY <1>3, WriterFacts
<1> QED
  BY <1>2, <1>3, <1>4, Numbers DEF Shape

\* The writer a retry counts again differs in nothing else.
LEMMA RetriedFields ==
    ASSUME Shape, NEW d \in Deliveries, NEW m \in Modes, Admissible(d),
           InSessionRetry(d, m), NEW U \in Retried(m)
    PROVE  /\ U \in WriterFields /\ U.delivery = writer[table].delivery
           /\ U.path = writer[table].path /\ U.mode = writer[table].mode
           /\ U.granted = writer[table].granted /\ U.wanted = writer[table].wanted
           /\ U.finalizing = writer[table].finalizing
<1> USE Numbers DEF Shape
<1>1. table \in 1..made /\ DeliveryOf(table) = d /\ PathOf(table) \in Writers
  BY RetryTable
<1>2. chunks[PathOf(table)] \in 0..Chunks
  BY <1>1 DEF TypeOK, FilesTyped
<1>3. PICK missing \in 0..(Chunks - chunks[PathOf(table)]) :
         U = [writer[table] EXCEPT !.missing = IF m = "cdc" THEN missing ELSE 0]
  BY DEF Retried
<1>4. PICK n : n = IF m = "cdc" THEN missing ELSE 0
  OBVIOUS
<1>5. n \in 0..Chunks
  BY <1>2, <1>4
<1>6. writer[table] \in WriterFields
  BY <1>1, WriterFacts
<1>7. U = [writer[table] EXCEPT !.missing = n]
  BY <1>3, <1>4
<1> QED
  BY ONLY <1>5, <1>6, <1>7 DEF WriterFields

\* With the consent that is in force.
Regranted(U) == [U EXCEPT !.granted = @ \/ Waived]

LEMMA RegrantedFields ==
    ASSUME Shape, NEW d \in Deliveries, NEW m \in Modes, Admissible(d),
           InSessionRetry(d, m), NEW U \in Retried(m)
    PROVE  LET W == Regranted(U) IN
           /\ W \in WriterFields /\ W.delivery = d
           /\ W.delivery = writer[table].delivery
           /\ W.path = writer[table].path /\ W.mode = writer[table].mode
           /\ W.granted = (writer[table].granted \/ Waived)
           /\ writer[table].granted => W.granted
           /\ W.wanted = writer[table].wanted
           /\ W.finalizing = writer[table].finalizing
<1>w. PICK W : W = Regranted(U)
  OBVIOUS
<1>1. /\ U \in WriterFields /\ U.delivery = writer[table].delivery
      /\ U.path = writer[table].path /\ U.mode = writer[table].mode
      /\ U.granted = writer[table].granted /\ U.wanted = writer[table].wanted
      /\ U.finalizing = writer[table].finalizing
  BY RetriedFields
<1>2. DeliveryOf(table) = d
  BY RetryTable
<1>3. PICK b \in BOOLEAN : b = (U.granted \/ Waived)
  BY <1>1 DEF WriterFields
<1>4. W = [U EXCEPT !.granted = b]
  BY <1>3, <1>w DEF Regranted
<1>5. /\ W \in WriterFields /\ W.delivery = U.delivery /\ W.path = U.path
      /\ W.mode = U.mode /\ W.granted = b /\ W.wanted = U.wanted
      /\ W.finalizing = U.finalizing
  BY ONLY <1>1, <1>4 DEF WriterFields
<1> QED
  BY <1>1, <1>2, <1>3, <1>5, <1>w DEF DeliveryOf

\* What is noted of an offer keeps the types.
LEMMA NotedTyped ==
    ASSUME Shape, NEW d \in Deliveries, Noted(d)
    PROVE  /\ consented' \subseteq Deliveries /\ consented \subseteq consented'
           /\ UNCHANGED <<allowed, borrowed>> /\ (allowed => d \in consented')
BY DEF Noted, Shape, TypeOK, BoundsTyped

\* The retry of an offer keeps the shape.
LEMMA ShapeOfferRetry ==
    ASSUME Shape, NEW d \in Deliveries, NEW m \in Modes, OfferRetry(d, m),
           UNCHANGED scenario
    PROVE  Shape'
<1> USE Numbers DEF Shape
<1>0. Admissible(d) /\ InSessionRetry(d, m)
  BY DEF OfferRetry
<1>1. table \in 1..made /\ DeliveryOf(table) = d /\ PathOf(table) \in Writers
  BY <1>0, RetryTable
<1>2. PICK U \in Retried(m) :
         OfferContinues(table, d, [U EXCEPT !.granted = @ \/ Waived], sidecar)
  BY DEF OfferRetry
<1>3. PICK W : W = Regranted(U)
  OBVIOUS
<1>6. /\ W \in WriterFields /\ W.delivery = writer[table].delivery
      /\ W.path = writer[table].path /\ W.mode = writer[table].mode
      /\ writer[table].granted => W.granted
      /\ W.delivery = d
  BY <1>0, <1>3, RegrantedFields
<1>7. OfferContinues(table, d, W, sidecar)
  BY <1>2, <1>3 DEF Regranted
<1>9. UNCHANGED <<made, table, open, task, registry, recovery, staged, public,
                  chunks>>
  BY DEF OfferRetry
<1>10. BoundsTyped'
  <2>1. Noted(d) /\ UNCHANGED <<confirmed, crashes>> /\ NextAttempt(d)
    BY DEF OfferRetry
  <2>2. /\ consented' \subseteq Deliveries /\ UNCHANGED <<allowed, borrowed>>
    BY <2>1, NotedTyped
  <2> QED
    BY <2>1, <2>2 DEF NextAttempt, Fault, TypeOK, BoundsTyped
<1>11. Roomy'
  <2>1. Alike(writer'[table], W)
    BY <1>1, <1>6, <1>7, <1>9, OfferEffect
  <2> QED
    BY <1>6, <1>9, <2>1 DEF Roomy, PathOf, Alike
<1>12. reserved' \subseteq Deliveries
  BY DEF OfferRetry, TypeOK, MemoryTyped
<1>13. /\ table' \in 0..made' /\ open' \subseteq 1..made' /\ made' <= MaxWriters
       /\ staged' \subseteq 1..made' /\ chunks' \in [Writers -> 0..Chunks]
       /\ table \in 1..made'
  BY <1>1, <1>9 DEF TypeOK, TableTyped, FilesTyped, Owned, FilesOwn
<1> QED
  BY <1>1, <1>6, <1>7, <1>9, <1>10, <1>11, <1>12, <1>13, ShapeOffer

\* One writer is replaced by one that differs in state only.
LEMMA WriterPut ==
    ASSUME Shape, NEW w \in 1..made, NEW V \in WriterFields, UNCHANGED made,
           writer' = [writer EXCEPT ![w] = V],
           V.delivery = writer[w].delivery, V.path = writer[w].path,
           V.mode = writer[w].mode, writer[w].granted => V.granted
    PROVE  /\ writer' \in [1..made -> WriterFields] /\ Grown
           /\ writer'[w] = V /\ \A v \in 1..made : v # w => writer'[v] = writer[v]
<1>1. writer \in [1..made -> WriterFields]
  BY DEF Shape, TypeOK, TableTyped
<1>2. writer'[w] = V /\ \A v \in 1..made : v # w => writer'[v] = writer[v]
  BY <1>1
<1>3. writer' \in [1..made -> WriterFields]
  BY <1>1
<1> QED
  BY <1>2, <1>3, Numbers DEF Grown, Shape

\* A refused retry keeps the shape.
LEMMA ShapeRetryRefused ==
    ASSUME Shape, NEW d \in Deliveries, NEW m \in Modes, RetryRefused(d, m),
           UNCHANGED scenario
    PROVE  Shape'
<1> USE Numbers DEF Shape
<1>0. Admissible(d) /\ InSessionRetry(d, m) /\ Fault
  BY DEF RetryRefused
<1>1. table \in 1..made
  BY <1>0, RetryTable
<1>2. PICK U \in Retried(m) : writer' = [writer EXCEPT ![table] = U]
  BY DEF RetryRefused
<1>3. /\ U \in WriterFields /\ U.delivery = writer[table].delivery
      /\ U.path = writer[table].path /\ U.mode = writer[table].mode
      /\ U.granted = writer[table].granted
  BY <1>0, RetriedFields
<1>4. UNCHANGED <<table, made, open, task, reserved, memVars, sidecar,
                  fileVars, rowVars, wireVars, crashes>>
  BY DEF RetryRefused
<1>5. writer' \in [1..made -> WriterFields] /\ Grown
  BY <1>1, <1>2, <1>3, <1>4, WriterPut
<1>6. (TableTyped /\ MemoryTyped /\ FilesTyped /\ RowsTyped /\ FilesOwn)'
  BY <1>4, <1>5 DEF TypeOK, TableTyped, MemoryTyped, FilesTyped, RowsTyped, Owned, FilesOwn
<1>7. BoundsTyped'
  BY <1>0, <1>4 DEF TypeOK, BoundsTyped, Fault
<1>8. (WritersOwn /\ RowsOwn /\ OffersOwn /\ Partial(sidecar) /\ Partial(registry))'
  BY <1>4, <1>5, OwnersStay
<1>9. Roomy'
  BY <1>1, <1>4, <1>5 DEF Roomy, PathOf, Grown
<1> QED
  BY <1>6, <1>7, <1>8, <1>9 DEF TypeOK, Owned

\* A writer that is parked leaves the rest in shape.
LEMMA ShapePark ==
    ASSUME Shape, NEW w \in 1..made, NEW g \in BOOLEAN, Park(w, g), Grown,
           writer' \in [1..made -> WriterFields],
           suspended' \subseteq suspended, BoundsTyped',
           UNCHANGED <<made, task, due, recovery, rowVars>>
    PROVE  Shape'
<1> USE Numbers DEF Shape
<1>1. /\ table' = 0 /\ open' \subseteq open /\ reserved' \subseteq reserved
      /\ held' \in [Deliveries -> {"no", "held", "accepted"}]
      /\ registry' \in Sidecars \cup {None}
      /\ FilesTyped' /\ staged' \subseteq staged /\ UNCHANGED <<chunks, public>>
      /\ Partial(sidecar)' /\ Partial(registry)'
  BY ParkEffect
<1>2. TableTyped'
  BY <1>1 DEF TypeOK, TableTyped
<1>3. MemoryTyped' /\ RowsTyped'
  BY <1>1 DEF TypeOK, MemoryTyped, RowsTyped
<1>4. FilesOwn'
  BY <1>1 DEF Owned, FilesOwn
<1>5. WritersOwn' /\ RowsOwn' /\ OffersOwn'
  BY OwnersStay
<1>6. Roomy'
  BY <1>1 DEF Roomy
<1> QED
  BY <1>1, <1>2, <1>3, <1>4, <1>5, <1>6 DEF TypeOK, Owned

\* So does a retry that cannot be recorded.
LEMMA ShapeRetryUnrecorded ==
    ASSUME Shape, NEW d \in Deliveries, NEW m \in Modes, RetryUnrecorded(d, m),
           UNCHANGED scenario
    PROVE  Shape'
<1> USE Numbers DEF Shape
<1>0. Admissible(d) /\ InSessionRetry(d, m) /\ Fault /\ Noted(d)
  BY DEF RetryUnrecorded
<1>1. table \in 1..made
  BY <1>0, RetryTable
<1>2. PICK U \in Retried(m) :
         writer' = [writer EXCEPT ![table] = [U EXCEPT !.granted = @ \/ Waived]]
  BY DEF RetryUnrecorded
<1>3. PICK W : W = Regranted(U)
  OBVIOUS
<1>4. /\ W \in WriterFields /\ W.delivery = writer[table].delivery
      /\ W.path = writer[table].path /\ W.mode = writer[table].mode
      /\ writer[table].granted => W.granted
  BY <1>0, <1>3, RegrantedFields
<1>5. UNCHANGED <<made, task, suspended, due, recovery, rowVars, confirmed,
                  retriable, crashes>>
  BY DEF RetryUnrecorded
<1>6. writer' \in [1..made -> WriterFields] /\ Grown
  <2>1. writer' = [writer EXCEPT ![table] = W]
    BY <1>2, <1>3 DEF Regranted
  <2> QED
    BY <1>1, <2>1, <1>4, <1>5, WriterPut
<1>7. BoundsTyped'
  <2>1. consented' \subseteq Deliveries /\ UNCHANGED <<allowed, borrowed>>
    BY <1>0, NotedTyped
  <2> QED
    BY <1>0, <1>5, <2>1 DEF Fault, TypeOK, BoundsTyped
<1>8. PICK g \in BOOLEAN : g = (writer[table].granted \/ Waived)
  BY <1>1 DEF TypeOK, TableTyped, WriterFields
<1>9. Park(table, g)
  BY <1>8 DEF RetryUnrecorded
<1> QED
  BY <1>1, <1>5, <1>6, <1>7, <1>9, ShapePark

\* The path of a new writer, and what it may count on.
LEMMA NewPathOwned ==
    ASSUME Shape, NEW d \in Deliveries, NEW m \in Modes, Admissible(d),
           made < MaxWriters
    PROVE  /\ NewPath(m) \in 1..(made + 1) /\ NewPath(m) \in Writers
           /\ NewPath(m) # made + 1 =>
                 /\ m = "cdc" /\ Known(NewPath(m), d)
                 /\ writer[NewPath(m)].mode = "cdc"
           /\ m = "stream" => NewPath(m) = made + 1
           /\ OnDisk(NewPath(m)) \in 0..Chunks /\ OnDisk(made + 1) = 0
           /\ AfterReplace(m) \subseteq 1..made
           /\ KeptSidecar(m) \in {sidecar, None}
           /\ Granted(m) \in BOOLEAN
<1> USE Numbers DEF Shape
<1>1. 1..(made + 1) \subseteq Writers /\ made + 1 \in Writers /\ made + 1 \notin 1..made
  BY DEF Writers
<1>2. /\ NewPath(m) \in 1..(made + 1)
      /\ NewPath(m) # made + 1 =>
            /\ m = "cdc" /\ Known(NewPath(m), d) /\ writer[NewPath(m)].mode = "cdc"
      /\ m = "stream" => NewPath(m) = made + 1
  BY DEF NewPath, Resumes, Admissible, Owned, Partial, Known
<1>3. OnDisk(NewPath(m)) \in 0..Chunks /\ OnDisk(made + 1) = 0
  BY <1>1, <1>2 DEF OnDisk, TypeOK, FilesTyped, Owned, FilesOwn
<1>4. AfterReplace(m) \subseteq 1..made
  BY DEF AfterReplace, Owned, FilesOwn
<1>5. KeptSidecar(m) \in {sidecar, None}
  BY DEF KeptSidecar
<1>6. Granted(m) \in BOOLEAN
  <2>1. registry # None => registry.granted \in BOOLEAN
    BY DEF TypeOK, MemoryTyped, Sidecars
  <2>2. table # 0 => writer[table].granted \in BOOLEAN
    BY DEF TypeOK, TableTyped, WriterFields
  <2> QED
    BY <2>1, <2>2 DEF Granted, Resumes
<1> QED
  BY <1>1, <1>2, <1>3, <1>4, <1>5, <1>6

\* A new writer keeps the shape.
LEMMA ShapeOfferNew ==
    ASSUME Shape, NEW d \in Deliveries, NEW m \in Modes, OfferNew(d, m),
           UNCHANGED scenario
    PROVE  Shape'
<1> USE Numbers DEF Shape
<1>0. Admissible(d) /\ made < MaxWriters /\ made' = made + 1 /\ table' = made + 1
  BY DEF OfferNew
<1>1. /\ NewPath(m) \in 1..(made + 1) /\ NewPath(m) \in Writers
      /\ NewPath(m) # made + 1 =>
            /\ m = "cdc" /\ Known(NewPath(m), d) /\ writer[NewPath(m)].mode = "cdc"
      /\ m = "stream" => NewPath(m) = made + 1
      /\ OnDisk(NewPath(m)) \in 0..Chunks /\ OnDisk(made + 1) = 0
      /\ AfterReplace(m) \subseteq 1..made
      /\ KeptSidecar(m) \in {sidecar, None}
      /\ Granted(m) \in BOOLEAN
  BY <1>0, NewPathOwned
<1>2. PICK missing \in 0..(Chunks - OnDisk(NewPath(m))) :
         OfferContinues(made + 1, d,
             [delivery |-> d, mode |-> m, path |-> NewPath(m),
              missing |-> IF m = "cdc" THEN missing ELSE 0,
              granted |-> Granted(m),
              wanted |-> FALSE, finalizing |-> FALSE], KeptSidecar(m))
  BY DEF OfferNew
<1> DEFINE n == IF m = "cdc" THEN missing ELSE 0
           W == [delivery |-> d, mode |-> m, path |-> NewPath(m), missing |-> n,
                 granted |-> Granted(m), wanted |-> FALSE, finalizing |-> FALSE]
<1>3. n \in 0..Chunks
  BY <1>1
<1>4. /\ W \in WriterFields /\ W.delivery = d /\ W.path = NewPath(m)
      /\ W.mode = m
  <2> HIDE DEF n
  <2> QED
    BY <1>1, <1>3 DEF WriterFields
<1>5. OfferContinues(made + 1, d, W, KeptSidecar(m))
  BY <1>2
<1> HIDE DEF W, n
<1>6. BoundsTyped'
  <2>1. Noted(d) /\ UNCHANGED <<confirmed, crashes>> /\ NextAttempt(d)
    BY DEF OfferNew
  <2>2. consented' \subseteq Deliveries /\ UNCHANGED <<allowed, borrowed>>
    BY <2>1, NotedTyped
  <2> QED
    BY <2>1, <2>2 DEF NextAttempt, Fault, TypeOK, BoundsTyped
<1>7. /\ reserved' \subseteq Deliveries /\ registry' = None
      /\ UNCHANGED <<task, recovery, public>>
  BY DEF OfferNew, TypeOK, MemoryTyped
<1>8. /\ made + 1 \in 1..made' /\ made + 1 \notin 1..made /\ made' <= MaxWriters
      /\ table' \in 0..made' /\ 1..made \subseteq 1..made'
  BY <1>0
<1>9. open' \subseteq 1..made' /\ staged' \subseteq 1..made'
  BY <1>0, <1>1, <1>8 DEF OfferNew, TypeOK, TableTyped
<1>10. chunks' = [chunks EXCEPT ![NewPath(m)] = OnDisk(NewPath(m))]
  BY DEF OfferNew
<1>11. chunks' \in [Writers -> 0..Chunks]
  BY <1>1, <1>10 DEF TypeOK, FilesTyped
<1>12. Roomy'
  <2>1. Alike(writer'[made + 1], W)
    BY <1>0, <1>4, <1>5, <1>8, OfferEffect
  <2>2. m = "stream" => chunks'[made + 1] = 0
    BY <1>1, <1>10 DEF TypeOK, FilesTyped
  <2> QED
    BY <1>0, <1>1, <1>4, <2>1, <2>2 DEF Roomy, PathOf, Alike
<1> QED
  BY <1>0, <1>1, <1>4, <1>5, <1>6, <1>7, <1>8, <1>9, <1>11, <1>12, ShapeOffer

\* A new writer that cannot be recorded keeps the shape.
LEMMA ShapeOfferUnrecorded ==
    ASSUME Shape, NEW d \in Deliveries, NEW m \in Modes, OfferUnrecorded(d, m),
           UNCHANGED scenario
    PROVE  Shape'
<1> USE Numbers DEF Shape
<1>0. /\ Admissible(d) /\ made < MaxWriters /\ made' = made + 1 /\ table' = 0
      /\ made + 1 \in 1..made' /\ made + 1 \notin 1..made /\ 1..made \subseteq 1..made'
      /\ 1..made' \subseteq Writers
  BY DEF OfferUnrecorded, Writers
<1>1. /\ NewPath(m) \in 1..(made + 1) /\ NewPath(m) \in Writers
      /\ NewPath(m) # made + 1 =>
            /\ m = "cdc" /\ Known(NewPath(m), d) /\ writer[NewPath(m)].mode = "cdc"
      /\ m = "stream" => NewPath(m) = made + 1
      /\ OnDisk(NewPath(m)) \in 0..Chunks
      /\ AfterReplace(m) \subseteq 1..made
      /\ Granted(m) \in BOOLEAN
  BY <1>0, NewPathOwned
<1> DEFINE W == [delivery |-> d, mode |-> m, path |-> NewPath(m), missing |-> 0,
                 granted |-> Granted(m), wanted |-> FALSE, finalizing |-> FALSE]
           sc == [delivery |-> d, path |-> NewPath(m), granted |-> Granted(m)]
<1>2. /\ W \in WriterFields /\ W.delivery = d /\ W.path = NewPath(m)
      /\ W.mode = m
  BY <1>1 DEF WriterFields
<1>3. sc \in Sidecars /\ sc.delivery = d /\ sc.path = NewPath(m)
  BY <1>1 DEF Sidecars
<1>4. writer' = [v \in 1..made' |-> IF v \in 1..made THEN writer[v] ELSE W]
  BY DEF OfferUnrecorded
<1>5. \/ /\ m = "cdc" /\ sidecar' = sc /\ registry' = sc
      \/ sidecar' = None /\ registry' = None
  BY DEF OfferUnrecorded
<1> HIDE DEF W, sc
<1>6. /\ writer' \in [1..made' -> WriterFields] /\ writer'[made + 1] = W
      /\ \A v \in 1..made : writer'[v] = writer[v]
  BY <1>0, <1>2, <1>4 DEF TypeOK, TableTyped
<1>7. Grown
  BY <1>0, <1>6 DEF Grown
<1>p. PICK p : p = NewPath(m)
  OBVIOUS
<1>8. p \in 1..made' /\ writer'[p].delivery = d /\ writer'[p].mode = m
  BY <1>0, <1>1, <1>2, <1>6, <1>p DEF Known, DeliveryOf
<1>9. TableTyped'
  <2>1. open' \subseteq open
    BY DEF OfferUnrecorded
  <2> QED
    BY <1>0, <1>6, <2>1 DEF TypeOK, TableTyped
<1>10. FilesTyped'
  BY <1>0, <1>1, <1>3, <1>5 DEF OfferUnrecorded, TypeOK, FilesTyped, Owned, FilesOwn
<1>11. MemoryTyped'
  BY <1>3, <1>5 DEF OfferUnrecorded, TypeOK, MemoryTyped
<1>12. RowsTyped' /\ BoundsTyped'
  <2>1. UNCHANGED <<rowVars, confirmed, retriable, crashes>> /\ Fault /\ Noted(d)
    BY DEF OfferUnrecorded
  <2>2. RowsTyped'
    BY <2>1 DEF TypeOK, RowsTyped
  <2>4. consented' \subseteq Deliveries /\ UNCHANGED <<allowed, borrowed>>
    BY <2>1, NotedTyped
  <2>3. BoundsTyped'
    BY <2>1, <2>4 DEF Fault, TypeOK, BoundsTyped
  <2> QED
    BY <2>2, <2>3
<1>13. WritersOwn'
  <2>1. ASSUME NEW v \in 1..made
        PROVE  (Known(PathOf(v), DeliveryOf(v)) /\ writer[PathOf(v)].mode = writer[v].mode
               /\ (writer[v].mode = "stream" => PathOf(v) = v))'
    <3>1. Known(writer[v].path, writer[v].delivery) /\ writer[writer[v].path].mode = writer[v].mode
          /\ (writer[v].mode = "stream" => writer[v].path = v)
      BY DEF Owned, WritersOwn, Known, DeliveryOf, PathOf
    <3> QED
      BY <3>1, <1>0, <1>6 DEF Known, DeliveryOf, PathOf
  <2>3. \A v \in 1..made' : v \in 1..made \/ v = made + 1
    BY <1>0
  <2>4. LET v == made + 1
        IN  /\ v \in 1..made'
            /\ writer'[v].path \in 1..made'
            /\ writer'[writer'[v].path].delivery = writer'[v].delivery
            /\ writer'[writer'[v].path].mode = writer'[v].mode
            /\ writer'[v].mode = "stream" => writer'[v].path = v
    BY <1>0, <1>1, <1>2, <1>6, <1>8, <1>p
  <2> QED
    BY <2>1, <2>3, <2>4 DEF WritersOwn, PathOf, Known, DeliveryOf
<1>14. RowsOwn' /\ OffersOwn'
  BY <1>7, OwnersStay DEF OfferUnrecorded
<1>15. FilesOwn'
  BY <1>0, <1>1 DEF OfferUnrecorded, Owned, FilesOwn
<1>16. Partial(sidecar)' /\ Partial(registry)'
  BY <1>3, <1>5, <1>8, <1>p DEF Partial, Known, DeliveryOf
<1>17. Roomy'
  BY <1>0 DEF Roomy
<1> QED
  BY <1>9, <1>10, <1>11, <1>12, <1>13, <1>14, <1>15, <1>16, <1>17
     DEF TypeOK, Owned

\* Two states of a writer that differ in progress and marks at most.
Kindred(V, U) ==
    /\ V \in WriterFields /\ V.delivery = U.delivery /\ V.path = U.path
    /\ V.mode = U.mode /\ V.finalizing = U.finalizing

\* One field of a writer is set.
LEMMA MissingSet ==
    ASSUME NEW U \in WriterFields, NEW n \in 0..Chunks
    PROVE  LET V == [U EXCEPT !.missing = n]
           IN  Kindred(V, U) /\ V.granted = U.granted /\ V.wanted = U.wanted
BY DEF WriterFields, Kindred

LEMMA GrantedSet ==
    ASSUME NEW U \in WriterFields
    PROVE  LET V == [U EXCEPT !.granted = TRUE]
           IN  Kindred(V, U) /\ V.granted /\ V.wanted = U.wanted /\ V.missing = U.missing
BY DEF WriterFields, Kindred

LEMMA WantedSet ==
    ASSUME NEW U \in WriterFields
    PROVE  LET V == [U EXCEPT !.wanted = TRUE]
           IN  Kindred(V, U) /\ V.granted = U.granted /\ V.missing = U.missing
BY DEF WriterFields, Kindred

\* Writers that differ from those there are in no more than their progress
\* and the consent they have got.
Handed(W) ==
    /\ W \in [1..made -> WriterFields]
    /\ \A v \in 1..made :
          /\ W[v].delivery = writer[v].delivery /\ W[v].path = writer[v].path
          /\ W[v].mode = writer[v].mode /\ W[v].finalizing = writer[v].finalizing
          /\ W[v].wanted = writer[v].wanted
          /\ writer[v].granted => W[v].granted

\* Consent is noted on the writer of the table, as Accept does.
LEMMA GrantHanded ==
    ASSUME Shape, NEW W,
           W = [v \in 1..made |->
                   IF v = table THEN [writer[v] EXCEPT !.granted = TRUE]
                   ELSE writer[v]]
    PROVE  /\ Handed(W)
           /\ \A v \in 1..made :
                 /\ W[v].granted => writer[v].granted \/ v = table
                 /\ W[v].missing = writer[v].missing
<1> SUFFICES ASSUME NEW v \in 1..made
             PROVE  /\ W[v] \in WriterFields
                    /\ W[v].delivery = writer[v].delivery /\ W[v].path = writer[v].path
                    /\ W[v].mode = writer[v].mode /\ W[v].finalizing = writer[v].finalizing
                    /\ W[v].wanted = writer[v].wanted /\ W[v].missing = writer[v].missing
                    /\ writer[v].granted => W[v].granted
                    /\ W[v].granted => writer[v].granted \/ v = table
  BY DEF Handed
<1>1. writer[v] \in WriterFields
  BY WriterFacts
<1>2. CASE v = table
  <2>1. W[v] = [writer[v] EXCEPT !.granted = TRUE]
    BY <1>2
  <2> QED
    BY <1>1, <1>2, <2>1, GrantedSet DEF Kindred
<1>3. CASE v # table
  BY <1>1, <1>3
<1> QED
  BY <1>2, <1>3

\* A writer's missing chunks are counted again.
LEMMA CountHanded ==
    ASSUME Shape, NEW W, NEW w \in 0..made, NEW n \in 0..Chunks,
           \/ W = [writer EXCEPT ![w].missing = n]
           \/ W = [v \in 1..made |-> IF v = w THEN [writer[v] EXCEPT !.missing = n]
                                     ELSE writer[v]]
    PROVE  /\ Handed(W)
           /\ \A v \in 1..made : W[v].granted = writer[v].granted
           /\ \A v \in 1..made : v # w => W[v] = writer[v]
<1>0. writer \in [1..made -> WriterFields]
  BY DEF Shape, TypeOK, TableTyped
<1>1. /\ W = [v \in 1..made |-> W[v]]
      /\ \A v \in 1..made : W[v] = IF v = w THEN [writer[v] EXCEPT !.missing = n]
                                   ELSE writer[v]
  BY <1>0
<1>2. ASSUME NEW v \in 1..made
      PROVE  /\ W[v] \in WriterFields
             /\ W[v].delivery = writer[v].delivery /\ W[v].path = writer[v].path
             /\ W[v].mode = writer[v].mode /\ W[v].finalizing = writer[v].finalizing
             /\ W[v].wanted = writer[v].wanted /\ W[v].granted = writer[v].granted
  <2>1. writer[v] \in WriterFields
    BY <1>0
  <2>2. CASE v = w
    <3>1. W[v] = [writer[v] EXCEPT !.missing = n]
      BY <1>1, <2>2
    <3> QED
      BY <2>1, <3>1, MissingSet DEF Kindred
  <2>3. CASE v # w
    BY <1>1, <2>1, <2>3
  <2> QED
    BY <2>2, <2>3
<1> QED
  BY <1>1, <1>2 DEF Handed

\* What an answer leaves: what is asked for is received by the table's
\* writer, and nothing else about the writers changes.
LEMMA ReplyEffect ==
    ASSUME Shape, NEW d \in Deliveries, NEW W, Handed(W), NEW rest,
           Reply(d, W, rest), UNCHANGED <<made, table>>
    PROVE  /\ writer' \in [1..made -> WriterFields] /\ Grown
           /\ \A v \in 1..made :
                 /\ writer'[v].granted = W[v].granted
                 /\ writer'[v].finalizing = writer[v].finalizing
                 /\ writer'[v].missing = W[v].missing
                 /\ writer'[v].wanted => writer[v].wanted \/ v = table
           /\ due' \in BOOLEAN /\ (due => due')
<1>0. /\ writer' = [v \in 1..made |->
            IF v = table THEN [W[v] EXCEPT !.wanted = TRUE] ELSE W[v]]
      /\ due' = (due \/ (table # 0 /\ W[table].mode = "cdc"
                                  /\ W[table].missing = 0))
  BY DEF Reply
<1>1. ASSUME NEW v \in 1..made
      PROVE  /\ writer'[v] \in WriterFields
             /\ writer'[v].delivery = W[v].delivery /\ writer'[v].path = W[v].path
             /\ writer'[v].mode = W[v].mode /\ writer'[v].granted = W[v].granted
             /\ writer'[v].finalizing = W[v].finalizing
             /\ writer'[v].missing = W[v].missing
             /\ writer'[v].wanted => W[v].wanted \/ v = table
  <2>1. W[v] \in WriterFields
    BY DEF Handed
  <2>2. CASE v = table
    <3>1. writer'[v] = [W[v] EXCEPT !.wanted = TRUE]
      BY <1>0, <2>2
    <3> QED
      BY <2>1, <2>2, <3>1, WantedSet DEF Kindred
  <2>3. CASE v # table
    BY <1>0, <2>1, <2>3
  <2> QED
    BY <2>2, <2>3
<1>2. writer' \in [1..made -> WriterFields]
  BY <1>0, <1>1
<1>3. Grown
  BY <1>1, Numbers DEF Grown, Handed, Shape
<1>4. due' \in BOOLEAN /\ (due => due')
  BY <1>0 DEF Shape, TypeOK, MemoryTyped
<1> QED
  BY <1>1, <1>2, <1>3, <1>4 DEF Handed

\* The same for the end of an accept, which may find no channel.
LEMMA AnsweredEffect ==
    ASSUME Shape, NEW d \in Deliveries, NEW W, Handed(W), NEW rest, NEW stale,
           stale \subseteq stalled, Answered(d, W, rest, stale),
           UNCHANGED <<made, table, scenario>>
    PROVE  /\ writer' \in [1..made -> WriterFields] /\ Grown
           /\ \A v \in 1..made :
                 /\ writer'[v].granted = W[v].granted
                 /\ writer'[v].finalizing = writer[v].finalizing
                 /\ writer'[v].missing = W[v].missing
                 /\ writer'[v].wanted => writer[v].wanted \/ v = table
           /\ due' \in BOOLEAN /\ (due => due')
           /\ suspended' \subseteq rest \cup {[kind |-> "accept", delivery |-> d]}
           /\ RowsTyped' /\ UNCHANGED <<prepared, evidence>>
           /\ \A e \in Deliveries : row'[e] = row[e] \/ (e = d /\ row'[e] = "paused")
           /\ faults' \in 0..scenario.faults
<1> USE Numbers DEF Shape
<1>1. CASE /\ Reply(d, W, rest) /\ stalled' = stale
           /\ UNCHANGED <<row, prepared, evidence, faults>>
  <2>1. suspended' \subseteq rest \cup {[kind |-> "accept", delivery |-> d]}
    BY <1>1 DEF Reply
  <2>2. RowsTyped' /\ faults' \in 0..scenario.faults
    BY <1>1 DEF TypeOK, RowsTyped, BoundsTyped
  <2> QED
    BY <1>1, <2>1, <2>2, ReplyEffect
<1>2. CASE /\ Fault /\ SetRow(d, "paused") /\ writer' = W /\ suspended' = rest
           /\ UNCHANGED due
  <2>1. RowsTyped' /\ UNCHANGED <<prepared, evidence>>
    BY <1>2, SetRowTyped DEF Statuses, SetRow
  <2>2. faults' \in 0..scenario.faults
    BY <1>2 DEF Fault, TypeOK, BoundsTyped
  <2>3. writer' \in [1..made -> WriterFields] /\ Grown
    BY <1>2 DEF Handed, Grown
  <2>4. \A e \in Deliveries : row'[e] = row[e] \/ (e = d /\ row'[e] = "paused")
    BY <1>2 DEF SetRow, TypeOK, RowsTyped
  <2> QED
    BY <1>2, <2>1, <2>2, <2>3, <2>4 DEF Handed, TypeOK, MemoryTyped
<1> QED
  BY <1>1, <1>2 DEF Answered

\* What is lent goes to deliveries.
LEMMA LentTyped ==
    ASSUME Shape, NEW d, Lends(d)
    PROVE  borrowed' \subseteq Deliveries /\ borrowed \subseteq borrowed'
<1>1. {DeliveryOf(v) : v \in {table} \ {0}} \subseteq Deliveries
  BY WriterFacts, Numbers DEF Shape, TypeOK, TableTyped
<1> QED
  BY <1>1 DEF Lends, Shape, TypeOK, BoundsTyped

\* Steps on consent, which touch writers, prompts and rows only.
LEMMA ShapeConsent ==
    ASSUME Shape, Grown, writer' \in [1..made -> WriterFields], BoundsTyped',
           UNCHANGED <<table, made, open, task, reserved, registry, recovery,
                       fileVars, prepared, evidence>>,
           held' \in [Deliveries -> {"no", "held", "accepted"}], due' \in BOOLEAN,
           RowsTyped', suspended' \subseteq Suspensions,
           \A s \in suspended' : \/ s \in suspended
                                 \/ s.kind \in {"accept", "decline"}
                                 \/ s.kind = "assist" /\ s.writer \in 1..made,
           \/ UNCHANGED sidecar
           \/ /\ table # 0 /\ writer[table].mode = "cdc"
              /\ sidecar' = [delivery |-> DeliveryOf(table),
                             path |-> PathOf(table), granted |-> TRUE]
    PROVE  Shape'
<1> USE Numbers DEF Shape
<1>3. sidecar' \in Sidecars \cup {None} /\ Partial(sidecar)'
  <2>1. CASE UNCHANGED sidecar
    BY <2>1, OwnersStay DEF TypeOK, FilesTyped
  <2>2. CASE /\ table # 0 /\ writer[table].mode = "cdc"
             /\ sidecar' = [delivery |-> DeliveryOf(table),
                            path |-> PathOf(table), granted |-> TRUE]
    <3>1. table \in 1..made
      BY <2>2 DEF TypeOK, TableTyped
    <3>2. /\ DeliveryOf(table) \in Deliveries /\ PathOf(table) \in Writers
          /\ Known(PathOf(table), DeliveryOf(table))
          /\ writer[PathOf(table)].mode = "cdc"
      BY <2>2, <3>1, WriterFacts DEF Owned, WritersOwn
    <3>3. sidecar' \in Sidecars
      BY <2>2, <3>2 DEF Sidecars
    <3>4. PICK p, e : p = PathOf(table) /\ e = DeliveryOf(table)
      OBVIOUS
    <3>5. Known(p, e)' /\ writer'[p].mode = "cdc"
      BY <3>2, <3>4, OwnersStay DEF Known, DeliveryOf, Grown
    <3> QED
      BY <2>2, <3>3, <3>4, <3>5 DEF Partial
  <2> QED
    BY <2>1, <2>2
<1>7. TableTyped' /\ FilesTyped'
  BY <1>3 DEF TypeOK, TableTyped, FilesTyped
<1>8. MemoryTyped'
  BY DEF TypeOK, MemoryTyped
<1>9. OffersOwn'
  BY DEF Owned, OffersOwn, DeliveryOf, Grown
<1>10. WritersOwn' /\ RowsOwn' /\ Partial(registry)'
  BY OwnersStay
<1>11. FilesOwn'
  BY DEF Owned, FilesOwn
<1>12. Roomy'
  BY DEF Roomy, PathOf, Grown, TypeOK, TableTyped
<1> QED
  BY <1>3, <1>7, <1>8, <1>9, <1>10, <1>11, <1>12 DEF TypeOK, Owned

\* The retry of an accepted offer keeps the shape.
LEMMA ShapeOfferAccepted ==
    ASSUME Shape, NEW d \in Deliveries, OfferAccepted(d), UNCHANGED scenario
    PROVE  Shape'
<1> USE DEF Shape
<1>1. /\ UNCHANGED <<table, made, open, task, reserved, held, registry, recovery,
                     sidecar, fileVars, rowVars, allowed, consented, confirmed,
                     retriable, bounds>>
      /\ Reply(d, writer, suspended) /\ Lends(d)
  BY DEF OfferAccepted
<1>2. Handed(writer)
  BY DEF Handed, TypeOK, TableTyped
<1>3. writer' \in [1..made -> WriterFields] /\ Grown /\ due' \in BOOLEAN
  BY <1>1, <1>2, ReplyEffect
<1>4. BoundsTyped'
  BY <1>1, LentTyped DEF TypeOK, BoundsTyped
<1>5. suspended' = suspended \cup {[kind |-> "accept", delivery |-> d]}
  BY <1>1 DEF Reply
<1>6. suspended' \subseteq Suspensions
  BY <1>5 DEF TypeOK, MemoryTyped, Suspensions
<1>7. \A s \in suspended' : s \in suspended \/ s.kind = "accept"
  BY <1>5
<1>8. held' \in [Deliveries -> {"no", "held", "accepted"}] /\ RowsTyped'
  BY <1>1 DEF TypeOK, MemoryTyped, RowsTyped
<1> QED
  BY <1>1, <1>3, <1>4, <1>6, <1>7, <1>8, ShapeConsent

\* What an accept leaves, before or after the swarm is asked. The writers it
\* has marked are those of GrantHanded.
LEMMA AcceptEffect ==
    ASSUME Shape, NEW d \in Deliveries, NEW all \in BOOLEAN, Accept(d, all),
           UNCHANGED scenario
    PROVE  /\ writer' \in [1..made -> WriterFields] /\ Grown
           /\ \A v \in 1..made :
                 /\ writer'[v].granted => writer[v].granted \/ v = table
                 /\ writer'[v].wanted => writer[v].wanted \/ v = table
                 /\ writer'[v].finalizing = writer[v].finalizing
                 /\ writer'[v].missing = writer[v].missing
           /\ due' \in BOOLEAN
           /\ suspended' \subseteq suspended
                 \cup {[kind |-> "accept", delivery |-> d]}
                 \cup {a \in {Assist(d)} : table # 0}
           /\ RowsTyped' /\ UNCHANGED <<prepared, evidence>>
           /\ \A e \in Deliveries : row'[e] = row[e] \/ (e = d /\ row'[e] = "paused")
           /\ faults' \in 0..scenario.faults
<1>0. PICK W : W = [v \in 1..made |->
                       IF v = table THEN [writer[v] EXCEPT !.granted = TRUE]
                       ELSE writer[v]]
  OBVIOUS
<1>1. /\ Handed(W)
      /\ \A v \in 1..made : /\ W[v].granted => writer[v].granted \/ v = table
                            /\ W[v].missing = writer[v].missing
  BY <1>0, GrantHanded
<1>2. UNCHANGED <<made, table>>
  BY DEF Accept
<1>3. CASE /\ table # 0 /\ suspended' = suspended \cup {Assist(d)}
           /\ writer' = W /\ UNCHANGED <<due, rowVars, faults>>
  <2>1. writer' \in [1..made -> WriterFields] /\ Grown
    BY <1>1, <1>2, <1>3, Numbers DEF Handed, Grown, Shape
  <2>2. due' \in BOOLEAN /\ RowsTyped' /\ faults' \in 0..scenario.faults
    BY <1>3 DEF Shape, TypeOK, MemoryTyped, RowsTyped, BoundsTyped
  <2>3. suspended' \subseteq suspended \cup {[kind |-> "accept", delivery |-> d]}
                 \cup {a \in {Assist(d)} : table # 0}
    BY <1>3
  <2> QED
    BY <1>1, <1>3, <2>1, <2>2, <2>3 DEF Handed
<1>4. CASE Answered(d, W, suspended, stalled)
  BY <1>1, <1>2, <1>4, AnsweredEffect
<1> QED
  BY <1>0, <1>3, <1>4 DEF Accept

\* The handler that waits for the swarm's answer to an accept.
LEMMA AssistTyped ==
    ASSUME Shape, NEW d \in Deliveries, table # 0
    PROVE  /\ Assist(d) \in Suspensions /\ Assist(d).kind = "assist"
           /\ Assist(d).writer \in 1..made /\ Assist(d).delivery = d
<1>1. table \in 1..made /\ table \in Writers
  BY Numbers DEF Shape, TypeOK, TableTyped
<1>2. writer[table].missing \in 0..Chunks
  BY <1>1, WriterFacts DEF WriterFields
<1> QED
  BY <1>1, <1>2 DEF Assist, Suspensions

\* Consent to a file keeps the shape.
LEMMA ShapeAccept ==
    ASSUME Shape, NEW d \in Deliveries, NEW all \in BOOLEAN, Accept(d, all),
           UNCHANGED scenario
    PROVE  Shape'
<1> USE DEF Shape
<1>1. /\ UNCHANGED <<table, made, open, task, reserved, registry, recovery,
                     fileVars, confirmed, retriable, crashes>>
      /\ held' = [held EXCEPT ![d] = "accepted"]
      /\ allowed' = (allowed \/ all) /\ consented' = consented \cup {d} /\ Lends(d)
  BY DEF Accept
<1>2. /\ writer' \in [1..made -> WriterFields] /\ Grown /\ due' \in BOOLEAN
      /\ suspended' \subseteq suspended \cup {[kind |-> "accept", delivery |-> d]}
                 \cup {a \in {Assist(d)} : table # 0}
      /\ RowsTyped' /\ UNCHANGED <<prepared, evidence>>
      /\ faults' \in 0..scenario.faults
  BY AcceptEffect
<1>3. BoundsTyped'
  BY <1>1, <1>2, LentTyped DEF TypeOK, BoundsTyped
<1>4. held' \in [Deliveries -> {"no", "held", "accepted"}]
  BY <1>1 DEF TypeOK, MemoryTyped
<1>5. /\ suspended' \subseteq Suspensions
      /\ \A s \in suspended' : \/ s \in suspended
                               \/ s.kind \in {"accept", "decline"}
                               \/ s.kind = "assist" /\ s.writer \in 1..made
  <2>1. suspended \subseteq Suspensions
    BY DEF TypeOK, MemoryTyped
  <2>2. [kind |-> "accept", delivery |-> d] \in Suspensions
    BY DEF Suspensions
  <2>3. PICK a : a = Assist(d)
    OBVIOUS
  <2>4. table # 0 => a \in Suspensions /\ a.kind = "assist" /\ a.writer \in 1..made
    BY <2>3, AssistTyped
  <2> QED
    BY <1>2, <2>1, <2>2, <2>3, <2>4
<1>6. \/ UNCHANGED sidecar
      \/ /\ table # 0 /\ writer[table].mode = "cdc"
         /\ sidecar' = [delivery |-> DeliveryOf(table),
                        path |-> PathOf(table), granted |-> TRUE]
  BY DEF Accept
<1> QED
  BY <1>1, <1>2, <1>3, <1>4, <1>5, <1>6, ShapeConsent

\* What it leaves once the swarm has answered.
LEMMA AcceptResumesEffect ==
    ASSUME Shape, NEW s \in suspended, AcceptResumes(s), UNCHANGED scenario
    PROVE  /\ s.kind = "assist" /\ s.delivery \in Deliveries /\ s.writer \in 1..made
           /\ writer' \in [1..made -> WriterFields] /\ Grown
           /\ \A v \in 1..made :
                 /\ writer'[v].granted = writer[v].granted
                 /\ writer'[v].wanted => writer[v].wanted \/ v = table
                 /\ writer'[v].finalizing = writer[v].finalizing
                 /\ v # s.writer => writer'[v].missing = writer[v].missing
           /\ due' \in BOOLEAN
           /\ suspended' \subseteq
                 (suspended \ {s}) \cup {[kind |-> "accept", delivery |-> s.delivery]}
           /\ RowsTyped' /\ UNCHANGED <<prepared, evidence>>
           /\ \A e \in Deliveries :
                 row'[e] = row[e] \/ (e = s.delivery /\ row'[e] = "paused")
           /\ faults' \in 0..scenario.faults
<1> USE Numbers DEF Shape
<1>1. /\ s.kind = "assist" /\ s.delivery \in Deliveries /\ s.missing \in 0..Chunks
      /\ s.writer \in 1..made
  <2>1. s \in Suspensions /\ s.kind = "assist"
    BY DEF TypeOK, MemoryTyped, AcceptResumes
  <2>2. s \in [kind : {"offer", "assist"}, delivery : Deliveries,
               writer : Writers, missing : 0..Chunks]
    BY <2>1 DEF Suspensions
  <2> QED
    BY <2>1, <2>2 DEF Owned, OffersOwn
<1>2. PICK missing \in 0..s.missing :
          Answered(s.delivery, [writer EXCEPT ![s.writer].missing = missing],
                   suspended \ {s}, stalled \ {s.delivery})
  BY DEF AcceptResumes
<1>3. PICK W : W = [writer EXCEPT ![s.writer].missing = missing]
  OBVIOUS
<1>4. missing \in 0..Chunks /\ s.writer \in 0..made
  BY <1>1
<1>5. /\ Handed(W) /\ \A v \in 1..made : W[v].granted = writer[v].granted
      /\ \A v \in 1..made : v # s.writer => W[v] = writer[v]
  BY <1>3, <1>4, CountHanded
<1>6. UNCHANGED <<made, table>>
  BY DEF AcceptResumes
<1>7. Answered(s.delivery, W, suspended \ {s}, stalled \ {s.delivery})
  BY <1>2, <1>3
<1> HIDE DEF Shape
<1>8. stalled \ {s.delivery} \subseteq stalled
  OBVIOUS
<1> QED
  BY <1>1, <1>5, <1>6, <1>7, <1>8, AnsweredEffect

\* It keeps the shape.
LEMMA ShapeAcceptResumes ==
    ASSUME Shape, NEW s \in suspended, AcceptResumes(s), UNCHANGED scenario
    PROVE  Shape'
<1> USE DEF Shape
<1>1. /\ UNCHANGED <<table, made, open, task, reserved, held, registry, recovery,
                     sidecar, fileVars, allowed, consented, confirmed, retriable,
                     crashes>>
      /\ Lends(s.delivery)
  BY DEF AcceptResumes
<1>2. /\ s.delivery \in Deliveries
      /\ writer' \in [1..made -> WriterFields] /\ Grown /\ due' \in BOOLEAN
      /\ suspended' \subseteq
            (suspended \ {s}) \cup {[kind |-> "accept", delivery |-> s.delivery]}
      /\ RowsTyped' /\ UNCHANGED <<prepared, evidence>>
      /\ faults' \in 0..scenario.faults
  BY AcceptResumesEffect
<1>3. BoundsTyped'
  BY <1>1, <1>2, LentTyped DEF TypeOK, BoundsTyped
<1>4. held' \in [Deliveries -> {"no", "held", "accepted"}]
  BY <1>1 DEF TypeOK, MemoryTyped
<1>5. /\ suspended' \subseteq Suspensions
      /\ \A t \in suspended' : t \in suspended \/ t.kind \in {"accept", "decline"}
  BY <1>2 DEF TypeOK, MemoryTyped, Suspensions
<1> QED
  BY <1>1, <1>2, <1>3, <1>4, <1>5, ShapeConsent

\* Accepting all keeps the shape.
LEMMA ShapeAllowPeer ==
    ASSUME Shape, AllowPeer, UNCHANGED scenario PROVE Shape'
<1> USE DEF Shape
<1>1. UNCHANGED <<tableVars, task, reserved, memVars, sidecar, fileVars,
                  rowVars, consented, borrowed, confirmed, retriable, bounds>>
      /\ allowed' = TRUE
  BY DEF AllowPeer
<1>2. BoundsTyped'
  BY <1>1 DEF TypeOK, BoundsTyped
<1>3. (TableTyped /\ MemoryTyped /\ FilesTyped /\ RowsTyped /\ FilesOwn /\ Roomy)'
  BY <1>1 DEF TypeOK, TableTyped, MemoryTyped, FilesTyped, RowsTyped, Owned, FilesOwn, Roomy, PathOf
<1>4. (WritersOwn /\ RowsOwn /\ OffersOwn /\ Partial(sidecar) /\ Partial(registry))'
  BY <1>1 DEF Owned, WritersOwn, RowsOwn, OffersOwn, Partial, Known, DeliveryOf, PathOf
<1> QED
  BY <1>2, <1>3, <1>4 DEF TypeOK, Owned

\* A resumed offer that cannot be recorded keeps the shape.
LEMMA ShapeResumeUnrecorded ==
    ASSUME Shape, NEW s \in suspended, ResumeUnrecorded(s), UNCHANGED scenario
    PROVE  Shape'
<1> USE Numbers DEF Shape
<1>1. UNCHANGED <<made, task, due, recovery, rowVars, wireVars, crashes>>
      /\ suspended' = suspended \ {s} /\ Fault
  BY DEF ResumeUnrecorded
<1>2. PICK missing \in 0..s.missing :
         writer' = [v \in 1..made |->
             IF v = table THEN [writer[v] EXCEPT !.missing = missing]
             ELSE writer[v]]
  BY DEF ResumeUnrecorded
<1>3. missing \in 0..Chunks
  <2>1. s \in Suspensions /\ s.kind = "offer"
    BY DEF TypeOK, MemoryTyped, ResumeUnrecorded
  <2>2. s \in [kind : {"offer", "assist"}, delivery : Deliveries,
               writer : Writers, missing : 0..Chunks]
    BY <2>1 DEF Suspensions
  <2> QED
    BY <2>2
<1>4. PICK W : W = [v \in 1..made |->
             IF v = table THEN [writer[v] EXCEPT !.missing = missing]
             ELSE writer[v]]
  OBVIOUS
<1>5. table \in 0..made
  BY DEF TypeOK, TableTyped
<1>6. Handed(W)
  BY <1>3, <1>4, <1>5, CountHanded
<1>7. writer' \in [1..made -> WriterFields] /\ Grown
  <2>1. writer' = W
    BY <1>2, <1>4
  <2> QED
    BY <1>1, <1>6, <2>1 DEF Handed, Grown
<1>8. BoundsTyped'
  BY <1>1 DEF Fault, TypeOK, BoundsTyped
<1>9. CASE table # 0
  <2>1. table \in 1..made /\ writer[table].granted \in BOOLEAN
    BY <1>5, <1>9 DEF TypeOK, TableTyped, WriterFields
  <2>2. Park(table, writer[table].granted)
    BY <1>9 DEF ResumeUnrecorded
  <2>3. suspended' \subseteq suspended
    BY <1>1
  <2> QED
    BY <1>1, <1>7, <1>8, <2>1, <2>2, <2>3, ShapePark
<1>10. CASE table = 0
  <2>1. UNCHANGED <<table, open, reserved, held, registry, sidecar, fileVars>>
    BY <1>10 DEF ResumeUnrecorded
  <2>2. (TableTyped /\ MemoryTyped /\ FilesTyped /\ RowsTyped /\ FilesOwn)'
    BY <1>1, <1>7, <2>1 DEF TypeOK, TableTyped, MemoryTyped, FilesTyped, RowsTyped, Owned, FilesOwn
  <2>3. (WritersOwn /\ RowsOwn /\ OffersOwn /\ Partial(sidecar) /\ Partial(registry))'
    BY <1>1, <1>7, <2>1, OwnersStay
  <2>4. Roomy'
    BY <1>10, <2>1 DEF Roomy
  <2> QED
    BY <1>8, <2>2, <2>3, <2>4 DEF TypeOK, Owned
<1> QED
  BY <1>9, <1>10

\* How an offer is answered when the swarm has been asked.
Resumed(s, missing, answer) ==
    /\ OfferTail(s.delivery, writer[s.writer], missing, sidecar, answer)
    /\ writer' = [v \in 1..made |->
          IF v = table
          THEN [writer[v] EXCEPT !.missing = missing,
                                 !.wanted = @ \/ answer = "ask"]
          ELSE writer[v]]
    /\ answer = "ask" => Waived \/ (table # 0 /\ writer[table].granted)
    /\ answer = "hold" => table # 0 /\ ~writer[table].granted

LEMMA ResumesEffect ==
    ASSUME NEW s, OfferResumes(s)
    PROVE  \E missing \in 0..s.missing, answer \in {"ask", "hold", "error"} :
              Resumed(s, missing, answer)
<1>1. PICK answer : answer = CASE Waived -> "ask"
                               [] ~Waived /\ table = 0 -> "error"
                               [] ~Waived /\ table # 0 ->
                                     IF writer[table].granted THEN "ask" ELSE "hold"
  OBVIOUS
<1>2. PICK missing \in 0..s.missing :
              /\ OfferTail(s.delivery, writer[s.writer], missing, sidecar, answer)
              /\ writer' = [v \in 1..made |->
                    IF v = table
                    THEN [writer[v] EXCEPT !.missing = missing,
                                           !.wanted = @ \/ answer = "ask"]
                    ELSE writer[v]]
  BY <1>1 DEF OfferResumes
<1>3. /\ answer \in {"ask", "hold", "error"}
      /\ answer = "ask" => Waived \/ (table # 0 /\ writer[table].granted)
      /\ answer = "hold" => table # 0 /\ ~writer[table].granted
  BY <1>1
<1>4. Resumed(s, missing, answer)
  BY <1>2, <1>3 DEF Resumed
<1> QED
  BY <1>3, <1>4

\* One writer is marked, as accepted or as asked for.
LEMMA WriterMarked ==
    ASSUME Shape, NEW V \in WriterFields, UNCHANGED made,
           writer' = [v \in 1..made |-> IF v = table THEN V ELSE writer[v]],
           table # 0 => /\ V.delivery = writer[table].delivery
                        /\ V.path = writer[table].path
                        /\ V.mode = writer[table].mode
                        /\ writer[table].granted => V.granted
    PROVE  writer' \in [1..made -> WriterFields] /\ Grown
<1>1. \A v \in 1..made : writer[v] \in WriterFields
  BY DEF Shape, TypeOK, TableTyped
<1>2. table \in 1..made => table # 0
  BY Numbers DEF Shape
<1> QED
  BY <1>1, <1>2, Numbers DEF Grown, Shape

\* An offer that goes on after the swarm's answer keeps the shape.
LEMMA ShapeOfferResumes ==
    ASSUME Shape, NEW s \in suspended, OfferResumes(s), UNCHANGED scenario
    PROVE  Shape'
<1> USE Numbers DEF Shape
<1>1. UNCHANGED <<table, made, open, task, reserved, registry, recovery,
                  fileVars, allowed, consented, confirmed, retriable, bounds>>
  BY DEF OfferResumes
<1>2. /\ s.kind = "offer" /\ s.delivery \in Deliveries /\ s.missing \in 0..Chunks
      /\ s.writer \in 1..made /\ DeliveryOf(s.writer) = s.delivery
  <2>1. s \in Suspensions /\ s.kind = "offer"
    BY DEF TypeOK, MemoryTyped, OfferResumes
  <2>2. s \in [kind : {"offer"}, delivery : Deliveries, writer : Writers,
               missing : 0..Chunks]
    BY <2>1 DEF Suspensions
  <2> QED
    BY <2>2 DEF Owned, OffersOwn
<1>3. PICK missing \in 0..s.missing, answer \in {"ask", "hold", "error"} :
          Resumed(s, missing, answer)
  BY ResumesEffect
<1>4. writer' \in [1..made -> WriterFields] /\ Grown
  <2>0. missing \in 0..Chunks
    BY <1>2
  <2>1. CASE table = 0
    <3>1. \A v \in 1..made : v # table
      BY <2>1
    <3>2. writer' = [v \in 1..made |-> writer[v]]
      BY <1>3, <3>1 DEF Resumed
    <3> QED
      BY <1>1, <3>2 DEF TypeOK, TableTyped, Grown
  <2>2. CASE table # 0
    <3>1. writer[table] \in WriterFields
      BY <2>2, WriterFacts DEF TypeOK, TableTyped
    <3>4. PICK b \in BOOLEAN : b = (writer[table].wanted \/ answer = "ask")
      OBVIOUS
    <3> DEFINE V == [[writer[table] EXCEPT !.missing = missing] EXCEPT !.wanted = b]
    <3>2. /\ V \in WriterFields /\ V.delivery = writer[table].delivery
          /\ V.path = writer[table].path /\ V.mode = writer[table].mode
          /\ V.granted = writer[table].granted
      BY ONLY <2>0, <3>1 DEF WriterFields, V
    <3>3. writer' = [v \in 1..made |-> IF v = table THEN V ELSE writer[v]]
      BY <1>3, <3>1, <3>4 DEF Resumed
    <3> HIDE DEF V
    <3> QED
      BY <1>1, <3>2, <3>3, WriterMarked
  <2> QED
    BY <2>1, <2>2
<1>5. PICK W : W = writer[s.writer]
  OBVIOUS
<1>6. /\ W \in WriterFields /\ Known(W.path, s.delivery)
      /\ writer[W.path].mode = W.mode
  BY <1>2, <1>5, WriterFacts DEF Owned, WritersOwn, PathOf, DeliveryOf
<1>7. OfferTail(s.delivery, W, missing, sidecar, answer)
  BY <1>3, <1>5 DEF Resumed
<1>8. /\ RowsTyped'
      /\ \A e \in Deliveries : /\ prepared'[e] \in {prepared[e], 0}
                               /\ evidence'[e] \in {evidence[e], 0}
  BY <1>2, <1>7 DEF OfferTail, TypeOK, RowsTyped
<1>9. held' \in [Deliveries -> {"no", "held", "accepted"}] /\ due' \in BOOLEAN
  BY <1>7 DEF OfferTail, TypeOK, MemoryTyped
<1>10. sidecar' \in Sidecars \cup {None} /\ Partial(sidecar)'
  <2>1. CASE UNCHANGED sidecar
    BY <2>1, <1>4, OwnersStay DEF TypeOK, FilesTyped
  <2>2. CASE /\ W.mode = "cdc"
             /\ sidecar' = [delivery |-> s.delivery, path |-> W.path,
                            granted |-> W.granted]
    <3>1. sidecar' \in Sidecars
      BY <1>2, <1>6, <2>2 DEF Sidecars, WriterFields
    <3>2. W.path \in 1..made' /\ writer'[W.path].delivery = s.delivery
          /\ writer'[W.path].mode = "cdc"
      BY <1>1, <1>4, <1>6, <2>2, OwnersStay DEF Grown, Known
    <3> QED
      BY <2>2, <3>1, <3>2 DEF Partial, Known, DeliveryOf
  <2> QED
    BY <1>7, <2>1, <2>2 DEF OfferTail
<1>11. suspended' \subseteq suspended
  BY DEF OfferResumes
<1>12. BoundsTyped'
  <2>1. {DeliveryOf(v) : v \in {table} \ {0}} \subseteq Deliveries
    BY WriterFacts DEF TypeOK, TableTyped
  <2>2. Lends(s.delivery)
    BY DEF OfferResumes
  <2> QED
    BY <1>1, <2>1, <2>2 DEF Lends, TypeOK, BoundsTyped
<1>13. TableTyped' /\ FilesTyped'
  BY <1>1, <1>4, <1>10 DEF TypeOK, TableTyped, FilesTyped
<1>14. MemoryTyped'
  BY <1>1, <1>9, <1>11 DEF TypeOK, MemoryTyped
<1>15. WritersOwn' /\ OffersOwn' /\ Partial(registry)'
  BY <1>1, <1>4, <1>11, OwnersStay
<1>16. RowsOwn'
  <2>1. \A p, e : Known(p, e) => p \in 1..made' /\ writer'[p].delivery = e
    BY <1>4, OwnersStay
  <2> QED
    BY <1>1, <1>8, <2>1 DEF Owned, RowsOwn, Known, DeliveryOf
<1>17. FilesOwn'
  BY <1>1 DEF Owned, FilesOwn
<1>18. Roomy'
  BY <1>1, <1>4 DEF Roomy, PathOf, Grown, TypeOK, TableTyped
<1> QED
  BY <1>8, <1>10, <1>12, <1>13, <1>14, <1>15, <1>16, <1>17, <1>18 DEF TypeOK, Owned

\* A chunk of a stream keeps the shape.
LEMMA ShapeStreamChunk ==
    ASSUME Shape, Chunk, table \in 1..made, StreamChunk(table), UNCHANGED scenario
    PROVE  Shape'
<1> USE Numbers DEF Shape
<1>1. UNCHANGED <<made, held, suspended, registry, recovery, wireVars, bounds,
                  table, writer, reserved, due, sidecar, staged, public>>
  BY DEF Chunk, StreamChunk
<1>2. /\ PathOf(table) \in Writers /\ DeliveryOf(table) \in Deliveries
      /\ chunks[PathOf(table)] < Chunks /\ table \in Writers
  BY WriterFacts DEF Roomy, StreamChunk
<1>3. RowsTyped' /\ UNCHANGED <<prepared, evidence>>
  BY <1>2, SetRowTyped DEF StreamChunk, Statuses
<1>c. PICK c : c = chunks[PathOf(table)]
  OBVIOUS
<1>d. c \in 0..Chunks /\ c < Chunks
  BY <1>2, <1>c DEF TypeOK, FilesTyped
<1>4. /\ chunks' \in [Writers -> 0..Chunks]
      /\ chunks'[PathOf(table)] = chunks[PathOf(table)] + 1
  <2>1. chunks[PathOf(table)] + 1 \in 0..Chunks
    BY <1>c, <1>d
  <2> QED
    BY <1>2, <2>1 DEF StreamChunk, TypeOK, FilesTyped
<1>5. /\ open' \subseteq open
      /\ \/ task' = task /\ chunks[PathOf(table)] + 1 # Chunks
         \/ task' = [task EXCEPT ![table] = "verify"]
  BY DEF StreamChunk
<1>6. TableTyped' /\ FilesTyped' /\ BoundsTyped'
  BY <1>1, <1>4, <1>5 DEF TypeOK, TableTyped, FilesTyped, BoundsTyped
<1>7. MemoryTyped'
  BY <1>1, <1>5 DEF TypeOK, MemoryTyped, TaskSteps
<1>8. WritersOwn' /\ RowsOwn' /\ OffersOwn' /\ Partial(sidecar)' /\ Partial(registry)'
  BY <1>1, <1>3 DEF Owned, WritersOwn, RowsOwn, OffersOwn, Partial, Known, DeliveryOf,
                    PathOf
<1>9. FilesOwn'
  BY <1>1, <1>2, <1>5 DEF TypeOK, MemoryTyped, Owned, FilesOwn
<1>10. Roomy'
  <2>1. CASE task' = task /\ chunks[PathOf(table)] + 1 # Chunks
    <3>1. chunks'[PathOf(table)] < Chunks
      BY <1>4, <1>c, <1>d, <2>1
    <3> QED
      BY <1>1, <3>1 DEF Roomy, PathOf
  <2>2. CASE task' = [task EXCEPT ![table] = "verify"]
    BY <1>1, <1>2, <2>2 DEF Roomy, TypeOK, MemoryTyped
  <2> QED
    BY <1>5, <2>1, <2>2
<1> QED
  BY <1>3, <1>6, <1>7, <1>8, <1>9, <1>10 DEF TypeOK, Owned

\* A chunk of a chunked file keeps the shape.
LEMMA ShapeCdcChunk ==
    ASSUME Shape, Chunk, table \in 1..made, CdcChunk(table), UNCHANGED scenario
    PROVE  Shape'
<1> USE Numbers DEF Shape
<1>1. UNCHANGED <<made, held, suspended, registry, recovery, wireVars, bounds>>
  BY DEF Chunk
<1>2. /\ PathOf(table) \in Writers /\ DeliveryOf(table) \in Deliveries
      /\ table \in Writers /\ writer[table] \in WriterFields
  BY WriterFacts
<1>3. CASE table \notin open
  <2>1. AbortIncoming(table, "failed") /\ UNCHANGED <<task, writer, due>>
    BY <1>3 DEF CdcChunk
  <2>2. /\ table' = 0 /\ open' \subseteq 1..made
        /\ reserved' \subseteq Deliveries /\ sidecar' = None
        /\ staged' \subseteq staged /\ public' \subseteq public
        /\ chunks' = chunks /\ RowsTyped' /\ FilesTyped'
    BY <2>1, AbortTyped
  <2>3. UNCHANGED <<prepared, evidence>>
    BY <2>1 DEF AbortIncoming, SetRow
  <2>4. TableTyped' /\ MemoryTyped' /\ BoundsTyped'
    BY <1>1, <2>1, <2>2 DEF TypeOK, TableTyped, MemoryTyped, BoundsTyped
  <2>5. WritersOwn' /\ RowsOwn' /\ OffersOwn' /\ Partial(sidecar)' /\ Partial(registry)'
    BY <1>1, <2>1, <2>2, <2>3 DEF Owned, WritersOwn, RowsOwn, OffersOwn, Partial, Known,
                      DeliveryOf, PathOf
  <2>6. FilesOwn' /\ Roomy'
    BY <1>1, <2>1, <2>2 DEF Owned, FilesOwn, Roomy
  <2> QED
    BY <2>2, <2>4, <2>5, <2>6 DEF TypeOK, Owned
<1>4. CASE table \in open
  <2>0. /\ writer[table].missing > 0
        /\ writer' = [writer EXCEPT ![table].missing = @ - 1]
        /\ chunks' = [chunks EXCEPT ![PathOf(table)] =
                         IF @ < Chunks THEN @ + 1 ELSE @]
        /\ UNCHANGED <<table, open, task, reserved, sidecar, staged, public>>
    BY <1>4 DEF CdcChunk
  <2>1. writer' \in [1..made -> WriterFields] /\ Grown
    <3> DEFINE n == writer[table].missing - 1
               V == [writer[table] EXCEPT !.missing = n]
    <3>1. n \in 0..Chunks
      BY <1>2, <2>0 DEF WriterFields
    <3>2. writer \in [1..made -> WriterFields]
      BY DEF TypeOK, TableTyped
    <3>3. writer' = [writer EXCEPT ![table] = V]
      BY <2>0, <3>2
    <3>4. /\ V \in WriterFields /\ V.delivery = writer[table].delivery
          /\ V.path = writer[table].path /\ V.mode = writer[table].mode
          /\ V.granted = writer[table].granted
      <4> HIDE DEF n
      <4> QED
        BY ONLY <1>2, <3>1 DEF WriterFields, V
    <3> HIDE DEF V
    <3> QED
      BY <1>1, <3>2, <3>3, <3>4 DEF Grown
  <2>2. chunks' \in [Writers -> 0..Chunks]
    BY <1>2, <2>0 DEF TypeOK, FilesTyped
  <2>3. \/ UNCHANGED <<due, rowVars>>
        \/ /\ due' = TRUE
           /\ row' = [row EXCEPT ![DeliveryOf(table)] = "active"]
           /\ prepared' = [prepared EXCEPT ![DeliveryOf(table)] = 0]
           /\ evidence' = [evidence EXCEPT ![DeliveryOf(table)] = 0]
           /\ stalled' = stalled \ {DeliveryOf(table)}
    BY <1>4 DEF CdcChunk
  <2>4. /\ RowsTyped' /\ due' \in BOOLEAN
        /\ \A e \in Deliveries : /\ prepared'[e] \in {prepared[e], 0}
                                 /\ evidence'[e] \in {evidence[e], 0}
    <3>1. CASE UNCHANGED <<due, rowVars>>
      BY <3>1 DEF TypeOK, MemoryTyped, RowsTyped
    <3>2. PICK d \in Deliveries : d = DeliveryOf(table)
      BY <1>2
    <3>3. CASE /\ due' = TRUE
               /\ row' = [row EXCEPT ![d] = "active"]
               /\ prepared' = [prepared EXCEPT ![d] = 0]
               /\ evidence' = [evidence EXCEPT ![d] = 0]
               /\ stalled' = stalled \ {d}
      BY <3>3 DEF TypeOK, RowsTyped
    <3> QED
      BY <2>3, <3>1, <3>2, <3>3
  <2>5. TableTyped' /\ FilesTyped' /\ BoundsTyped'
    BY <1>1, <2>0, <2>1, <2>2 DEF TypeOK, TableTyped, FilesTyped, BoundsTyped
  <2>6. MemoryTyped'
    BY <1>1, <2>0, <2>4 DEF TypeOK, MemoryTyped
  <2>7. WritersOwn' /\ OffersOwn' /\ Partial(registry)' /\ Partial(sidecar)'
    BY <1>1, <2>0, <2>1, OwnersStay
  <2>8. RowsOwn'
    <3>1. \A p, e : Known(p, e) => p \in 1..made' /\ writer'[p].delivery = e
      BY <2>1, OwnersStay
    <3> QED
      BY <1>1, <2>4, <3>1 DEF Owned, RowsOwn, Known, DeliveryOf
  <2>9. FilesOwn'
    BY <1>1, <2>0 DEF Owned, FilesOwn
  <2>10. Roomy'
    <3>1. writer'[table].mode = "cdc"
      BY <2>1 DEF Grown, CdcChunk
    <3> QED
      BY <2>0, <3>1 DEF Roomy
  <2> QED
    BY <2>4, <2>5, <2>6, <2>7, <2>8, <2>9, <2>10 DEF TypeOK, Owned
<1> QED
  BY <1>3, <1>4

\* Every step keeps the shape.
LEMMA ShapeStep ==
    ASSUME Shape, [Next]_vars
    PROVE  Shape'
<1>1. CASE UNCHANGED vars
  BY <1>1 DEF vars, Shape, TypeOK, TableTyped, MemoryTyped, FilesTyped, RowsTyped,
              BoundsTyped, Owned, WritersOwn, RowsOwn, FilesOwn, OffersOwn, Partial,
              Known, Roomy, DeliveryOf, PathOf
<1>2. CASE Next
  <2>0. UNCHANGED scenario
    BY <1>2 DEF Next
  <2>1. CASE Abort \/ FinishStart \/ Restart \/ AllowPeer
    BY <2>0, <2>1, ShapeAbort, ShapeFinishStart, ShapeRestart, ShapeAllowPeer
  <2>2. CASE Chunk
    <3>1. table \in 1..made /\ (StreamChunk(table) \/ CdcChunk(table))
      BY <2>2, Numbers DEF Chunk, Shape, TypeOK, TableTyped
    <3> QED
      BY <2>0, <2>2, <3>1, ShapeStreamChunk, ShapeCdcChunk
  <2>3. ASSUME NEW d \in scenario.offered,
               Stall(d) \/ Reap(d) \/ Offer(d) \/ Consent(d) \/ Recover(d)
        PROVE  Shape'
    <3>0. d \in Deliveries
      BY Numbers DEF Shape
    <3>1. CASE Stall(d) \/ Reap(d)
      BY <2>0, <3>0, <3>1, ShapeStall, ShapeReap
    <3>2. CASE Offer(d)
      <4>1. CASE OfferReplay(d) \/ OfferRecover(d) \/ OfferAccepted(d)
        BY <2>0, <3>0, <4>1, ShapeOfferReplay, ShapeOfferRecover, ShapeOfferAccepted
      <4>2. ASSUME NEW m \in Modes,
                   \/ OfferRetry(d, m) \/ OfferNew(d, m)
                   \/ RetryRefused(d, m) \/ OfferRefused(d, m)
                   \/ RetryUnrecorded(d, m) \/ OfferUnrecorded(d, m)
            PROVE  Shape'
        BY <2>0, <3>0, <4>2, ShapeOfferRetry, ShapeOfferNew, ShapeOfferRefused,
           ShapeRetryRefused, ShapeRetryUnrecorded, ShapeOfferUnrecorded
      <4>3. ASSUME NEW s \in suspended, OfferResumes(s) \/ ResumeUnrecorded(s)
            PROVE  Shape'
        BY <2>0, <4>3, ShapeOfferResumes, ShapeResumeUnrecorded
      <4> QED
        BY <3>2, <4>1, <4>2, <4>3 DEF Offer
    <3>3. CASE Consent(d)
      BY <2>0, <3>0, <3>3, ShapeAccept, ShapeAcceptResumes, ShapeAcceptMarks,
         ShapeDecline, ShapeDeclineAborts DEF Consent
    <3>4. CASE Recover(d)
      BY <2>0, <3>0, <3>4, ShapeRecStart, ShapeRecFinal, ShapeRecBoth, ShapeRecLink,
         ShapeRecUnlink, ShapeRecGiveUp, ShapeRecRecord DEF Recover
    <3> QED
      BY <2>3, <3>1, <3>2, <3>3, <3>4
  <2>4. ASSUME NEW w \in 1..made, Commit(w) PROVE Shape'
    BY <2>0, <2>4, ShapeAssemble, ShapeCacheMiss, ShapeVerify, ShapePrepare, ShapeLink,
       ShapeUnlink, ShapeRecord, ShapeFinishFails DEF Commit
  <2> QED
    BY <1>2, <2>1, <2>2, <2>3, <2>4 DEF Next
<1> QED
  BY <1>1, <1>2

\* The initial states have the shape.
LEMMA ShapeInit ==
    ASSUME Init PROVE Shape
<1>0. /\ Chunks \in Nat \ {0} /\ MaxWriters \in Nat \ {0}
      /\ scenario.faults \in Nat /\ scenario.crashes \in Nat
  BY FileReceiveAssumption DEF Init
<1>1. TableTyped
  BY <1>0 DEF Init, TableTyped
<1>2. MemoryTyped
  <2>1. Idle \in [at : RecSteps, path : 0..MaxWriters]
    BY <1>0 DEF Idle, RecSteps
  <2>2. recovery \in [Deliveries -> [at : RecSteps, path : 0..MaxWriters]]
    BY <2>1 DEF Init
  <2> QED
    BY <2>2 DEF Init, MemoryTyped, TaskSteps, RecSteps
<1>3. FilesTyped /\ RowsTyped /\ BoundsTyped
  <2>1. allowed \in BOOLEAN
    BY DEF Init
  <2>2. FilesTyped /\ RowsTyped
    BY <1>0 DEF Init, FilesTyped, RowsTyped
  <2> QED
    BY <1>0, <2>1, <2>2 DEF Init, BoundsTyped
<1>4. Owned /\ Roomy
  BY <1>0 DEF Init, Owned, WritersOwn, RowsOwn, FilesOwn, OffersOwn, Partial, Roomy
<1> QED
  BY <1>1, <1>2, <1>3, <1>4 DEF Shape, TypeOK

\* The receiver's tables, files and rows stay well formed, and none of them
\* ever speaks of a path of another delivery: what is parked, prepared,
\* recovered or recorded for a delivery was opened for it.
THEOREM ReceiveTypeCorrect == Spec => [](TypeOK /\ Owned)
<1>1. Spec => []Shape
  BY ShapeInit, ShapeStep, PTL DEF Spec
<1>2. Shape => TypeOK /\ Owned
  BY DEF Shape
<1> QED
  BY <1>1, <1>2, PTL

----------------------------------------------------------------------------
(* Accept-first.                                                           *)

\* Deliveries the user accepted, or whose writer met such a consent.
Backed == consented \cup borrowed

\* Consent is noted on writers, in the sidecar and in the registry only for
\* a delivery that is backed.
ConsentNoted ==
    /\ borrowed # {} => consented # {}
    /\ \A w \in 1..made :
          writer[w].granted \/ writer[w].wanted => writer[w].delivery \in Backed
    /\ sidecar # None /\ sidecar.granted => sidecar.delivery \in Backed
    /\ registry # None /\ registry.granted => registry.delivery \in Backed
    /\ \A d \in Deliveries : held[d] = "accepted" => d \in consented
    /\ \A s \in suspended : s.kind = "assist" => s.delivery \in consented

ConsentInv == RequireAccept => ConsentNoted

\* Nothing is accepted, and nothing is asked for that was not before.
Discreet ==
    /\ UNCHANGED <<consented, borrowed>>
    /\ made' = made
    /\ \A w \in 1..made :
          /\ writer'[w].delivery = writer[w].delivery
          /\ writer'[w].granted = writer[w].granted
          /\ writer'[w].wanted = writer[w].wanted
    /\ sidecar' \in {sidecar, registry, None}
    /\ registry' \in {registry, sidecar, None}
    /\ \A d \in Deliveries : held'[d] = "accepted" => held[d] = "accepted"
    /\ \A s \in suspended' : s.kind = "assist" => s \in suspended

\* A discreet step keeps the invariant.
LEMMA DiscreetKeeps ==
    ASSUME ConsentInv, Discreet, UNCHANGED scenario
    PROVE  ConsentInv'
BY DEF ConsentInv, ConsentNoted, Discreet, Backed, RequireAccept

\* A commit that starts or ends asks for nothing.
LEMMA FinalizingAsks ==
    ASSUME Shape, NEW w \in 1..made, NEW b \in BOOLEAN,
           writer' = [writer EXCEPT ![w].finalizing = b]
    PROVE  \A v \in 1..made :
              /\ writer'[v].delivery = writer[v].delivery
              /\ writer'[v].granted = writer[v].granted
              /\ writer'[v].wanted = writer[v].wanted
<1>1. writer \in [1..made -> WriterFields]
  BY DEF Shape, TypeOK, TableTyped
<1>2. writer[w] \in WriterFields /\ writer'[w] = [writer[w] EXCEPT !.finalizing = b]
  BY <1>1
<1>3. /\ writer'[w].delivery = writer[w].delivery
      /\ writer'[w].granted = writer[w].granted
      /\ writer'[w].wanted = writer[w].wanted
  BY <1>2 DEF WriterFields
<1> QED
  BY <1>1, <1>3

\* Steps that only receive, commit, recover or give up are discreet.
LEMMA CommitDiscreet ==
    ASSUME Shape, NEW w \in 1..made, Commit(w)
    PROVE  Discreet
<1>1. CASE Assemble(w) \/ Verify(w) \/ Prepare(w) \/ Link(w) \/ Unlink(w)
  BY <1>1 DEF Assemble, Verify, Prepare, Link, Unlink, Discreet
<1>2. CASE CacheMiss(w)
  <2>1. writer \in [1..made -> WriterFields]
    BY DEF Shape, TypeOK, TableTyped
  <2>2. \A v \in 1..made :
              /\ writer'[v].delivery = writer[v].delivery
              /\ writer'[v].granted = writer[v].granted
              /\ writer'[v].wanted = writer[v].wanted
    BY <1>2, <2>1 DEF CacheMiss, WriterFields
  <2> QED
    BY <1>2, <2>2 DEF CacheMiss, Discreet
<1>3. CASE Record(w)
  <2>1. \A v \in 1..made :
              /\ writer'[v].delivery = writer[v].delivery
              /\ writer'[v].granted = writer[v].granted
              /\ writer'[v].wanted = writer[v].wanted
    BY <1>3, FinalizingAsks DEF Record
  <2> QED
    BY <1>3, <2>1 DEF Record, Discreet
<1>4. CASE FinishFails(w)
  <2>1. \A v \in 1..made :
              /\ writer'[v].delivery = writer[v].delivery
              /\ writer'[v].granted = writer[v].granted
              /\ writer'[v].wanted = writer[v].wanted
    BY <1>4, FinalizingAsks DEF FinishFails
  <2>2. sidecar' \in {sidecar, None}
    BY <1>4, FinishFailsEffect
  <2> QED
    BY <1>4, <2>1, <2>2 DEF FinishFails, Discreet
<1> QED
  BY <1>1, <1>2, <1>3, <1>4 DEF Commit

\* A recovery asks for nothing.
LEMMA RecoverDiscreet ==
    ASSUME NEW d \in Deliveries, Recover(d)
    PROVE  Discreet
BY DEF Recover, RecStart, RecFinal, RecBoth, RecLink, RecUnlink, RecGiveUp,
       RecRecord, Discreet

\* Nor do chunks, aborts, the start of a commit and a restart.
LEMMA LoopDiscreet ==
    ASSUME Shape, Abort \/ Chunk \/ FinishStart \/ Restart \/ AllowPeer
    PROVE  Discreet
<1>5. CASE AllowPeer
  BY <1>5 DEF AllowPeer, Discreet
<1>1. CASE Abort
  BY <1>1 DEF Abort, AbortIncoming, Discreet
<1>2. CASE Restart
  BY <1>2 DEF Restart, Discreet
<1>3. CASE FinishStart
  <2>1. CASE UNCHANGED writer
    BY <1>3, <2>1 DEF FinishStart, Discreet
  <2>2. CASE table # 0 /\ writer' = [writer EXCEPT ![table].finalizing = TRUE]
    <3>1. table \in 1..made
      BY <2>2, Numbers DEF Shape, TypeOK, TableTyped
    <3> QED
      BY <1>3, <2>2, <3>1, FinalizingAsks DEF FinishStart, Discreet
  <2> QED
    BY <1>3, <2>1, <2>2 DEF FinishStart
<1>4. CASE Chunk
  <2>1. CASE StreamChunk(table)
    BY <1>4, <2>1 DEF Chunk, StreamChunk, Discreet
  <2>2. CASE CdcChunk(table) /\ table \notin open
    BY <1>4, <2>2 DEF Chunk, CdcChunk, AbortIncoming, Discreet
  <2>3. CASE CdcChunk(table) /\ table \in open
    <3>1. writer \in [1..made -> WriterFields]
      BY DEF Shape, TypeOK, TableTyped
    <3>2. \A v \in 1..made :
              /\ writer'[v].delivery = writer[v].delivery
              /\ writer'[v].granted = writer[v].granted
              /\ writer'[v].wanted = writer[v].wanted
      BY <2>3, <3>1 DEF CdcChunk, WriterFields
    <3> QED
      BY <1>4, <2>3, <3>2 DEF Chunk, CdcChunk, Discreet
  <2> QED
    BY <1>4, <2>1, <2>2, <2>3 DEF Chunk
<1> QED
  BY <1>1, <1>2, <1>3, <1>4, <1>5

\* Nor do the handlers that answer at once or refuse.
LEMMA HandlerDiscreet ==
    ASSUME Shape, NEW d \in Deliveries,
           \/ Stall(d) \/ OfferReplay(d) \/ OfferRecover(d) \/ AcceptMarks(d)
           \/ Decline(d) \/ DeclineAborts(d)
           \/ \E m \in Modes : OfferRefused(d, m) \/ RetryRefused(d, m)
    PROVE  Discreet
<1>1. CASE Stall(d) \/ OfferReplay(d) \/ OfferRecover(d)
  BY <1>1 DEF Stall, OfferReplay, OfferRecover, Discreet
<1>2. CASE AcceptMarks(d) \/ Decline(d) \/ DeclineAborts(d)
  BY <1>2 DEF AcceptMarks, Decline, DeclineAborts, Discreet, Shape, TypeOK, MemoryTyped
<1>3. ASSUME NEW m \in Modes, OfferRefused(d, m) PROVE Discreet
  BY <1>3 DEF OfferRefused, Discreet
<1>4. ASSUME NEW m \in Modes, RetryRefused(d, m) PROVE Discreet
  <2>0. Admissible(d) /\ InSessionRetry(d, m)
    BY <1>4 DEF RetryRefused
  <2>1. table \in 1..made
    BY <2>0, RetryTable
  <2>2. PICK U \in Retried(m) : writer' = [writer EXCEPT ![table] = U]
    BY <1>4 DEF RetryRefused
  <2>3. /\ U.delivery = writer[table].delivery /\ U.granted = writer[table].granted
        /\ U.wanted = writer[table].wanted
    BY <2>0, RetriedFields
  <2>4. \A w \in 1..made :
          /\ writer'[w].delivery = writer[w].delivery
          /\ writer'[w].granted = writer[w].granted
          /\ writer'[w].wanted = writer[w].wanted
    BY <2>1, <2>2, <2>3 DEF Shape, TypeOK, TableTyped
  <2> QED
    BY <1>4, <2>4 DEF RetryRefused, Discreet
<1> QED
  BY <1>1, <1>2, <1>3, <1>4

\* Consent that is noted where it was before, or for a delivery that is
\* backed by now, keeps the invariant.
LEMMA BackedKeeps ==
    ASSUME ConsentInv, UNCHANGED scenario,
           consented \subseteq consented', borrowed \subseteq borrowed',
           RequireAccept /\ ConsentNoted =>
              /\ borrowed' # {} => consented' # {}
              /\ \A v \in 1..made' :
                    writer'[v].granted \/ writer'[v].wanted =>
                       \/ /\ v \in 1..made /\ writer'[v].delivery = writer[v].delivery
                          /\ writer[v].granted \/ writer[v].wanted
                       \/ writer'[v].delivery \in Backed'
              /\ \/ sidecar' \in {sidecar, registry, None}
                 \/ sidecar'.granted => sidecar'.delivery \in Backed'
              /\ \/ registry' \in {sidecar, registry, None}
                 \/ registry'.granted => registry'.delivery \in Backed'
              /\ \A d \in Deliveries :
                    held'[d] = "accepted" => held[d] = "accepted" \/ d \in consented'
              /\ \A s \in suspended' :
                    s.kind = "assist" => s \in suspended \/ s.delivery \in consented'
    PROVE  ConsentInv'
<1>1. SUFFICES ASSUME RequireAccept, ConsentNoted PROVE ConsentNoted'
  BY DEF ConsentInv, RequireAccept
<1>2. Backed \subseteq Backed'
  BY DEF Backed
<1>3. \A v \in 1..made' :
         writer'[v].granted \/ writer'[v].wanted => writer'[v].delivery \in Backed'
  BY <1>1, <1>2 DEF ConsentNoted
<1>4. /\ sidecar' # None /\ sidecar'.granted => sidecar'.delivery \in Backed'
      /\ registry' # None /\ registry'.granted => registry'.delivery \in Backed'
  BY <1>1, <1>2 DEF ConsentNoted
<1>5. /\ \A d \in Deliveries : held'[d] = "accepted" => d \in consented'
      /\ \A s \in suspended' : s.kind = "assist" => s.delivery \in consented'
  BY <1>1 DEF ConsentNoted
<1> QED
  BY <1>1, <1>3, <1>4, <1>5 DEF ConsentNoted

\* Parking keeps consent with the partial.
LEMMA ParkNotes ==
    ASSUME Shape, NEW w \in 1..made, NEW g \in BOOLEAN, Park(w, g)
    PROVE  /\ \/ sidecar' = None
              \/ sidecar'.delivery = writer[w].delivery /\ sidecar'.granted = g
           /\ \/ registry' = registry
              \/ registry'.delivery = writer[w].delivery /\ registry'.granted = g
           /\ \A f \in Deliveries : held'[f] = "accepted" => held[f] = "accepted"
<1>1. \A f \in Deliveries : held'[f] = "accepted" => held[f] = "accepted"
  BY DEF Park, Shape, TypeOK, MemoryTyped
<1>2. PICK sc : sc = [delivery |-> writer[w].delivery, path |-> PathOf(w), granted |-> g]
  OBVIOUS
<1>3. sc.delivery = writer[w].delivery /\ sc.granted = g
  BY <1>2
<1>4. \/ sidecar' = sc /\ registry' = sc
      \/ sidecar' = None /\ UNCHANGED registry
  BY <1>2 DEF Park, DeliveryOf
<1> QED
  BY <1>1, <1>3, <1>4

LEMMA ReapConsent ==
    ASSUME Shape, ConsentInv, NEW d \in Deliveries, Reap(d), UNCHANGED scenario
    PROVE  ConsentInv'
<1>1. CASE table = 0
  BY <1>1, DiscreetKeeps DEF Reap, Discreet
<1>2. CASE table # 0
  <2>0. PICK g : g = writer[table].granted
    OBVIOUS
  <2>1. /\ table \in 1..made /\ Park(table, g) /\ g \in BOOLEAN
        /\ UNCHANGED <<made, writer, suspended, consented, borrowed>>
    BY <1>2, <2>0, Numbers DEF Reap, Shape, TypeOK, TableTyped, WriterFields
  <2>2. /\ \/ sidecar' = None
           \/ sidecar'.delivery = writer[table].delivery /\ sidecar'.granted = g
        /\ \/ registry' = registry
           \/ registry'.delivery = writer[table].delivery /\ registry'.granted = g
        /\ \A f \in Deliveries : held'[f] = "accepted" => held[f] = "accepted"
    BY <2>1, ParkNotes
  <2>3. RequireAccept /\ ConsentNoted /\ g => writer[table].delivery \in Backed'
    BY <2>0, <2>1 DEF ConsentNoted, Backed
  <2>4. RequireAccept /\ ConsentNoted => (borrowed' # {} => consented' # {})
    BY <2>1 DEF ConsentNoted
  <2> QED
    BY <2>1, <2>2, <2>3, <2>4, BackedKeeps
<1> QED
  BY <1>1, <1>2

\* An offer that goes on with a writer that has no more consent than is
\* backed keeps the invariant.
LEMMA OfferConsent ==
    ASSUME Shape, ConsentInv, NEW d \in Deliveries, NEW w \in 1..made',
           NEW W \in WriterFields, W.delivery = d, NEW sc \in {sidecar, None},
           OfferContinues(w, d, W, sc),
           made' = made \/ (made' = made + 1 /\ w = made + 1),
           RequireAccept /\ (W.granted \/ W.wanted) => d \in Backed',
           registry' \in {registry, None}, Noted(d), UNCHANGED scenario
    PROVE  ConsentInv'
<1>1. /\ \A v \in 1..made : v # w => writer'[v] = writer[v]
      /\ Alike(writer'[w], W)
      /\ writer'[w].wanted => W.wanted \/ W.granted
      /\ \/ suspended' = suspended
         \/ /\ suspended' = suspended \cup
                  {[kind |-> "offer", delivery |-> d, writer |-> w,
                    missing |-> W.missing]}
            /\ W.granted
      /\ \/ sidecar' = sc
         \/ /\ W.mode = "cdc"
            /\ sidecar' = [delivery |-> d, path |-> W.path,
                           granted |-> W.granted]
  BY OfferEffect
<1>2. \A e \in Deliveries : held'[e] = "accepted" => held[e] = "accepted"
  BY DEF OfferContinues, OfferTail, Shape, TypeOK, MemoryTyped
<1>3. \A v \in 1..made' : v \in 1..made \/ v = w
  BY Numbers DEF Shape
<1>4. consented \subseteq consented' /\ UNCHANGED borrowed
  BY NotedTyped
<1>5. RequireAccept => \A v \in 1..made' :
         writer'[v].granted \/ writer'[v].wanted =>
            \/ /\ v \in 1..made /\ writer'[v].delivery = writer[v].delivery
               /\ writer[v].granted \/ writer[v].wanted
            \/ writer'[v].delivery \in Backed'
  BY <1>1, <1>3 DEF Alike
<1>6. RequireAccept =>
         \/ sidecar' \in {sidecar, None}
         \/ sidecar'.granted => sidecar'.delivery \in Backed'
  BY <1>1
<1>7. \A s \in suspended' : s.kind = "assist" => s \in suspended
  BY <1>1
<1>8. ConsentNoted => (borrowed' # {} => consented' # {})
  BY <1>4 DEF ConsentNoted
<1> QED
  BY <1>2, <1>4, <1>5, <1>6, <1>7, <1>8, BackedKeeps

\* The writer an offer goes on with: the one that is there.
LEMMA RetryOffers ==
    ASSUME Shape, NEW d \in Deliveries, NEW m \in Modes, OfferRetry(d, m)
    PROVE  /\ table \in 1..made /\ DeliveryOf(table) = d
           /\ \E W \in WriterFields :
                 /\ W.delivery = d /\ W.path = writer[table].path
                 /\ W.granted = (writer[table].granted \/ Waived)
                 /\ W.wanted = writer[table].wanted
                 /\ OfferContinues(table, d, W, sidecar)
<1>0. Admissible(d) /\ InSessionRetry(d, m)
  BY DEF OfferRetry
<1>1. table \in 1..made /\ DeliveryOf(table) = d
  BY <1>0, RetryTable
<1>2. PICK U \in Retried(m) :
         OfferContinues(table, d, [U EXCEPT !.granted = @ \/ Waived], sidecar)
  BY DEF OfferRetry
<1>3. PICK W : W = Regranted(U)
  OBVIOUS
<1>4. /\ W \in WriterFields /\ W.delivery = d /\ W.path = writer[table].path
      /\ W.granted = (writer[table].granted \/ Waived)
      /\ W.wanted = writer[table].wanted
  BY <1>0, <1>3, RegrantedFields
<1>5. OfferContinues(table, d, W, sidecar)
  BY <1>2, <1>3 DEF Regranted
<1> QED
  BY <1>1, <1>4, <1>5

\* Consent that an offer finds: the user's accept-all, or its writer's.
LEMMA WaivedBacked ==
    ASSUME Shape, NEW d \in Deliveries, Noted(d), RequireAccept, Waived
    PROVE  d \in Backed'
<1>1. allowed
  BY DEF Waived
<1> QED
  BY <1>1, NotedTyped DEF Backed

\* The retry of an offer.
LEMMA RetryConsent ==
    ASSUME Shape, ConsentInv, NEW d \in Deliveries, NEW m \in Modes,
           OfferRetry(d, m), UNCHANGED scenario
    PROVE  ConsentInv'
<1>1. table \in 1..made /\ DeliveryOf(table) = d
  BY RetryOffers
<1>2. PICK W \in WriterFields :
         /\ W.delivery = d /\ W.path = writer[table].path
         /\ W.granted = (writer[table].granted \/ Waived)
         /\ W.wanted = writer[table].wanted
         /\ OfferContinues(table, d, W, sidecar)
  BY RetryOffers
<1>4. UNCHANGED <<made, registry>> /\ Noted(d)
  BY DEF OfferRetry
<1>3. RequireAccept /\ (W.granted \/ W.wanted) => d \in Backed'
  <2>1. CASE Waived
    BY <2>1, <1>4, WaivedBacked
  <2>2. CASE ~Waived
    <3>1. consented \subseteq consented' /\ UNCHANGED borrowed
      BY <1>4, NotedTyped
    <3> QED
      BY <1>1, <1>2, <2>2, <3>1 DEF DeliveryOf, ConsentInv, ConsentNoted, Backed
  <2> QED
    BY <2>1, <2>2
<1>5. table \in 1..made'
  BY <1>1, <1>4
<1> QED
  BY <1>2, <1>3, <1>4, <1>5, OfferConsent

\* A new writer inherits no consent but that of its own delivery.
LEMMA GrantedBacked ==
    ASSUME Shape, ConsentInv, NEW d \in Deliveries, NEW m \in Modes, Admissible(d),
           RequireAccept, Granted(m), Noted(d)
    PROVE  d \in Backed'
<1>1. table # 0 => table \in 1..made
  BY Numbers DEF Shape, TypeOK, TableTyped
<1>2. CASE Waived
  BY <1>2, WaivedBacked
<1>3. CASE ~Waived
  <2>1. d \in Backed
    BY <1>1, <1>3 DEF Granted, Resumes, Admissible, ConsentInv, ConsentNoted, DeliveryOf
  <2>2. consented \subseteq consented' /\ UNCHANGED borrowed
    BY NotedTyped
  <2> QED
    BY <2>1, <2>2 DEF Backed
<1> QED
  BY <1>2, <1>3

\* Or a new one.
LEMMA NewOffers ==
    ASSUME Shape, NEW d \in Deliveries, NEW m \in Modes, OfferNew(d, m)
    PROVE  /\ Admissible(d) /\ made < MaxWriters /\ made' = made + 1
           /\ made + 1 \in 1..made' /\ KeptSidecar(m) \in {sidecar, None}
           /\ \E W \in WriterFields :
                 /\ W.delivery = d /\ W.path = NewPath(m)
                 /\ W.granted = Granted(m) /\ W.wanted = FALSE
                 /\ OfferContinues(made + 1, d, W, KeptSidecar(m))
<1> USE Numbers DEF Shape
<1>0. Admissible(d) /\ made < MaxWriters /\ made' = made + 1
  BY DEF OfferNew
<1>1. /\ NewPath(m) \in Writers
      /\ OnDisk(NewPath(m)) \in 0..Chunks
      /\ KeptSidecar(m) \in {sidecar, None}
      /\ Granted(m) \in BOOLEAN
  BY <1>0, NewPathOwned
<1>2. PICK missing \in 0..(Chunks - OnDisk(NewPath(m))) :
         OfferContinues(made + 1, d,
             [delivery |-> d, mode |-> m, path |-> NewPath(m),
              missing |-> IF m = "cdc" THEN missing ELSE 0,
              granted |-> Granted(m),
              wanted |-> FALSE, finalizing |-> FALSE], KeptSidecar(m))
  BY DEF OfferNew
<1> DEFINE n == IF m = "cdc" THEN missing ELSE 0
           W == [delivery |-> d, mode |-> m, path |-> NewPath(m), missing |-> n,
                 granted |-> Granted(m), wanted |-> FALSE, finalizing |-> FALSE]
<1>3. n \in 0..Chunks
  BY <1>1
<1>4. /\ W \in WriterFields /\ W.delivery = d /\ W.granted = Granted(m)
      /\ W.wanted = FALSE /\ W.path = NewPath(m)
  <2> HIDE DEF n
  <2> QED
    BY <1>1, <1>3 DEF WriterFields
<1>5. OfferContinues(made + 1, d, W, KeptSidecar(m))
  BY <1>2
<1> HIDE DEF W, n
<1>6. made + 1 \in 1..made'
  BY <1>0
<1> QED
  BY <1>0, <1>1, <1>4, <1>5, <1>6

\* A new writer keeps consent where it belongs.
LEMMA NewConsent ==
    ASSUME Shape, ConsentInv, NEW d \in Deliveries, NEW m \in Modes,
           OfferNew(d, m), UNCHANGED scenario
    PROVE  ConsentInv'
<1>1. /\ Admissible(d) /\ made < MaxWriters /\ made' = made + 1
      /\ made + 1 \in 1..made' /\ KeptSidecar(m) \in {sidecar, None}
  BY NewOffers
<1>2. PICK W \in WriterFields :
         /\ W.delivery = d /\ W.path = NewPath(m)
         /\ W.granted = Granted(m) /\ W.wanted = FALSE
         /\ OfferContinues(made + 1, d, W, KeptSidecar(m))
  BY NewOffers
<1>4. registry' \in {registry, None} /\ Noted(d)
  BY DEF OfferNew
<1>3. RequireAccept /\ (W.granted \/ W.wanted) => d \in Backed'
  BY <1>1, <1>2, <1>4, GrantedBacked
<1> QED
  BY <1>1, <1>2, <1>3, <1>4, OfferConsent

\* Nor does a writer that could not be recorded.
LEMMA RetryUnrecordedConsent ==
    ASSUME Shape, ConsentInv, NEW d \in Deliveries, NEW m \in Modes,
           RetryUnrecorded(d, m), UNCHANGED scenario
    PROVE  ConsentInv'
<1>0. Admissible(d) /\ InSessionRetry(d, m) /\ Noted(d) /\ UNCHANGED <<made, suspended>>
  BY DEF RetryUnrecorded
<1>1. table \in 1..made /\ writer[table].delivery = d
  BY <1>0, RetryTable DEF DeliveryOf
<1>2. PICK U \in Retried(m) :
         writer' = [writer EXCEPT ![table] = [U EXCEPT !.granted = @ \/ Waived]]
  BY DEF RetryUnrecorded
<1>3. PICK W : W = Regranted(U)
  OBVIOUS
<1>4. /\ W.delivery = d /\ W.granted = (writer[table].granted \/ Waived)
      /\ W.wanted = writer[table].wanted
  BY <1>0, <1>3, RegrantedFields
<1>5. /\ writer'[table] = W
      /\ \A v \in 1..made : v # table => writer'[v] = writer[v]
  BY <1>1, <1>2, <1>3 DEF Regranted, Shape, TypeOK, TableTyped
<1>6. PICK g \in BOOLEAN : g = (writer[table].granted \/ Waived)
  BY <1>1 DEF Shape, TypeOK, TableTyped, WriterFields
<1>7. Park(table, g)
  BY <1>6 DEF RetryUnrecorded
<1>8. /\ \/ sidecar' = None
         \/ sidecar'.delivery = d /\ sidecar'.granted = g
      /\ \/ registry' = registry
         \/ registry'.delivery = d /\ registry'.granted = g
      /\ \A f \in Deliveries : held'[f] = "accepted" => held[f] = "accepted"
  BY <1>1, <1>7, ParkNotes
<1>9. consented \subseteq consented' /\ UNCHANGED borrowed
  BY <1>0, NotedTyped
<1>10. RequireAccept /\ ConsentNoted /\ (g \/ W.wanted) => d \in Backed'
  <2>1. CASE Waived
    BY <2>1, <1>0, WaivedBacked
  <2>2. CASE ~Waived
    BY <1>1, <1>4, <1>6, <1>9, <2>2 DEF ConsentNoted, Backed
  <2> QED
    BY <2>1, <2>2
<1>11. RequireAccept /\ ConsentNoted => \A v \in 1..made' :
         writer'[v].granted \/ writer'[v].wanted =>
            \/ /\ v \in 1..made /\ writer'[v].delivery = writer[v].delivery
               /\ writer[v].granted \/ writer[v].wanted
            \/ writer'[v].delivery \in Backed'
  BY <1>0, <1>4, <1>5, <1>6, <1>10
<1>12. ConsentNoted => (borrowed' # {} => consented' # {})
  BY <1>9 DEF ConsentNoted
<1> QED
  BY <1>0, <1>8, <1>9, <1>10, <1>11, <1>12, BackedKeeps

LEMMA UnrecordedConsent ==
    ASSUME Shape, ConsentInv, NEW d \in Deliveries, NEW m \in Modes,
           OfferUnrecorded(d, m), UNCHANGED scenario
    PROVE  ConsentInv'
<1> USE Numbers DEF Shape
<1>0. Admissible(d) /\ made' = made + 1 /\ Noted(d) /\ UNCHANGED <<held, suspended>>
  BY DEF OfferUnrecorded
<1>1. PICK g : g = Granted(m)
  OBVIOUS
<1>2. RequireAccept /\ g => d \in Backed'
  BY <1>0, <1>1, GrantedBacked
<1>3. /\ \A v \in 1..made : writer'[v] = writer[v]
      /\ writer'[made + 1].delivery = d /\ writer'[made + 1].granted = g
      /\ writer'[made + 1].wanted = FALSE
  <2>1. /\ made + 1 \in 1..made' /\ made + 1 \notin 1..made
        /\ 1..made \subseteq 1..made'
    BY <1>0
  <2> QED
    BY <1>1, <2>1 DEF OfferUnrecorded
<1>4. /\ \/ sidecar' = None
         \/ sidecar'.delivery = d /\ sidecar'.granted = g
      /\ registry' = sidecar'
  BY <1>1 DEF OfferUnrecorded
<1>5. \A v \in 1..made' : v \in 1..made \/ v = made + 1
  BY <1>0
<1>6. consented \subseteq consented' /\ UNCHANGED borrowed
  BY <1>0, NotedTyped
<1>7. RequireAccept => \A v \in 1..made' :
         writer'[v].granted \/ writer'[v].wanted =>
            \/ /\ v \in 1..made /\ writer'[v].delivery = writer[v].delivery
               /\ writer[v].granted \/ writer[v].wanted
            \/ writer'[v].delivery \in Backed'
  BY <1>2, <1>3, <1>5
<1>8. ConsentNoted => (borrowed' # {} => consented' # {})
  BY <1>6 DEF ConsentNoted
<1> HIDE DEF Shape
<1> QED
  BY <1>0, <1>2, <1>4, <1>6, <1>7, <1>8, BackedKeeps

\* Consent given in the name of d backs the writer it meets.
LEMMA LendsBacks ==
    ASSUME Shape, NEW d \in Deliveries, Lends(d), table # 0, d \in Backed'
    PROVE  writer[table].delivery \in Backed'
BY DEF Lends, Backed, DeliveryOf

\* What is asked for or accepted in the name of a backed delivery keeps the
\* invariant.
LEMMA LentKeeps ==
    ASSUME Shape, ConsentInv, NEW d \in Deliveries, Lends(d), UNCHANGED scenario,
           consented \subseteq consented', UNCHANGED <<made, table, registry>>,
           RequireAccept /\ ConsentNoted => d \in Backed' /\ consented' # {},
           \A v \in 1..made :
              /\ writer'[v].delivery = writer[v].delivery
              /\ writer'[v].granted => writer[v].granted \/ v = table
              /\ writer'[v].wanted => writer[v].wanted \/ v = table,
           \/ UNCHANGED sidecar
           \/ table # 0 /\ sidecar'.delivery = writer[table].delivery
           \/ sidecar'.delivery = d,
           \A e \in Deliveries :
              held'[e] = "accepted" => held[e] = "accepted" \/ e \in consented',
           \A s \in suspended' :
              s.kind = "assist" => s \in suspended \/ s.delivery \in consented'
    PROVE  ConsentInv'
<1>1. RequireAccept /\ ConsentNoted /\ table # 0 => writer[table].delivery \in Backed'
  BY LendsBacks
<1>2. borrowed \subseteq borrowed'
  BY DEF Lends
<1>3. table \in 1..made => table # 0
  BY Numbers DEF Shape
<1>4. RequireAccept /\ ConsentNoted => \A v \in 1..made' :
         writer'[v].granted \/ writer'[v].wanted =>
            \/ /\ v \in 1..made /\ writer'[v].delivery = writer[v].delivery
               /\ writer[v].granted \/ writer[v].wanted
            \/ writer'[v].delivery \in Backed'
  BY <1>1, <1>3
<1> QED
  BY <1>1, <1>2, <1>4, BackedKeeps

\* Consent keeps the invariant.
LEMMA AcceptConsent ==
    ASSUME Shape, ConsentInv, NEW d \in Deliveries, NEW all \in BOOLEAN,
           Accept(d, all), UNCHANGED scenario
    PROVE  ConsentInv'
<1>1. /\ UNCHANGED <<made, table, registry>> /\ Lends(d)
      /\ consented' = consented \cup {d}
      /\ held' = [held EXCEPT ![d] = "accepted"]
  BY DEF Accept
<1>2. d \in Backed' /\ consented' # {} /\ consented \subseteq consented'
      /\ d \in consented'
  BY <1>1 DEF Backed
<1>3. /\ \A v \in 1..made :
            /\ writer'[v].granted => writer[v].granted \/ v = table
            /\ writer'[v].wanted => writer[v].wanted \/ v = table
      /\ suspended' \subseteq suspended
            \cup {[kind |-> "accept", delivery |-> d]}
            \cup {a \in {Assist(d)} : table # 0}
      /\ Grown
  BY AcceptEffect
<1>4. \A v \in 1..made : writer'[v].delivery = writer[v].delivery
  BY <1>3 DEF Grown
<1>5. \/ UNCHANGED sidecar
      \/ table # 0 /\ sidecar'.delivery = writer[table].delivery
  BY DEF Accept, DeliveryOf
<1>6. \A e \in Deliveries :
         held'[e] = "accepted" => held[e] = "accepted" \/ e \in consented'
  BY <1>1, <1>2 DEF Shape, TypeOK, MemoryTyped
<1>7. \A s \in suspended' :
         s.kind = "assist" => s \in suspended \/ s.delivery \in consented'
  <2>1. Assist(d).delivery = d
    BY DEF Assist
  <2> QED
    BY <1>2, <1>3, <2>1
<1> QED
  BY <1>1, <1>2, <1>3, <1>4, <1>5, <1>6, <1>7, LentKeeps

\* So does its end, once the swarm has answered.
LEMMA AcceptResumesConsent ==
    ASSUME Shape, ConsentInv, NEW s \in suspended, AcceptResumes(s),
           UNCHANGED scenario
    PROVE  ConsentInv'
<1>1. /\ UNCHANGED <<made, table, registry, sidecar, held, consented>>
      /\ Lends(s.delivery)
  BY DEF AcceptResumes
<1>2. /\ s.kind = "assist" /\ s.delivery \in Deliveries /\ Grown
      /\ \A v \in 1..made :
            /\ writer'[v].granted = writer[v].granted
            /\ writer'[v].wanted => writer[v].wanted \/ v = table
      /\ suspended' \subseteq
            (suspended \ {s}) \cup {[kind |-> "accept", delivery |-> s.delivery]}
  BY AcceptResumesEffect
<1>3. ConsentNoted => s.delivery \in Backed' /\ consented' # {}
  BY <1>1, <1>2 DEF ConsentNoted, Backed
<1>4. \A v \in 1..made : writer'[v].delivery = writer[v].delivery
  BY <1>2 DEF Grown
<1>5. \A t \in suspended' : t.kind = "assist" => t \in suspended
  BY <1>2
<1> QED
  BY <1>1, <1>2, <1>3, <1>4, <1>5, LentKeeps

\* An offer that is answered by an earlier consent keeps the invariant.
LEMMA AcceptedConsent ==
    ASSUME Shape, ConsentInv, NEW d \in Deliveries, OfferAccepted(d),
           UNCHANGED scenario
    PROVE  ConsentInv'
<1>1. /\ UNCHANGED <<made, table, held, sidecar, registry, consented>>
      /\ Lends(d) /\ held[d] = "accepted" /\ Reply(d, writer, suspended)
  BY DEF OfferAccepted
<1>2. Handed(writer)
  BY DEF Handed, Shape, TypeOK, TableTyped
<1>3. /\ Grown
      /\ \A v \in 1..made :
            /\ writer'[v].granted = writer[v].granted
            /\ writer'[v].wanted => writer[v].wanted \/ v = table
  BY <1>1, <1>2, ReplyEffect
<1>4. \A v \in 1..made : writer'[v].delivery = writer[v].delivery
  BY <1>3 DEF Grown
<1>5. \A t \in suspended' : t.kind = "assist" => t \in suspended
  BY <1>1 DEF Reply
<1>6. ConsentNoted => d \in Backed' /\ consented' # {}
  BY <1>1 DEF ConsentNoted, Backed
<1> QED
  BY <1>1, <1>3, <1>4, <1>5, <1>6, LentKeeps

\* A handler that waits for the swarm was started for an accepted writer.
LEMMA WaitingBacked ==
    ASSUME Shape, NEW s \in suspended, s.kind = "offer"
    PROVE  /\ s.writer \in 1..made /\ writer[s.writer].delivery = s.delivery
           /\ writer[s.writer].granted /\ s.delivery \in Deliveries
           /\ s.missing \in 0..Chunks
<1>1. s \in [kind : {"offer", "assist"}, delivery : Deliveries,
             writer : Writers, missing : 0..Chunks]
  BY DEF Shape, TypeOK, MemoryTyped, Suspensions
<1> QED
  BY <1>1 DEF Shape, Owned, OffersOwn, DeliveryOf

\* The swarm answers only for a writer that was accepted.
LEMMA ResumesConsent ==
    ASSUME Shape, ConsentInv, NEW s \in suspended, OfferResumes(s),
           UNCHANGED scenario
    PROVE  ConsentInv'
<1>1. /\ UNCHANGED <<table, made, registry, consented>> /\ Lends(s.delivery)
      /\ s.kind = "offer" /\ suspended' = suspended \ {s}
  BY DEF OfferResumes
<1>2. /\ s.writer \in 1..made /\ writer[s.writer].delivery = s.delivery
      /\ writer[s.writer].granted /\ s.delivery \in Deliveries
      /\ s.missing \in 0..Chunks
  BY <1>1, WaitingBacked
<1>3. ConsentNoted => s.delivery \in Backed' /\ consented' # {}
  BY <1>1, <1>2 DEF ConsentNoted, Backed, Lends
<1>7. PICK missing \in 0..s.missing, answer \in {"ask", "hold", "error"} :
          Resumed(s, missing, answer)
  BY ResumesEffect
<1>8. /\ \/ sidecar' = sidecar
         \/ sidecar'.delivery = s.delivery
      /\ \A e \in Deliveries : held'[e] = "accepted" => held[e] = "accepted"
  BY <1>7 DEF Resumed, OfferTail, Shape, TypeOK, MemoryTyped
<1>9. \A v \in 1..made : v # table => writer'[v] = writer[v]
  BY <1>7 DEF Resumed
<1>10. table \in 1..made => /\ writer'[table].delivery = writer[table].delivery
                            /\ writer'[table].granted = writer[table].granted
  BY <1>7 DEF Resumed, WriterFields, Shape, TypeOK, TableTyped
<1>11. \A v \in 1..made :
          /\ writer'[v].delivery = writer[v].delivery
          /\ writer'[v].granted => writer[v].granted \/ v = table
          /\ writer'[v].wanted => writer[v].wanted \/ v = table
  BY <1>9, <1>10
<1> QED
  BY <1>1, <1>2, <1>3, <1>8, <1>11, LentKeeps

\* What could not be recorded is parked with its consent.
LEMMA ResumeUnrecordedConsent ==
    ASSUME Shape, ConsentInv, NEW s \in suspended, ResumeUnrecorded(s),
           UNCHANGED scenario
    PROVE  ConsentInv'
<1>1. /\ UNCHANGED <<made, consented, borrowed>> /\ suspended' = suspended \ {s}
      /\ s.kind = "offer"
  BY DEF ResumeUnrecorded
<1>2. PICK missing \in 0..s.missing :
         writer' = [v \in 1..made |->
             IF v = table THEN [writer[v] EXCEPT !.missing = missing]
             ELSE writer[v]]
  BY DEF ResumeUnrecorded
<1>3. missing \in 0..Chunks
  BY <1>1, WaitingBacked, FileReceiveAssumption
<1>4. PICK W : W = [v \in 1..made |->
             IF v = table THEN [writer[v] EXCEPT !.missing = missing]
             ELSE writer[v]]
  OBVIOUS
<1>5. table \in 0..made
  BY DEF Shape, TypeOK, TableTyped
<1>6. Handed(W) /\ \A v \in 1..made : W[v].granted = writer[v].granted
  BY <1>3, <1>4, <1>5, CountHanded
<1>7. writer' = W
  BY <1>2, <1>4
<1>8. \A v \in 1..made :
          /\ writer'[v].delivery = writer[v].delivery
          /\ writer'[v].granted = writer[v].granted
          /\ writer'[v].wanted = writer[v].wanted
  BY <1>6, <1>7 DEF Handed
<1>9. CASE table = 0
  <2>1. UNCHANGED <<held, registry, sidecar>>
    BY <1>9 DEF ResumeUnrecorded
  <2> QED
    BY <1>1, <1>8, <2>1, DiscreetKeeps DEF Discreet
<1>10. CASE table # 0
  <2>0. PICK g : g = writer[table].granted
    OBVIOUS
  <2>1. table \in 1..made /\ Park(table, g) /\ g \in BOOLEAN
    BY <1>10, <2>0, Numbers DEF ResumeUnrecorded, Shape, TypeOK, TableTyped, WriterFields
  <2>2. /\ \/ sidecar' = None
           \/ sidecar'.delivery = writer[table].delivery /\ sidecar'.granted = g
        /\ \/ registry' = registry
           \/ registry'.delivery = writer[table].delivery /\ registry'.granted = g
        /\ \A f \in Deliveries : held'[f] = "accepted" => held[f] = "accepted"
    BY <2>1, ParkNotes
  <2>3. RequireAccept /\ ConsentNoted /\ g => writer[table].delivery \in Backed'
    BY <1>1, <2>0, <2>1 DEF ConsentNoted, Backed
  <2>4. ConsentNoted => (borrowed' # {} => consented' # {})
    BY <1>1 DEF ConsentNoted
  <2>5. \A v \in 1..made' :
         writer'[v].granted \/ writer'[v].wanted =>
               /\ v \in 1..made /\ writer'[v].delivery = writer[v].delivery
               /\ writer[v].granted \/ writer[v].wanted
    BY <1>1, <1>8
  <2> QED
    BY <1>1, <2>2, <2>3, <2>4, <2>5, BackedKeeps
<1> QED
  BY <1>9, <1>10

\* Every step keeps consent where it belongs.
LEMMA ConsentStep ==
    ASSUME Shape, ConsentInv, [Next]_vars
    PROVE  ConsentInv'
<1>1. CASE UNCHANGED vars
  BY <1>1 DEF vars, ConsentInv, ConsentNoted, Backed, RequireAccept
<1>2. CASE Next
  <2>0. UNCHANGED scenario
    BY <1>2 DEF Next
  <2>1. CASE Abort \/ Chunk \/ FinishStart \/ Restart \/ AllowPeer
    BY <2>0, <2>1, LoopDiscreet, DiscreetKeeps
  <2>2. ASSUME NEW w \in 1..made, Commit(w) PROVE ConsentInv'
    BY <2>0, <2>2, CommitDiscreet, DiscreetKeeps
  <2>3. ASSUME NEW d \in scenario.offered,
               Stall(d) \/ Reap(d) \/ Offer(d) \/ Consent(d) \/ Recover(d)
        PROVE  ConsentInv'
    <3>0. d \in Deliveries
      BY Numbers DEF Shape
    <3>1. CASE \/ Stall(d) \/ OfferReplay(d) \/ OfferRecover(d) \/ AcceptMarks(d)
               \/ Decline(d) \/ DeclineAborts(d)
               \/ \E m \in Modes : OfferRefused(d, m) \/ RetryRefused(d, m)
      BY <2>0, <3>0, <3>1, HandlerDiscreet, DiscreetKeeps
    <3>2. CASE Recover(d)
      BY <2>0, <3>0, <3>2, RecoverDiscreet, DiscreetKeeps
    <3>3. CASE \/ Reap(d) \/ OfferAccepted(d)
               \/ \E all \in BOOLEAN : Accept(d, all)
      BY <2>0, <3>0, <3>3, ReapConsent, AcceptConsent, AcceptedConsent
    <3>4. ASSUME NEW m \in Modes,
                 \/ OfferRetry(d, m) \/ OfferNew(d, m)
                 \/ RetryUnrecorded(d, m) \/ OfferUnrecorded(d, m)
          PROVE  ConsentInv'
      BY <2>0, <3>0, <3>4, RetryConsent, NewConsent, RetryUnrecordedConsent,
         UnrecordedConsent
    <3>5. ASSUME NEW s \in suspended,
                 OfferResumes(s) \/ ResumeUnrecorded(s) \/ AcceptResumes(s)
          PROVE  ConsentInv'
      BY <2>0, <3>5, ResumesConsent, ResumeUnrecordedConsent, AcceptResumesConsent
    <3> QED
      BY <2>3, <3>1, <3>2, <3>3, <3>4, <3>5 DEF Offer, Consent
  <2> QED
    BY <1>2, <2>1, <2>2, <2>3 DEF Next
<1> QED
  BY <1>1, <1>2

\* Accept-first: bytes of a delivery are asked for only after the user
\* accepted it, whatever was parked, resumed, retried or restarted in
\* between and however the handlers interleave; the one exception is a
\* writer that met the consent to another delivery of the same content.
THEOREM ConsentComesFirst == Spec => []ConsentIsTheirs
<1>1. Init => ConsentInv
  BY DEF Init, ConsentInv, ConsentNoted
<1>2. Shape /\ ConsentInv /\ [Next]_vars => Shape' /\ ConsentInv'
  BY ShapeStep, ConsentStep
<1>3. Shape /\ ConsentInv => ConsentIsTheirs
  BY DEF ConsentInv, ConsentNoted, ConsentIsTheirs, Backed, DeliveryOf
<1> QED
  BY <1>1, <1>2, <1>3, ShapeInit, PTL DEF Spec

----------------------------------------------------------------------------
(* One receive at a time: handlers of the content that do not overlap.     *)

Busy(w) == task[w] # "idle"

\* A handler that waits for the swarm does so for the writer in the table,
\* which need not wait for the user.
Asking(s) == s.kind \in {"offer", "assist"}

Joined(s) == Asking(s) => s.writer = table /\ writer[s.writer].granted

\* The only writer that commits is the one in the table, or one that the
\* table has let go; at most one handler is suspended.
Alone ==
    /\ \A w \in Writers : Busy(w) => table \in {0, w}
    /\ \A v, w \in Writers : Busy(v) /\ Busy(w) => v = w
    /\ \A s, t \in suspended : s = t
    /\ \A s \in suspended : Joined(s)

AloneInv == ~Overlap => Alone /\ ReservationsMatch

\* No handler of the content runs while this one does.
LEMMA SerialAlone ==
    ASSUME ~Overlap
    PROVE  /\ Serial => suspended = {}
           /\ MayOffer => /\ \A w \in Writers : ~Busy(w)
                          /\ \A d \in Deliveries : recovery[d] = Idle
                          /\ ~due /\ suspended = {}
<1>1. Serial => suspended = {}
  BY DEF Serial
<1>2. MayOffer => Serial
  BY DEF MayOffer
<1>3. ASSUME MayOffer
      PROVE  /\ \A w \in Writers : task[w] = "idle"
             /\ \A d \in Deliveries : recovery[d] = Idle
             /\ ~due
  BY <1>3 DEF MayOffer
<1> QED
  BY <1>1, <1>2, <1>3 DEF Busy

\* The table keeps its writer or loses it together with its reservation; a
\* commit begins only for the writer in the table.
Calm ==
    /\ made' = made
    /\ \A w \in 1..made :
          /\ writer'[w].delivery = writer[w].delivery
          /\ writer[w].granted => writer'[w].granted
    /\ \A w \in Writers : Busy(w)' => Busy(w) \/ (w = table /\ table' = table)
    /\ \/ suspended' \subseteq suspended
       \/ \E s : suspended' = {s} /\ Joined(s)'
    /\ \/ table' = table /\ reserved' = reserved
       \/ table' = 0 /\ reserved' = {} /\ \A s \in suspended' : ~Asking(s)

\* A calm step keeps the receiver alone with its one reservation.
LEMMA CalmKeeps ==
    ASSUME Shape, AloneInv, UNCHANGED scenario, ~Overlap => Calm
    PROVE  AloneInv'
<1>1. SUFFICES ASSUME ~Overlap, Alone, ReservationsMatch, Calm
               PROVE  Alone' /\ ReservationsMatch'
  BY DEF AloneInv, Overlap
<1>2. table # 0 => table \in 1..made
  BY Numbers DEF Shape, TypeOK, TableTyped
<1>3. ReservationsMatch'
  BY <1>1, <1>2 DEF Calm, ReservationsMatch, DeliveryOf
<1>4. /\ (\A w \in Writers : Busy(w) => table \in {0, w})'
      /\ (\A v, w \in Writers : Busy(v) /\ Busy(w) => v = w)'
  <2>1. 0 \notin Writers
    BY Numbers DEF Writers, Shape
  <2> QED
    BY <1>1, <2>1 DEF Calm, Alone
<1>5. (\A s, t \in suspended : s = t)'
  BY <1>1 DEF Calm, Alone
<1>6. (\A s \in suspended : Joined(s))'
  <2>1. SUFFICES ASSUME NEW s \in suspended', Asking(s), suspended' \subseteq suspended
                 PROVE  s.writer = table' /\ writer'[s.writer].granted
    BY <1>1 DEF Calm, Joined, Asking
  <2>2. s \in suspended /\ s.writer \in 1..made
    BY <2>1 DEF Asking, Shape, Owned, OffersOwn
  <2>3. s.writer = table /\ writer[s.writer].granted
    BY <1>1, <2>1, <2>2 DEF Alone, Joined
  <2> QED
    BY <1>1, <2>1, <2>2, <2>3 DEF Calm
<1> QED
  BY <1>3, <1>4, <1>5, <1>6 DEF Alone

\* What the table holds, when it is let go.
LEMMA LetGo ==
    ASSUME Shape, Alone, ReservationsMatch, ~Overlap, NEW w \in 1..made,
           w = table \/ Busy(w), table' = 0, reserved' = reserved \ {DeliveryOf(w)}
    PROVE  reserved' = {}
<1>1. table \in {0, w}
  BY Numbers DEF Alone, Shape
<1> QED
  BY <1>1 DEF ReservationsMatch

\* Committing is calm.
LEMMA CommitCalm ==
    ASSUME Shape, AloneInv, ~Overlap, NEW w \in 1..made, Commit(w)
    PROVE  Calm
<1> USE DEF AloneInv
<1>0. Discreet
  BY CommitDiscreet
<1>1. /\ made' = made
      /\ \A v \in 1..made :
          /\ writer'[v].delivery = writer[v].delivery
          /\ writer[v].granted => writer'[v].granted
  BY <1>0 DEF Discreet
<1>2. Busy(w) /\ suspended' = suspended /\ w \in Writers
  BY Numbers DEF Commit, Assemble, CacheMiss, Verify, Prepare, Link, Unlink, Record,
         FinishFails, Busy, Shape
<1>3. \A v \in Writers : Busy(v)' => Busy(v)
  BY <1>2 DEF Commit, Assemble, CacheMiss, Verify, Prepare, Link, Unlink, Record,
         FinishFails, At, Busy, Shape, TypeOK, MemoryTyped
<1>4. CASE table' = table /\ reserved' = reserved
  BY <1>1, <1>2, <1>3, <1>4 DEF Calm
<1>5. CASE table' = 0 /\ reserved' = reserved \ {DeliveryOf(w)} /\ Serial
  <2>1. reserved' = {} /\ suspended = {}
    BY <1>2, <1>5, LetGo, SerialAlone
  <2> QED
    BY <1>1, <1>2, <1>3, <1>5, <2>1 DEF Calm
<1> QED
  BY <1>4, <1>5 DEF Commit, Assemble, CacheMiss, Verify, Prepare, Link, Unlink,
        Record, FinishFails, AbortIncoming

\* So is recovering.
LEMMA RecoverCalm ==
    ASSUME Shape, NEW d \in Deliveries, Recover(d)
    PROVE  Calm
<1>1. UNCHANGED <<tableVars, task, reserved, suspended>>
  BY DEF Recover, RecStart, RecFinal, RecBoth, RecLink, RecUnlink, RecGiveUp,
         RecRecord
<1> QED
  BY <1>1 DEF Calm, Busy

\* So are chunks, aborts, the start of a commit and a restart.
LEMMA LoopCalm ==
    ASSUME Shape, AloneInv, ~Overlap,
           Abort \/ Chunk \/ FinishStart \/ Restart \/ AllowPeer
    PROVE  Calm
<1> USE DEF AloneInv
<1>0. Discreet
  BY LoopDiscreet
<1>1. /\ made' = made
      /\ \A v \in 1..made :
          /\ writer'[v].delivery = writer[v].delivery
          /\ writer[v].granted => writer'[v].granted
  BY <1>0 DEF Discreet
<1>2. CASE Restart
  BY <1>1, <1>2 DEF Restart, Calm, Busy
<1>3. ASSUME Abort \/ Chunk \/ FinishStart
      PROVE  /\ suspended' = suspended /\ suspended = {}
             /\ table # 0 => table \in 1..made
  <2>1. Serial /\ suspended' = suspended
    BY <1>3 DEF Abort, Chunk, FinishStart
  <2> QED
    BY <2>1, SerialAlone, Numbers DEF Shape, TypeOK, TableTyped
<1>4. CASE Abort
  <2>1. table # 0 /\ UNCHANGED task /\ AbortIncoming(table, "failed")
    BY <1>4 DEF Abort
  <2>2. suspended' = {} /\ table \in 1..made
    BY <1>3, <1>4, <2>1
  <2>3. reserved' = {} /\ table' = 0
    BY <2>1, <2>2, LetGo DEF AbortIncoming
  <2> QED
    BY <1>1, <2>1, <2>2, <2>3 DEF Calm, Busy
<1>5. CASE FinishStart
  <2>1. \A v \in Writers : Busy(v)' => Busy(v) \/ v = table
    BY <1>5 DEF FinishStart, At, Busy, Shape, TypeOK, MemoryTyped
  <2>2. UNCHANGED <<table, reserved>>
    BY <1>5 DEF FinishStart
  <2>3. suspended' = suspended
    BY <1>3, <1>5
  <2> QED
    BY <1>1, <2>1, <2>2, <2>3 DEF Calm
<1>6. CASE Chunk
  <2>1. \A v \in Writers : Busy(v)' => Busy(v) \/ (v = table /\ table' = table)
    BY <1>6 DEF Chunk, StreamChunk, CdcChunk, Busy, Shape, TypeOK, MemoryTyped
  <2>2. suspended' = suspended /\ suspended = {} /\ table \in 1..made
    BY <1>3, <1>6 DEF Chunk
  <2>3. CASE UNCHANGED <<table, reserved>>
    BY <1>1, <2>1, <2>2, <2>3 DEF Calm
  <2>4. CASE AbortIncoming(table, "failed")
    <3>1. reserved' = {} /\ table' = 0
      BY <2>2, <2>4, LetGo DEF AbortIncoming
    <3> QED
      BY <1>1, <2>1, <2>2, <3>1 DEF Calm
  <2> QED
    BY <1>6, <2>3, <2>4 DEF Chunk, StreamChunk, CdcChunk
<1>7. CASE AllowPeer
  <2>1. UNCHANGED <<table, task, reserved, suspended>>
    BY <1>7 DEF AllowPeer
  <2> QED
    BY <1>1, <2>1 DEF Calm, Busy
<1> QED
  BY <1>2, <1>4, <1>5, <1>6, <1>7

\* So are the handlers that answer, refuse, hold or give up.
LEMMA HandlerCalm ==
    ASSUME Shape, AloneInv, ~Overlap, NEW d \in Deliveries,
           \/ Stall(d) \/ Reap(d) \/ OfferReplay(d) \/ OfferRecover(d)
           \/ AcceptMarks(d) \/ Decline(d) \/ DeclineAborts(d)
           \/ \E m \in Modes : OfferRefused(d, m) \/ RetryRefused(d, m)
    PROVE  Calm
<1> USE DEF AloneInv
<1>0. table # 0 => table \in 1..made
  BY Numbers DEF Shape, TypeOK, TableTyped
<1>1. /\ made' = made
      /\ \A v \in 1..made :
          /\ writer'[v].delivery = writer[v].delivery
          /\ writer[v].granted => writer'[v].granted
  <2>1. CASE Reap(d)
    BY <2>1 DEF Reap
  <2>2. CASE ~Reap(d)
    BY <2>2, HandlerDiscreet DEF Discreet
  <2> QED
    BY <2>1, <2>2
<1>2. \A w \in Writers : Busy(w)' => Busy(w)
  BY DEF Busy, Stall, Reap, OfferReplay, OfferRecover, AcceptMarks,
         Decline, DeclineAborts, OfferRefused, RetryRefused
<1>3. CASE \/ Stall(d) \/ OfferReplay(d) \/ OfferRecover(d) \/ AcceptMarks(d)
           \/ \E m \in Modes : RetryRefused(d, m)
  <2>1. suspended' \subseteq suspended /\ UNCHANGED <<table, reserved>>
    BY <1>3 DEF Stall, OfferReplay, OfferRecover, AcceptMarks, RetryRefused
  <2> QED
    BY <1>1, <1>2, <2>1 DEF Calm
<1>4. CASE Decline(d)
  <2>1. suspended = {} /\ UNCHANGED <<table, reserved>>
    BY <1>4, SerialAlone DEF Decline
  <2>2. \E s : suspended' = {s} /\ Joined(s)'
    <3>1. suspended' = {[kind |-> "decline", delivery |-> d]}
      BY <1>4, <2>1 DEF Decline
    <3>2. ~Asking([kind |-> "decline", delivery |-> d])
      BY DEF Asking
    <3> QED
      BY <3>1, <3>2 DEF Joined
  <2> QED
    BY <1>1, <1>2, <2>1, <2>2 DEF Calm
<1>5. ASSUME NEW m \in Modes, OfferRefused(d, m) PROVE Calm
  <2>1. /\ UNCHANGED <<table, suspended>>
        /\ reserved' = IF table = 0 THEN reserved \ {d} ELSE reserved
    BY <1>5 DEF OfferRefused
  <2>2. reserved' = reserved
    BY <2>1 DEF ReservationsMatch
  <2> QED
    BY <1>1, <1>2, <2>1, <2>2 DEF Calm
<1>6. CASE Reap(d)
  <2>1. suspended' = {} /\ suspended = {}
    BY <1>6, SerialAlone DEF Reap
  <2>2. CASE table = 0
    BY <1>1, <1>2, <1>6, <2>1, <2>2 DEF Reap, Calm
  <2>3. CASE table # 0
    <3>1. reserved' = reserved \ {DeliveryOf(table)} /\ table' = 0
      BY <1>6, <2>3 DEF Reap, Park
    <3>2. reserved' = {}
      BY <1>0, <2>3, <3>1, LetGo
    <3> QED
      BY <1>1, <1>2, <2>1, <3>1, <3>2 DEF Calm
  <2> QED
    BY <2>2, <2>3
<1>7. CASE DeclineAborts(d)
  <2>1. suspended' = {}
    BY <1>7 DEF DeclineAborts, Alone
  <2>2. CASE table = 0
    BY <1>1, <1>2, <1>7, <2>1, <2>2 DEF DeclineAborts, Calm
  <2>3. CASE table # 0
    <3>1. reserved' = reserved \ {DeliveryOf(table)} /\ table' = 0
      BY <1>7, <2>3 DEF DeclineAborts
    <3>2. reserved' = {}
      BY <1>0, <2>3, <3>1, LetGo
    <3> QED
      BY <1>1, <1>2, <2>1, <3>1, <3>2 DEF Calm
  <2> QED
    BY <2>2, <2>3
<1> QED
  BY <1>3, <1>4, <1>5, <1>6, <1>7

\* The handler that waits until the answer to an accept is out.
Accepting(d) == [kind |-> "accept", delivery |-> d]

LEMMA AcceptingJoined ==
    ASSUME NEW d
    PROVE  ~Asking(Accepting(d)) /\ Joined(Accepting(d))'
<1>1. ~Asking(Accepting(d))
  BY DEF Asking, Accepting
<1> QED
  BY <1>1 DEF Joined

\* Unless the answer is going out, nothing new is asked for.
AsksIn(d) ==
    \/ Accepting(d) \in suspended'
    \/ due' = due /\ \A v \in 1..made : writer'[v].wanted = writer[v].wanted

\* An accept grants the writer in the table, and may ask for the content.
LEMMA AcceptGrants ==
    ASSUME Shape, NEW d \in Deliveries, NEW all \in BOOLEAN, Accept(d, all),
           UNCHANGED scenario
    PROVE  AsksIn(d) /\ (table \in 1..made => writer'[table].granted)
<1>0. PICK W : W = [v \in 1..made |->
                       IF v = table THEN [writer[v] EXCEPT !.granted = TRUE]
                       ELSE writer[v]]
  OBVIOUS
<1>1. Handed(W)
  BY <1>0, GrantHanded
<1>2. table \in 1..made => W[table].granted
  <2>1. table \in 1..made => W[table] = [writer[table] EXCEPT !.granted = TRUE]
    BY <1>0
  <2> QED
    BY <2>1, WriterFacts, GrantedSet
<1>3. UNCHANGED <<made, table>>
  BY DEF Accept
<1>4. CASE writer' = W /\ UNCHANGED due
  BY <1>1, <1>2, <1>4 DEF Handed, AsksIn
<1>5. CASE Answered(d, W, suspended, stalled)
  <2>1. \A v \in 1..made : writer'[v].granted = W[v].granted
    BY <1>1, <1>3, <1>5, AnsweredEffect
  <2>2. AsksIn(d)
    BY <1>1, <1>5 DEF Answered, Reply, AsksIn, Accepting, Handed
  <2> QED
    BY <1>2, <2>1, <2>2
<1> QED
  BY <1>0, <1>4, <1>5 DEF Accept

\* So does one that the swarm has answered.
LEMMA AcceptResumesAsks ==
    ASSUME Shape, NEW s \in suspended, AcceptResumes(s), UNCHANGED scenario
    PROVE  AsksIn(s.delivery)
<1>1. s.delivery \in Deliveries /\ s.writer \in 0..made /\ s.missing \in 0..Chunks
  <2>1. s.kind = "assist" /\ s.delivery \in Deliveries /\ s.writer \in 1..made
    BY AcceptResumesEffect
  <2>2. s \in Suspensions
    BY DEF Shape, TypeOK, MemoryTyped
  <2>3. s \in [kind : {"offer", "assist"}, delivery : Deliveries,
               writer : Writers, missing : 0..Chunks]
    BY <2>1, <2>2 DEF Suspensions
  <2> QED
    BY <2>1, <2>3, Numbers DEF Shape
<1>2. PICK missing \in 0..s.missing :
          Answered(s.delivery, [writer EXCEPT ![s.writer].missing = missing],
                   suspended \ {s}, stalled \ {s.delivery})
  BY DEF AcceptResumes
<1>3. PICK W : W = [writer EXCEPT ![s.writer].missing = missing]
  OBVIOUS
<1>4. missing \in 0..Chunks
  BY <1>1, Numbers DEF Shape
<1>5. Handed(W)
  BY <1>1, <1>3, <1>4, CountHanded
<1>6. Answered(s.delivery, W, suspended \ {s}, stalled \ {s.delivery})
  BY <1>2, <1>3
<1> QED
  BY <1>5, <1>6 DEF Answered, Reply, AsksIn, Accepting, Handed

\* So is the consent of the user.
LEMMA AcceptCalm ==
    ASSUME Shape, suspended = {}, NEW d \in Deliveries, NEW all \in BOOLEAN,
           Accept(d, all), UNCHANGED scenario
    PROVE  Calm
<1>1. UNCHANGED <<table, made, task, reserved>>
  BY DEF Accept
<1>2. /\ Grown
      /\ suspended' \subseteq {Accepting(d)} \cup {a \in {Assist(d)} : table # 0}
  BY AcceptEffect DEF Accepting
<1>3. table \in 1..made => writer'[table].granted
  BY AcceptGrants
<1>4. table # 0 => /\ Assist(d).kind = "assist"
                   /\ Assist(d).writer = table /\ table \in 1..made
  BY Numbers, AssistTyped DEF Assist, Shape, TypeOK, TableTyped
<1>5. PICK a : a = Assist(d)
  OBVIOUS
<1>6. table # 0 => Joined(a)'
  BY <1>1, <1>3, <1>4, <1>5 DEF Joined
<1>7. suspended' = {} \/ \E s : suspended' = {s} /\ Joined(s)'
  <2>1. CASE suspended' \subseteq {Accepting(d)}
    BY <2>1, AcceptingJoined
  <2>2. CASE table # 0 /\ suspended' = {a}
    BY <1>6, <2>2
  <2>3. suspended' \subseteq {Accepting(d)} \/ (table # 0 /\ suspended' = {a})
    BY <1>5 DEF Accept, Answered, Reply, Accepting
  <2> QED
    BY <2>1, <2>2, <2>3
<1> QED
  BY <1>1, <1>2, <1>7 DEF Calm, Busy, Grown

\* So is its answer, at once or when the swarm has answered.
LEMMA AskingCalm ==
    ASSUME Shape, AloneInv, ~Overlap, UNCHANGED scenario,
           \/ \E d \in Deliveries : OfferAccepted(d)
           \/ \E s \in suspended : AcceptResumes(s)
    PROVE  Calm
<1> USE DEF AloneInv
<1>1. UNCHANGED <<table, made, task, reserved>>
  BY DEF OfferAccepted, AcceptResumes
<1>2. CASE \E d \in Deliveries : OfferAccepted(d)
  <2>1. PICK d \in Deliveries : OfferAccepted(d)
    BY <1>2
  <2>2. Reply(d, writer, suspended) /\ suspended = {}
    BY <2>1, SerialAlone DEF OfferAccepted
  <2>3. Handed(writer)
    BY DEF Handed, Shape, TypeOK, TableTyped
  <2>4. Grown
    BY <1>1, <2>2, <2>3, ReplyEffect
  <2>5. suspended' = {Accepting(d)}
    BY <2>2 DEF Reply, Accepting
  <2> QED
    BY <1>1, <2>4, <2>5, AcceptingJoined DEF Calm, Busy, Grown
<1>3. CASE \E s \in suspended : AcceptResumes(s)
  <2>1. PICK s \in suspended : AcceptResumes(s)
    BY <1>3
  <2>2. /\ Grown
        /\ suspended' \subseteq (suspended \ {s}) \cup {Accepting(s.delivery)}
    BY <2>1, AcceptResumesEffect DEF Accepting
  <2>3. suspended' \subseteq {Accepting(s.delivery)}
    BY <2>2 DEF Alone
  <2>4. suspended' \subseteq suspended \/ \E t : suspended' = {t} /\ Joined(t)'
    BY <2>3, AcceptingJoined
  <2> QED
    BY <1>1, <2>2, <2>4 DEF Calm, Busy, Grown
<1> QED
  BY <1>2, <1>3

\* So is the answer of the swarm.
LEMMA ResumesCalm ==
    ASSUME Shape, Alone, NEW s \in suspended, OfferResumes(s)
    PROVE  Calm
<1>1. suspended' \subseteq suspended /\ UNCHANGED <<table, made, task, reserved>>
  BY DEF OfferResumes
<1>2. PICK missing \in 0..s.missing, answer \in {"ask", "hold", "error"} :
         Resumed(s, missing, answer)
  BY ResumesEffect
<1>3. writer' = [v \in 1..made |->
          IF v = table
          THEN [writer[v] EXCEPT !.missing = missing,
                                 !.wanted = @ \/ answer = "ask"]
          ELSE writer[v]]
  BY <1>2 DEF Resumed
<1>4. writer \in [1..made -> WriterFields]
  BY DEF Shape, TypeOK, TableTyped
<1>5. \A v \in 1..made : v # table => writer'[v] = writer[v]
  BY <1>3
<1>6. table \in 1..made => /\ writer'[table].delivery = writer[table].delivery
                           /\ writer'[table].granted = writer[table].granted
  BY <1>3, <1>4 DEF WriterFields
<1>7. \A w \in 1..made :
          /\ writer'[w].delivery = writer[w].delivery
          /\ writer[w].granted => writer'[w].granted
  BY <1>5, <1>6
<1> QED
  BY <1>1, <1>7 DEF Calm, Busy

\* What the steps that park a writer do to it.
LEMMA ParkingEffect ==
    ASSUME Shape,
           \/ \E d \in Deliveries, m \in Modes : RetryUnrecorded(d, m)
           \/ \E s \in suspended : ResumeUnrecorded(s)
    PROVE  /\ Grown /\ UNCHANGED <<made, task>>
           /\ \A v \in 1..made : /\ writer'[v].finalizing = writer[v].finalizing
                                 /\ writer'[v].wanted = writer[v].wanted
<1>1. ASSUME NEW d \in Deliveries, NEW m \in Modes, RetryUnrecorded(d, m)
      PROVE  /\ Grown /\ UNCHANGED <<made, task>>
             /\ \A v \in 1..made : /\ writer'[v].finalizing = writer[v].finalizing
                                   /\ writer'[v].wanted = writer[v].wanted
  <2>1. Admissible(d) /\ InSessionRetry(d, m) /\ UNCHANGED <<made, task>>
    BY <1>1 DEF RetryUnrecorded
  <2>2. PICK U \in Retried(m) : writer' = [writer EXCEPT ![table] = Regranted(U)]
    BY <1>1 DEF RetryUnrecorded, Regranted
  <2>3. PICK W : W = Regranted(U)
    OBVIOUS
  <2>4. /\ W.delivery = writer[table].delivery
        /\ W.path = writer[table].path /\ W.mode = writer[table].mode
        /\ writer[table].granted => W.granted
        /\ W.wanted = writer[table].wanted
        /\ W.finalizing = writer[table].finalizing
    BY <2>1, <2>3, RegrantedFields
  <2>5. /\ table \in 1..made /\ writer' = [writer EXCEPT ![table] = W]
        /\ writer \in [1..made -> WriterFields]
    BY <2>1, <2>2, <2>3, RetryTable DEF Shape, TypeOK, TableTyped
  <2>6. writer'[table] = W /\ \A v \in 1..made : v # table => writer'[v] = writer[v]
    BY <2>5
  <2> QED
    BY <2>1, <2>4, <2>5, <2>6, Numbers DEF Grown, Shape
<1>2. ASSUME NEW s \in suspended, ResumeUnrecorded(s)
      PROVE  /\ Grown /\ UNCHANGED <<made, task>>
             /\ \A v \in 1..made : /\ writer'[v].finalizing = writer[v].finalizing
                                   /\ writer'[v].wanted = writer[v].wanted
  <2>1. UNCHANGED <<made, task>> /\ s.kind = "offer"
    BY <1>2 DEF ResumeUnrecorded
  <2>2. PICK missing \in 0..s.missing :
           writer' = [v \in 1..made |->
             IF v = table THEN [writer[v] EXCEPT !.missing = missing]
             ELSE writer[v]]
    BY <1>2 DEF ResumeUnrecorded
  <2>3. missing \in 0..Chunks /\ table \in 0..made
    <3>1. s \in Suspensions
      BY DEF Shape, TypeOK, MemoryTyped
    <3>2. s \in [kind : {"offer", "assist"}, delivery : Deliveries,
                 writer : Writers, missing : 0..Chunks]
      BY <2>1, <3>1 DEF Suspensions
    <3> QED
      BY <2>2, <3>2, Numbers DEF Shape, TypeOK, TableTyped
  <2>4. PICK W : W = writer'
    OBVIOUS
  <2>5. Handed(W)
    BY <2>2, <2>3, <2>4, CountHanded
  <2> QED
    BY <2>1, <2>4, <2>5, Numbers DEF Handed, Grown, Shape
<1> QED
  BY <1>1, <1>2

\* So is parking a writer whose offer could not be recorded.
LEMMA ParkingCalm ==
    ASSUME Shape, AloneInv, ~Overlap,
           \/ \E d \in Deliveries, m \in Modes : RetryUnrecorded(d, m)
           \/ \E s \in suspended : ResumeUnrecorded(s)
    PROVE  Calm
<1> USE DEF AloneInv
<1>1. Grown /\ UNCHANGED <<made, task>>
  BY ParkingEffect
<1>2. /\ table \in 1..made /\ suspended' = {}
      /\ \E g : Park(table, g)
  <2>1. ASSUME NEW d \in Deliveries, NEW m \in Modes, RetryUnrecorded(d, m)
        PROVE  /\ table \in 1..made /\ suspended' = {}
               /\ \E g : Park(table, g)
    <3>1. /\ Admissible(d) /\ InSessionRetry(d, m) /\ MayOffer
          /\ UNCHANGED suspended /\ Park(table, writer[table].granted \/ Waived)
      BY <2>1 DEF RetryUnrecorded
    <3> QED
      BY <3>1, RetryTable, SerialAlone
  <2>2. ASSUME NEW s \in suspended, ResumeUnrecorded(s)
        PROVE  /\ table \in 1..made /\ suspended' = {}
               /\ \E g : Park(table, g)
    <3>1. s.kind = "offer" /\ suspended' = suspended \ {s}
      BY <2>2 DEF ResumeUnrecorded
    <3>2. table \in 1..made /\ suspended' = {}
      BY <3>1 DEF Alone, Joined, Asking, Shape, Owned, OffersOwn
    <3>3. table # 0
      BY <3>2, Numbers DEF Shape
    <3> QED
      BY <2>2, <3>2, <3>3 DEF ResumeUnrecorded
  <2> QED
    BY <2>1, <2>2
<1>3. reserved' = reserved \ {DeliveryOf(table)} /\ table' = 0
  BY <1>2 DEF Park
<1>4. reserved' = {}
  BY <1>2, <1>3, LetGo
<1> QED
  BY <1>1, <1>2, <1>3, <1>4 DEF Calm, Busy, Grown

\* An offer that goes on leaves its writer alone in the table, with the one
\* reservation.
LEMMA OfferAlone ==
    ASSUME Shape, AloneInv, ~Overlap, MayOffer,
           NEW d \in Deliveries, NEW w \in 1..made', NEW W \in WriterFields,
           W.delivery = d, NEW sc,
           made' = made \/ (made' = made + 1 /\ w = made + 1),
           OfferContinues(w, d, W, sc),
           table' = w, reserved' = {d}, UNCHANGED <<scenario, task>>
    PROVE  AloneInv'
<1> USE DEF AloneInv
<1>0. (\A v \in Writers : ~Busy(v)) /\ suspended = {}
  BY SerialAlone
<1>1. /\ \A v \in 1..made : v # w => writer'[v] = writer[v]
      /\ Alike(writer'[w], W)
      /\ \/ suspended' = suspended
         \/ /\ suspended' = suspended \cup
                   {[kind |-> "offer", delivery |-> d, writer |-> w,
                     missing |-> W.missing]}
            /\ W.granted
  BY OfferEffect
<1>2. w \in Nat \ {0} /\ \A v \in 1..made' : v \in 1..made \/ v = w
  BY Numbers DEF Shape
<1>3. ReservationsMatch'
  BY <1>1, <1>2 DEF ReservationsMatch, DeliveryOf, Alike
<1>4. \A v \in Writers : ~Busy(v)'
  BY <1>0 DEF Busy
<1>5. \A s \in suspended' : /\ s = [kind |-> "offer", delivery |-> d, writer |-> w,
                                    missing |-> W.missing]
                            /\ W.granted
  BY <1>0, <1>1
<1>6. /\ \A s, u \in suspended' : s = u
      /\ \A s \in suspended' : s.writer = table' /\ writer'[s.writer].granted
  BY <1>1, <1>5 DEF Alike
<1> QED
  BY <1>3, <1>4, <1>6 DEF Alone, Joined

\* The offers that go on.
LEMMA GoOnAlone ==
    ASSUME Shape, AloneInv, NEW d \in Deliveries, NEW m \in Modes,
           OfferRetry(d, m) \/ OfferNew(d, m), UNCHANGED scenario
    PROVE  AloneInv'
<1>1. SUFFICES ASSUME ~Overlap PROVE AloneInv'
  BY DEF AloneInv, Overlap
<1>2. ReservationsMatch /\ Alone
  BY <1>1 DEF AloneInv
<1>3. CASE OfferRetry(d, m)
  <2>1. table \in 1..made /\ DeliveryOf(table) = d
    BY <1>3, RetryOffers
  <2>2. PICK W \in WriterFields :
           /\ W.delivery = d /\ W.path = writer[table].path
           /\ W.granted = (writer[table].granted \/ Waived)
           /\ W.wanted = writer[table].wanted
           /\ OfferContinues(table, d, W, sidecar)
    BY <1>3, RetryOffers
  <2>3. /\ made' = made /\ table' = table /\ reserved' = reserved \cup {d}
        /\ UNCHANGED task /\ MayOffer
    BY <1>3 DEF OfferRetry
  <2>4. table # 0
    BY <2>1, Numbers DEF Shape
  <2>5. reserved' = {d}
    BY <1>1, <1>2, <2>1, <2>3, <2>4 DEF ReservationsMatch
  <2>6. table \in 1..made'
    BY <2>1, <2>3
  <2> QED
    BY <1>1, <2>2, <2>3, <2>5, <2>6, OfferAlone
<1>4. CASE OfferNew(d, m)
  <2>1. /\ Admissible(d) /\ made < MaxWriters /\ made' = made + 1
        /\ made + 1 \in 1..made'
    BY <1>4, NewOffers
  <2>2. PICK W \in WriterFields :
           /\ W.delivery = d /\ W.path = NewPath(m)
           /\ W.granted = Granted(m) /\ W.wanted = FALSE
           /\ OfferContinues(made + 1, d, W, KeptSidecar(m))
    BY <1>4, NewOffers
  <2>3. /\ table' = made + 1 /\ reserved' = reserved \cup {d}
        /\ UNCHANGED task /\ MayOffer
    BY <1>4 DEF OfferNew
  <2>4. reserved' = {d}
    BY <1>1, <1>2, <2>1, <2>3 DEF ReservationsMatch, Admissible
  <2> QED
    BY <1>1, <2>1, <2>2, <2>3, <2>4, OfferAlone
<1> QED
  BY <1>3, <1>4

\* An offer that could not be recorded leaves nothing in the table.
LEMMA UnrecordedAlone ==
    ASSUME Shape, AloneInv, NEW d \in Deliveries, NEW m \in Modes,
           OfferUnrecorded(d, m), UNCHANGED scenario
    PROVE  AloneInv'
<1> USE DEF AloneInv
<1>1. SUFFICES ASSUME ~Overlap PROVE AloneInv'
  BY DEF AloneInv, Overlap
<1>2. /\ table' = 0 /\ reserved' = reserved \ {d} /\ made' = made + 1
      /\ UNCHANGED <<task, suspended>> /\ Admissible(d) /\ MayOffer
  BY DEF OfferUnrecorded
<1>3. suspended = {} /\ \A v \in Writers : ~Busy(v)
  BY <1>1, <1>2, SerialAlone
<1>4. reserved' = {}
  BY <1>1, <1>2 DEF ReservationsMatch, Admissible
<1> QED
  BY <1>2, <1>3, <1>4 DEF Alone, ReservationsMatch, Busy

\* Every step leaves the receiver alone with its one reservation.
LEMMA AloneStep ==
    ASSUME Shape, AloneInv, [Next]_vars
    PROVE  AloneInv'
<1>1. CASE UNCHANGED vars
  <2>1. UNCHANGED <<scenario, tableVars, task, reserved, suspended>>
    BY <1>1 DEF vars
  <2> QED
    BY <2>1 DEF AloneInv, Alone, ReservationsMatch, DeliveryOf, Overlap,
                Busy, Joined
<1>2. CASE Next
  <2>0. UNCHANGED scenario
    BY <1>2 DEF Next
  <2>1. CASE Abort \/ Chunk \/ FinishStart \/ Restart \/ AllowPeer
    BY <2>0, <2>1, LoopCalm, CalmKeeps
  <2>2. ASSUME NEW w \in 1..made, Commit(w) PROVE AloneInv'
    BY <2>0, <2>2, CommitCalm, CalmKeeps
  <2>3. ASSUME NEW d \in scenario.offered,
               Stall(d) \/ Reap(d) \/ Offer(d) \/ Consent(d) \/ Recover(d)
        PROVE  AloneInv'
    <3>0. d \in Deliveries
      BY Numbers DEF Shape
    <3>1. CASE \/ Stall(d) \/ Reap(d) \/ OfferReplay(d) \/ OfferRecover(d)
               \/ AcceptMarks(d) \/ Decline(d) \/ DeclineAborts(d)
               \/ \E m \in Modes : OfferRefused(d, m) \/ RetryRefused(d, m)
      BY <2>0, <3>0, <3>1, HandlerCalm, CalmKeeps
    <3>2. CASE Recover(d)
      BY <2>0, <3>0, <3>2, RecoverCalm, CalmKeeps
    <3>3. ASSUME NEW all \in BOOLEAN, Accept(d, all) PROVE AloneInv'
      <4>1. ~Overlap => suspended = {}
        BY <3>3, SerialAlone DEF Accept
      <4>2. ~Overlap => Calm
        BY <2>0, <3>0, <3>3, <4>1, AcceptCalm
      <4> QED
        BY <2>0, <4>2, CalmKeeps
    <3>4. ASSUME NEW m \in Modes, OfferRetry(d, m) \/ OfferNew(d, m) PROVE AloneInv'
      BY <2>0, <3>0, <3>4, GoOnAlone
    <3>5. ASSUME NEW m \in Modes, OfferUnrecorded(d, m) PROVE AloneInv'
      BY <2>0, <3>0, <3>5, UnrecordedAlone
    <3>6. ASSUME NEW s \in suspended, OfferResumes(s) PROVE AloneInv'
      BY <2>0, <3>6, ResumesCalm, CalmKeeps DEF AloneInv
    <3>7. CASE OfferAccepted(d) \/ \E s \in suspended : AcceptResumes(s)
      <4>1. ~Overlap => Calm
        BY <2>0, <3>0, <3>7, AskingCalm
      <4> QED
        BY <2>0, <4>1, CalmKeeps
    <3>8. CASE \/ \E m \in Modes : RetryUnrecorded(d, m)
               \/ \E s \in suspended : ResumeUnrecorded(s)
      <4>1. ~Overlap => Calm
        BY <3>0, <3>8, ParkingCalm
      <4> QED
        BY <2>0, <4>1, CalmKeeps
    <3> QED
      BY <2>3, <3>1, <3>2, <3>3, <3>4, <3>5, <3>6, <3>7, <3>8 DEF Offer, Consent
  <2> QED
    BY <1>2, <2>1, <2>2, <2>3 DEF Next
<1> QED
  BY <1>1, <1>2

\* While handlers of one content do not overlap, the ledger holds exactly
\* the reservation of the receive in progress: none is leaked by an abort, a
\* park, a refused or unrecorded offer or a restart, and no writer works
\* without one.
THEOREM ReservationsFollowTable == Spec => []ReservationsMatch
<1>1. Init => AloneInv
  BY DEF Init, AloneInv, Alone, ReservationsMatch, Busy
<1>2. Shape /\ AloneInv /\ [Next]_vars => Shape' /\ AloneInv'
  BY ShapeStep, AloneStep
<1>3. AloneInv => ReservationsMatch
  BY DEF AloneInv, ReservationsMatch
<1> QED
  BY <1>1, <1>2, <1>3, ShapeInit, PTL DEF Spec

----------------------------------------------------------------------------
(* Receipts and files of an orderly receiver.                              *)

\* Commit steps before and after the durable prepare.
Early == {"assemble", "verify", "verified"}
Late  == {"publish", "linked", "published", "unrecorded"}

\* What was confirmed or completed is published, and nothing else is but the
\* file a prepared commit is about.
Stored(d) ==
    /\ d \in confirmed => row[d] = "complete"
    /\ row[d] = "complete" => evidence[d] \in public
    /\ \A p \in public :
          DeliveryOf(p) = d =>
              p = IF row[d] = "complete" THEN evidence[d] ELSE prepared[d]

\* The delivery in the table is not complete, and nothing was prepared for it
\* before its commit begins; only what was granted is asked for, and while
\* it is held nothing was unless the answer to an accept is going out.
Receiving(d) ==
    table # 0 /\ DeliveryOf(table) = d =>
        /\ row[d] # "complete" /\ recovery[d] = Idle
        /\ task[table] = "idle" => prepared[d] = 0
        /\ writer[table].wanted \/ held[d] = "accepted" => writer[table].granted
        /\ held[d] # "no" /\ (writer[table].wanted \/ due)
              => Accepting(d) \in suspended

Committing(d) ==
    \A w \in Writers : Busy(w) /\ DeliveryOf(w) = d =>
        /\ row[d] # "complete" /\ recovery[d] = Idle /\ held[d] = "no"
        /\ task[w] \in Early \/ w \in open => prepared[d] = 0
        /\ task[w] \notin {"assemble", "failed"} => w \notin open
        /\ task[w] \in Late => prepared[d] = PathOf(w)
        /\ task[w] = "published" => PathOf(w) \in public
        /\ writer[w].mode = "cdc" => writer[w].finalizing

Recovering(d) ==
    recovery[d] # Idle =>
        /\ row[d] # "complete" /\ prepared[d] = recovery[d].path
        /\ recovery[d].at \in {"verified", "both", "published"}
              => recovery[d].path \in public

Asked(d) == held[d] # "no" => row[d] # "complete" /\ prepared[d] = 0

Waiting(d) ==
    \A s \in suspended : s.delivery = d =>
        /\ row[d] # "complete"
        /\ s.kind = "offer" => held[d] = "no" /\ task[table] = "idle"

Fit(d) ==
    /\ Stored(d) /\ Receiving(d) /\ Committing(d) /\ Recovering(d)
    /\ Asked(d) /\ Waiting(d)

Settled == \A d \in Deliveries : Fit(d)

FitInv == Orderly => Settled

\* What delivery d rests on does not move.
Untouched(d) ==
    /\ d \in confirmed' => d \in confirmed
    /\ row'[d] = row[d] /\ prepared'[d] = prepared[d] /\ evidence'[d] = evidence[d]
    /\ recovery'[d] = recovery[d] /\ held'[d] \in {held[d], "no"}
    /\ \A p \in public' : p \in 1..made /\ (writer[p].delivery = d => p \in public)
    /\ \A p \in public : writer[p].delivery = d => p \in public'
    /\ \A w \in 1..made' : task'[w] # "idle" /\ writer'[w].delivery = d =>
          /\ w \in 1..made /\ task'[w] = task[w] /\ (w \in open' => w \in open)
          /\ writer'[w].finalizing = writer[w].finalizing
    /\ table' # 0 /\ writer'[table'].delivery = d =>
          /\ table' = table /\ task'[table] = task[table]
          /\ writer'[table].wanted = writer[table].wanted /\ due' = due
    /\ \A s \in suspended' : s.delivery = d =>
          s \in suspended /\ (s.kind = "offer" => table' = table)
    /\ Accepting(d) \in suspended => Accepting(d) \in suspended'

\* Then it still fits.
LEMMA UntouchedFits ==
    ASSUME Shape, Shape', Grown, Alone, NEW d \in Deliveries, Fit(d), Untouched(d)
    PROVE  Fit(d)'
<1> USE DEF Shape
<1>0. /\ public \subseteq 1..made
      /\ \A w \in Writers : (task[w] # "idle")' => w \in 1..made'
      /\ table # 0 => table \in 1..made
      /\ 1..made \subseteq Writers /\ 0 \notin Writers
  BY Numbers DEF Owned, FilesOwn, TypeOK, TableTyped, Writers
<1>1. Stored(d)'
  <2>1. evidence[d] \in public => writer[evidence[d]].delivery = d
    BY <1>0, Numbers DEF Owned, RowsOwn, Known, DeliveryOf
  <2>2. \A p \in public' : writer'[p].delivery = d => p \in public /\ writer[p].delivery = d
    BY DEF Untouched, Grown
  <2>3. evidence[d] \in public => evidence'[d] \in public'
    BY <2>1 DEF Untouched
  <2> QED
    BY <2>2, <2>3 DEF Fit, Untouched, Stored, DeliveryOf
<1>2. Receiving(d)'
  BY <1>0 DEF Fit, Untouched, Receiving, Grown, DeliveryOf
<1>3. Committing(d)'
  <2>1. SUFFICES ASSUME NEW w \in Writers, Busy(w)', DeliveryOf(w)' = d
                 PROVE  /\ w \in 1..made /\ Busy(w) /\ DeliveryOf(w) = d
                        /\ task'[w] = task[w] /\ (w \in open' => w \in open)
                        /\ PathOf(w)' = PathOf(w) /\ writer'[w].mode = writer[w].mode
                        /\ writer'[w].finalizing = writer[w].finalizing
                        /\ PathOf(w) \in public => PathOf(w) \in public'
    <3>1. row'[d] = row[d] /\ prepared'[d] = prepared[d] /\ recovery'[d] = recovery[d]
          /\ held'[d] \in {held[d], "no"}
      BY DEF Untouched
    <3> QED
      BY <2>1, <3>1 DEF Fit, Committing
  <2>2. w \in 1..made'
    BY <1>0, <2>1 DEF Busy
  <2>3. /\ w \in 1..made /\ task'[w] = task[w] /\ (w \in open' => w \in open)
        /\ writer'[w].finalizing = writer[w].finalizing
    BY <2>1, <2>2 DEF Untouched, Busy, DeliveryOf
  <2>4. Busy(w) /\ DeliveryOf(w) = d /\ PathOf(w)' = PathOf(w)
        /\ writer'[w].mode = writer[w].mode
    BY <2>1, <2>3 DEF Busy, DeliveryOf, PathOf, Grown
  <2>5. writer[PathOf(w)].delivery = d
    BY <2>3, <2>4, WriterFacts DEF DeliveryOf
  <2> QED
    BY <2>3, <2>4, <2>5 DEF Untouched
<1>4. Recovering(d)'
  <2>1. recovery[d] # Idle => writer[recovery[d].path].delivery = d
    BY DEF Owned, RowsOwn, Known, DeliveryOf
  <2> QED
    BY <2>1 DEF Fit, Untouched, Recovering
<1>5. Asked(d)'
  BY DEF Fit, Untouched, Asked
<1>6. Waiting(d)'
  <2>1. \A s \in suspended : s.kind = "offer" =>
           s.writer = table /\ table # 0 /\ writer[table].delivery = s.delivery
    BY <1>0 DEF Alone, Joined, Asking, Owned, OffersOwn, DeliveryOf
  <2>2. ASSUME NEW s \in suspended', s.delivery = d, s.kind = "offer"
        PROVE  table' = table /\ task'[table] = task[table] /\ s \in suspended
    <3>1. table' = table /\ s \in suspended
      BY <2>2 DEF Untouched
    <3>2. table' # 0 /\ writer'[table'].delivery = d
      BY <1>0, <2>1, <2>2, <3>1 DEF Grown
    <3> QED
      BY <3>1, <3>2 DEF Untouched
  <2> QED
    BY <2>2 DEF Fit, Untouched, Waiting
<1> QED
  BY <1>1, <1>2, <1>3, <1>4, <1>5, <1>6 DEF Fit

\* No writer changes hands when none changes.
LEMMA StillGrown ==
    ASSUME Shape, UNCHANGED <<made, writer>>
    PROVE  Grown
BY Numbers DEF Shape, Grown

\* A row that was recorded.
LEMMA RecordedEffect ==
    ASSUME Shape, NEW d \in Deliveries, NEW p, Recorded(d, p)
    PROVE  /\ row'[d] = "complete" /\ evidence'[d] = p
           /\ confirmed' = confirmed \cup {d}
           /\ \A e \in Deliveries \ {d} :
                 /\ row'[e] = row[e] /\ prepared'[e] = prepared[e]
                 /\ evidence'[e] = evidence[e]
BY DEF Recorded, Shape, TypeOK, RowsTyped

\* One step of a recovery.
LEMMA RecoverEffect ==
    ASSUME Shape, NEW d \in Deliveries, Recovering(d), Recover(d),
           Serial => suspended = {}
    PROVE  /\ UNCHANGED <<tableVars, task, held, suspended, due>>
           /\ recovery[d] # Idle
           /\ \A e \in Deliveries \ {d} : recovery'[e] = recovery[e]
           /\ recovery'[d] # Idle =>
                 /\ recovery'[d].path = recovery[d].path
                 /\ recovery'[d].at \in {"verified", "both", "published"}
                       => recovery[d].path \in public'
           /\ public' \subseteq public \cup {recovery[d].path}
           /\ public \subseteq public' \cup {recovery[d].path}
           /\ \/ UNCHANGED <<row, prepared, evidence, confirmed>>
              \/ /\ Recorded(d, recovery[d].path) /\ recovery'[d] = Idle
                 /\ recovery[d].path \in public' /\ suspended = {}
<1>0. UNCHANGED <<tableVars, task, held, suspended, due>>
  BY DEF Recover, RecStart, RecFinal, RecBoth, RecLink, RecUnlink, RecGiveUp,
         RecRecord
<1>1. PICK s \in RecSteps :
         /\ RecAt(d, s) /\ recovery[d].at # "idle"
         /\ s \in {"verified", "both", "published"} => recovery[d].path \in public'
         /\ \/ UNCHANGED <<row, prepared, evidence, confirmed>>
            \/ /\ Recorded(d, recovery[d].path) /\ s = "idle"
               /\ recovery[d].path \in public' /\ suspended = {}
  <2>0. recovery[d].at # "idle" => recovery[d] # Idle
    BY DEF Idle
  <2>1. CASE RecStart(d)
    <3>1. PICK s \in {"final", "publish", "idle"} : RecAt(d, s)
      BY <2>1 DEF RecStart
    <3>2. s \in RecSteps /\ s \notin {"verified", "both", "published"}
      BY <3>1 DEF RecSteps
    <3>3. recovery[d].at # "idle" /\ UNCHANGED <<row, prepared, evidence, confirmed>>
      BY <2>1 DEF RecStart
    <3> QED
      BY <3>1, <3>2, <3>3
  <2>2. CASE RecFinal(d)
    <3>1. recovery[d].path \in public \/ RecAt(d, "idle")
      BY <2>2 DEF RecFinal
    <3>2. recovery[d].path \in public => RecAt(d, "verified")
      BY <2>2 DEF RecFinal
    <3>3. /\ recovery[d].at # "idle"
          /\ UNCHANGED <<public, row, prepared, evidence, confirmed>>
      BY <2>2 DEF RecFinal
    <3> QED
      BY <3>1, <3>2, <3>3 DEF RecSteps
  <2>3. CASE RecBoth(d) \/ RecGiveUp(d)
    <3>1. /\ recovery[d].at \in {"verified", "both"}
          /\ UNCHANGED <<public, row, prepared, evidence, confirmed>>
          /\ RecAt(d, "both") \/ RecAt(d, "idle")
      BY <2>3 DEF RecBoth, RecGiveUp
    <3>2. recovery[d].path \in public
      BY <2>0, <3>1 DEF Recovering
    <3> QED
      BY <3>1, <3>2 DEF RecSteps
  <2>4. CASE RecLink(d)
    <3>1. /\ recovery[d].at # "idle"
          /\ UNCHANGED <<row, prepared, evidence, confirmed>>
          /\ RecAt(d, "linked") \/ RecAt(d, "idle")
      BY <2>4 DEF RecLink
    <3> QED
      BY <3>1 DEF RecSteps
  <2>5. CASE RecUnlink(d)
    <3>1. /\ recovery[d].at # "idle"
          /\ UNCHANGED <<row, prepared, evidence, confirmed>>
          /\ \/ RecAt(d, "published") /\ recovery[d].path \in public'
             \/ RecAt(d, "idle")
      BY <2>5 DEF RecUnlink
    <3> QED
      BY <3>1 DEF RecSteps
  <2>6. CASE RecRecord(d)
    <3>1. /\ recovery[d].at \in {"verified", "both", "published"}
          /\ RecAt(d, "idle") /\ public' = public
          /\ Recorded(d, recovery[d].path) /\ Serial
      BY <2>6 DEF RecRecord
    <3>2. recovery[d].path \in public
      BY <2>0, <3>1 DEF Recovering
    <3> QED
      BY <3>1, <3>2 DEF RecSteps
  <2> QED
    BY <2>1, <2>2, <2>3, <2>4, <2>5, <2>6 DEF Recover
<1>2. /\ recovery'[d] = IF s = "idle" THEN Idle
                        ELSE [at |-> s, path |-> recovery[d].path]
      /\ \A e \in Deliveries \ {d} : recovery'[e] = recovery[e]
  BY <1>1, RecAtEffect
<1>3. recovery[d] # Idle
  BY <1>1 DEF Idle
<1>4. /\ public' \subseteq public \cup {recovery[d].path}
      /\ public \subseteq public' \cup {recovery[d].path}
  BY DEF Recover, RecStart, RecFinal, RecBoth, RecLink, RecUnlink, RecGiveUp,
         RecRecord
<1>5. recovery'[d] # Idle => /\ recovery'[d].path = recovery[d].path
                             /\ recovery'[d].at = s
  BY <1>2
<1>6. s = "idle" => recovery'[d] = Idle
  BY <1>2
<1> QED
  BY <1>0, <1>1, <1>2, <1>3, <1>4, <1>5, <1>6

\* Recovering a prepared commit.
LEMMA RecoverFits ==
    ASSUME Shape, Shape', Alone, Settled, Serial => suspended = {},
           NEW d \in Deliveries, Recover(d)
    PROVE  Settled'
<1> USE DEF Shape
<1>0. Fit(d)
  BY DEF Settled
<1>1. PICK p : p = recovery[d].path
  OBVIOUS
<1>2. /\ UNCHANGED <<tableVars, task, held, suspended, due>>
      /\ recovery[d] # Idle
      /\ \A e \in Deliveries \ {d} : recovery'[e] = recovery[e]
      /\ recovery'[d] # Idle =>
            /\ recovery'[d].path = p
            /\ recovery'[d].at \in {"verified", "both", "published"} => p \in public'
      /\ public' \subseteq public \cup {p} /\ public \subseteq public' \cup {p}
      /\ \/ UNCHANGED <<row, prepared, evidence, confirmed>>
         \/ /\ Recorded(d, p) /\ recovery'[d] = Idle
            /\ p \in public' /\ suspended = {}
  BY <1>0, <1>1, RecoverEffect DEF Fit
<1>3. Grown
  BY <1>2, StillGrown
<1>4. p \in 1..made /\ writer[p].delivery = d /\ p # 0
  BY <1>1, <1>2, Numbers DEF Owned, RowsOwn, Known, DeliveryOf
<1>5. public \subseteq 1..made
  BY DEF Owned, FilesOwn
<1>6. ASSUME NEW e \in Deliveries \ {d} PROVE Fit(e)'
  <2>1. /\ e \in confirmed' => e \in confirmed
        /\ row'[e] = row[e] /\ prepared'[e] = prepared[e] /\ evidence'[e] = evidence[e]
    BY <1>2, RecordedEffect
  <2>2. Untouched(e)
    BY <1>2, <1>4, <1>5, <2>1 DEF Untouched
  <2> QED
    BY <1>3, <2>2, UntouchedFits DEF Settled
<1>7. Fit(d)'
  <2>1. /\ row[d] # "complete" /\ prepared[d] = p
        /\ table # 0 => DeliveryOf(table) # d
        /\ \A w \in Writers : Busy(w) => DeliveryOf(w) # d
        /\ held[d] = "no"
        /\ \A q \in public : DeliveryOf(q) = d => q = p
        /\ d \notin confirmed
    BY <1>0, <1>1, <1>2, <1>4 DEF Fit, Recovering, Receiving, Committing, Asked, Stored
  <2>2. Stored(d)'
    <3>1. CASE UNCHANGED <<row, prepared, evidence, confirmed>>
      BY <1>2, <2>1, <3>1 DEF Stored, DeliveryOf
    <3>2. CASE Recorded(d, p) /\ p \in public'
      BY <1>2, <2>1, <3>2, RecordedEffect DEF Stored, DeliveryOf
    <3> QED
      BY <1>2, <3>1, <3>2
  <2>3. Receiving(d)' /\ Committing(d)'
    BY <1>2, <2>1 DEF Receiving, Committing, DeliveryOf, Busy
  <2>4. Recovering(d)'
    BY <1>2, <2>1 DEF Recovering
  <2>5. Asked(d)'
    BY <1>2, <2>1 DEF Asked
  <2>6. Waiting(d)'
    BY <1>0, <1>2 DEF Waiting, Fit
  <2> QED
    BY <2>2, <2>3, <2>4, <2>5, <2>6 DEF Fit
<1> QED
  BY <1>6, <1>7 DEF Settled

\* What was asked for of the writer in the table, a writer of delivery d, was
\* asked for before, or is granted and the answer to an accept going out.
Abides(d) ==
    /\ \/ writer'[table].granted
       \/ /\ writer'[table].wanted => writer[table].wanted
          /\ held'[d] = "accepted" => held[d] = "accepted"
    /\ \/ held'[d] = "no"
       \/ Accepting(d) \in suspended'
       \/ /\ Accepting(d) \notin suspended
          /\ writer'[table].wanted => writer[table].wanted
          /\ due' => due

\* Nothing is received, prepared or published: rows in flight move, handlers
\* end or begin to wait, writers are marked or given up.
Receding ==
    /\ Grown /\ made' = made
    /\ \A d \in Deliveries :
          /\ prepared'[d] = prepared[d]
          /\ row[d] = "complete" => evidence'[d] = evidence[d]
          /\ d \in confirmed' => d \in confirmed \/ row[d] = "complete"
          /\ row'[d] = row[d] \/ (row[d] # "complete" /\ row'[d] # "complete")
          /\ held[d] = "no" => held'[d] = "no"
          /\ \/ recovery'[d] \in {recovery[d], Idle}
             \/ /\ row[d] # "complete" /\ prepared[d] # 0
                /\ \A w \in Writers : ~Busy(w)
                /\ recovery'[d] = [at |-> "start", path |-> prepared[d]]
    /\ \/ public' = public
       \/ \E w \in 1..made : task[w] = "unrecorded" /\ public' = public \ {PathOf(w)}
    /\ \A w \in 1..made :
          /\ task'[w] \in {task[w], "idle"} /\ (w \in open' => w \in open)
          /\ task'[w] # "idle" => writer'[w].finalizing = writer[w].finalizing
    /\ table' # 0 =>
          /\ table' = table
          /\ task'[table] = "idle" => task[table] \in {"idle", "assemble"}
          /\ Abides(DeliveryOf(table))
    /\ \A s \in suspended' :
          \/ s \in suspended /\ (s.kind = "offer" => table' = table)
          \/ s.kind # "offer" /\ row[s.delivery] # "complete"

\* Then everything still fits.
LEMMA RecedingFits ==
    ASSUME Shape, Shape', Alone, Settled, Receding
    PROVE  Settled'
<1> USE DEF Shape
<1>0. /\ public \subseteq 1..made
      /\ \A w \in Writers : task[w] # "idle" => w \in 1..made
      /\ \A w \in Writers : task'[w] # "idle" => w \in 1..made
      /\ table # 0 => table \in 1..made
      /\ 1..made \subseteq Writers /\ 0 \notin Writers
  BY Numbers DEF Owned, FilesOwn, TypeOK, TableTyped, Writers, Receding
<1>1. \A w \in 1..made : /\ writer'[w].delivery = writer[w].delivery
                         /\ writer'[w].path = writer[w].path
                         /\ writer'[w].mode = writer[w].mode
  BY DEF Receding, Grown
<1>2. SUFFICES ASSUME NEW d \in Deliveries PROVE Fit(d)'
  BY DEF Settled
<1>3. Fit(d)
  BY DEF Settled
<1>4. /\ d \in confirmed' => d \in confirmed \/ row[d] = "complete"
      /\ row'[d] = row[d] \/ (row[d] # "complete" /\ row'[d] # "complete")
      /\ prepared'[d] = prepared[d]
      /\ row[d] = "complete" => evidence'[d] = evidence[d]
      /\ held[d] = "no" => held'[d] = "no"
  BY DEF Receding
<1>5. /\ public' \subseteq public
      /\ \A q \in public : writer[q].delivery = d /\ q \notin public' =>
            \E w \in 1..made : /\ task[w] = "unrecorded" /\ writer[w].delivery = d
                               /\ Busy(w)
  BY WriterFacts DEF Receding, DeliveryOf, Busy
<1>6. Stored(d)'
  <2>1. row[d] = "complete" => evidence[d] \in public'
    <3>1. SUFFICES ASSUME row[d] = "complete", evidence[d] \notin public' PROVE FALSE
      OBVIOUS
    <3>2. evidence[d] \in public
      BY <1>3, <3>1 DEF Fit, Stored
    <3>3. writer[evidence[d]].delivery = d
      BY <1>0, <3>2, Numbers DEF Owned, RowsOwn, Known, DeliveryOf
    <3> QED
      BY <1>0, <1>3, <1>5, <3>1, <3>2, <3>3 DEF Fit, Committing, DeliveryOf
  <2> QED
    BY <1>0, <1>1, <1>3, <1>4, <1>5, <2>1 DEF Fit, Stored, DeliveryOf
<1>7. table # 0 /\ writer[table].delivery = d => recovery'[d] = Idle
  <2>1. SUFFICES ASSUME table # 0, writer[table].delivery = d,
                        prepared[d] # 0, \A w \in Writers : ~Busy(w)
                 PROVE  FALSE
    BY <1>3 DEF Receding, Fit, Receiving, DeliveryOf
  <2> QED
    BY <1>0, <1>3, <2>1 DEF Fit, Receiving, DeliveryOf, Busy
<1>8. Receiving(d)'
  <2>1. SUFFICES ASSUME table' # 0, writer'[table'].delivery = d
                 PROVE  /\ row'[d] # "complete" /\ recovery'[d] = Idle
                        /\ task'[table] = "idle" => prepared'[d] = 0
                        /\ writer'[table].wanted \/ held'[d] = "accepted"
                              => writer'[table].granted
                        /\ held'[d] # "no" /\ (writer'[table].wanted \/ due')
                              => Accepting(d) \in suspended'
    BY DEF Receiving, DeliveryOf, Receding
  <2>2. /\ table' = table /\ table # 0 /\ writer[table].delivery = d
        /\ task'[table] = "idle" => task[table] \in {"idle", "assemble"}
        /\ Abides(d) /\ (writer[table].granted => writer'[table].granted)
    BY <1>0, <1>1, <2>1 DEF Receding, DeliveryOf, Grown
  <2>3. /\ row[d] # "complete" /\ (task[table] = "idle" => prepared[d] = 0)
        /\ writer[table].wanted \/ held[d] = "accepted" => writer[table].granted
        /\ held[d] # "no" /\ (writer[table].wanted \/ due)
              => Accepting(d) \in suspended
    BY <1>3, <2>2 DEF Fit, Receiving, DeliveryOf
  <2>4. task[table] = "assemble" => prepared[d] = 0
    BY <1>0, <1>3, <2>2 DEF Fit, Committing, DeliveryOf, Busy, Early
  <2>5. /\ writer'[table].wanted \/ held'[d] = "accepted" => writer'[table].granted
        /\ held'[d] # "no" /\ (writer'[table].wanted \/ due')
              => Accepting(d) \in suspended'
    BY <1>4, <2>2, <2>3 DEF Abides
  <2> QED
    BY <1>4, <1>7, <2>2, <2>3, <2>4, <2>5
<1>9. Committing(d)'
  <2>1. SUFFICES ASSUME NEW w \in Writers, Busy(w)', DeliveryOf(w)' = d
                 PROVE  /\ row'[d] # "complete" /\ recovery'[d] = Idle /\ held'[d] = "no"
                        /\ task'[w] \in Early \/ w \in open' => prepared'[d] = 0
                        /\ task'[w] \notin {"assemble", "failed"} => w \notin open'
                        /\ task'[w] \in Late => prepared'[d] = PathOf(w)'
                        /\ task'[w] = "published" => PathOf(w)' \in public'
                        /\ writer'[w].mode = "cdc" => writer'[w].finalizing
    BY DEF Committing
  <2>2. w \in 1..made /\ task'[w] = task[w]
    BY <1>0, <2>1 DEF Busy, Receding
  <2>3. /\ Busy(w) /\ DeliveryOf(w) = d /\ PathOf(w)' = PathOf(w)
        /\ writer'[w].mode = writer[w].mode /\ (w \in open' => w \in open)
        /\ writer'[w].finalizing = writer[w].finalizing
    BY <1>1, <2>1, <2>2 DEF Busy, DeliveryOf, PathOf, Receding
  <2>4. /\ row[d] # "complete" /\ recovery[d] = Idle /\ held[d] = "no"
        /\ task[w] \in Early \/ w \in open => prepared[d] = 0
        /\ task[w] \notin {"assemble", "failed"} => w \notin open
        /\ task[w] \in Late => prepared[d] = PathOf(w)
        /\ task[w] = "published" => PathOf(w) \in public
        /\ writer[w].mode = "cdc" => writer[w].finalizing
    BY <1>3, <2>3 DEF Fit, Committing
  <2>5. recovery'[d] = Idle
    BY <2>3, <2>4 DEF Receding
  <2>6. task[w] = "published" => PathOf(w) \in public'
    <3>1. writer[PathOf(w)].delivery = d
      BY <2>2, <2>3, WriterFacts DEF DeliveryOf
    <3> QED
      BY <1>0, <1>5, <2>3, <2>4, <3>1 DEF Alone
  <2> QED
    BY <1>4, <2>2, <2>3, <2>4, <2>5, <2>6
<1>10. Recovering(d)'
  <2>1. CASE recovery'[d] = recovery[d] /\ recovery[d] # Idle
    <3>1. writer[recovery[d].path].delivery = d
      BY <2>1 DEF Owned, RowsOwn, Known, DeliveryOf
    <3>2. \A w \in Writers : Busy(w) => writer[w].delivery # d
      BY <1>3, <2>1 DEF Fit, Committing, DeliveryOf
    <3>3. recovery[d].path \in public => recovery[d].path \in public'
      BY <1>0, <1>5, <3>1, <3>2
    <3> QED
      BY <1>3, <1>4, <2>1, <3>3 DEF Fit, Recovering
  <2>2. CASE recovery'[d] = Idle
    BY <2>2 DEF Recovering
  <2>3. CASE /\ row[d] # "complete"
             /\ recovery'[d] = [at |-> "start", path |-> prepared[d]]
    BY <1>4, <2>3 DEF Recovering
  <2> QED
    BY <2>1, <2>2, <2>3 DEF Receding
<1>11. Asked(d)'
  BY <1>3, <1>4 DEF Fit, Asked
<1>12. Waiting(d)'
  <2>1. SUFFICES ASSUME NEW s \in suspended', s.delivery = d
                 PROVE  /\ row'[d] # "complete"
                        /\ s.kind = "offer" => held'[d] = "no" /\ task'[table'] = "idle"
    BY DEF Waiting
  <2>2. CASE s.kind # "offer" /\ row[s.delivery] # "complete"
    BY <1>4, <2>1, <2>2
  <2>3. CASE s \in suspended /\ (s.kind = "offer" => table' = table)
    <3>1. s.kind = "offer" => table \in 1..made
      BY <2>3 DEF Alone, Joined, Asking, Owned, OffersOwn
    <3>2. row[d] # "complete" /\ (s.kind = "offer" => held[d] = "no" /\ task[table] = "idle")
      BY <1>3, <2>1, <2>3 DEF Fit, Waiting
    <3>3. s.kind = "offer" => task'[table] = "idle"
      BY <3>1, <3>2 DEF Receding
    <3> QED
      BY <1>4, <2>3, <3>2, <3>3
  <2> QED
    BY <2>1, <2>2, <2>3 DEF Receding
<1> QED
  BY <1>6, <1>8, <1>9, <1>10, <1>11, <1>12 DEF Fit

\* One row in flight moves.
LEMMA SetRowRecedes ==
    ASSUME Shape, NEW d \in Deliveries, NEW s \in Statuses \ {"complete"},
           SetRow(d, s), row[d] # "complete"
    PROVE  /\ UNCHANGED <<prepared, evidence>>
           /\ \A e \in Deliveries :
                 row'[e] = row[e] \/ (row[e] # "complete" /\ row'[e] # "complete")
BY DEF SetRow, Shape, TypeOK, RowsTyped

\* The writer in the table is marked as before.
LEMMA AbidesStill ==
    ASSUME NEW d, held'[d] \in {held[d], "no"}, due' => due,
           writer'[table].wanted => writer[table].wanted,
           \/ held'[d] = "no"
           \/ Accepting(d) \in suspended => Accepting(d) \in suspended'
    PROVE  Abides(d)
BY DEF Abides

\* The handlers that leave the table alone.
LEMMA HandlerRecedes ==
    ASSUME Shape, ~Overlap, Alone, Settled, NEW d \in Deliveries,
           \/ Stall(d) \/ OfferReplay(d) \/ OfferRecover(d)
           \/ AcceptMarks(d) \/ Decline(d)
           \/ \E m \in Modes : OfferRefused(d, m)
    PROVE  Receding
<1>0. UNCHANGED <<tableVars, task, due, public, prepared, evidence>>
  BY DEF Stall, OfferReplay, OfferRecover, AcceptMarks, Decline, OfferRefused,
         SetRow
<1>1. Grown /\ Fit(d)
  BY <1>0, StillGrown DEF Settled
<1>a. table # 0 => DeliveryOf(table) \in Deliveries
  BY Numbers, WriterFacts DEF Shape, TypeOK, TableTyped
<1>2. CASE Stall(d) \/ \E m \in Modes : OfferRefused(d, m)
  <2>1. UNCHANGED <<row, confirmed, held, recovery, suspended>>
    BY <1>2 DEF Stall, OfferRefused
  <2> QED
    BY <1>0, <1>1, <2>1, AbidesStill DEF Receding
<1>3. CASE OfferReplay(d)
  <2>1. /\ UNCHANGED <<row, held, recovery, suspended>>
        /\ \A e \in confirmed' : e \in confirmed \/ row[e] = "complete"
    BY <1>3 DEF OfferReplay
  <2> QED
    BY <1>0, <1>1, <2>1, AbidesStill DEF Receding
<1>4. CASE OfferRecover(d)
  <2>1. /\ UNCHANGED <<row, held, confirmed, suspended>>
        /\ row[d] # "complete" /\ prepared[d] # 0 /\ MayOffer
    BY <1>4 DEF OfferRecover
  <2>2. \A w \in Writers : ~Busy(w)
    BY <2>1, SerialAlone
  <2>3. /\ recovery'[d] = [at |-> "start", path |-> prepared[d]]
        /\ \A e \in Deliveries : e # d => recovery'[e] = recovery[e]
    BY <1>4 DEF OfferRecover, Shape, TypeOK, MemoryTyped
  <2>4. \A e \in Deliveries :
          \/ recovery'[e] \in {recovery[e], Idle}
          \/ /\ row[e] # "complete" /\ prepared[e] # 0
             /\ \A w \in Writers : ~Busy(w)
             /\ recovery'[e] = [at |-> "start", path |-> prepared[e]]
    BY <2>1, <2>2, <2>3
  <2> QED
    BY <1>0, <1>1, <2>1, <2>4, AbidesStill DEF Receding
<1>5. CASE AcceptMarks(d)
  <2>1. /\ Accepting(d) \in suspended
        /\ suspended' \subseteq suspended
        /\ held' = [held EXCEPT ![d] = "no"] /\ SetRow(d, "active")
        /\ UNCHANGED <<confirmed, recovery>>
    BY <1>5 DEF AcceptMarks, Accepting
  <2>2. row[d] # "complete"
    BY <1>1, <2>1 DEF Fit, Waiting, Accepting
  <2>3. \A e \in Deliveries :
           row'[e] = row[e] \/ (row[e] # "complete" /\ row'[e] # "complete")
    BY <2>1, <2>2, SetRowRecedes DEF Statuses
  <2>4. \A e \in Deliveries : /\ held'[e] \in {held[e], "no"}
                              /\ e = d => held'[e] = "no"
    BY <2>1 DEF Shape, TypeOK, MemoryTyped
  <2>5. \A e \in Deliveries : e # d => Accepting(e) \notin suspended
    <3>1. \A e : Accepting(e).delivery = e
      BY DEF Accepting
    <3> QED
      BY <2>1, <3>1 DEF Alone
  <2>6. table # 0 => Abides(DeliveryOf(table))
    BY <1>0, <1>a, <2>4, <2>5, AbidesStill
  <2> QED
    BY <1>0, <1>1, <2>1, <2>3, <2>4, <2>6 DEF Receding
<1>6. CASE Decline(d)
  <2>1. /\ suspended' = suspended \cup {[kind |-> "decline", delivery |-> d]}
        /\ held' = [held EXCEPT ![d] = "no"] /\ held[d] = "held"
        /\ UNCHANGED <<row, confirmed, recovery>>
    BY <1>6 DEF Decline
  <2>2. row[d] # "complete"
    BY <1>1, <2>1 DEF Fit, Asked
  <2>3. \A e \in Deliveries : held'[e] \in {held[e], "no"}
    BY <2>1 DEF Shape, TypeOK, MemoryTyped
  <2>4. \A s \in suspended' : \/ s \in suspended
                              \/ s.kind # "offer" /\ row[s.delivery] # "complete"
    BY <2>1, <2>2
  <2>5. table # 0 => Abides(DeliveryOf(table))
    BY <1>0, <1>a, <2>1, <2>3, AbidesStill
  <2> QED
    BY <1>0, <1>1, <2>1, <2>3, <2>4, <2>5 DEF Receding
<1> QED
  BY <1>2, <1>3, <1>4, <1>5, <1>6

\* A retry that is refused, and an accept-all, leave them alone too.
LEMMA RefusedRecedes ==
    ASSUME Shape, Settled,
           AllowPeer \/ \E d \in Deliveries, m \in Modes : RetryRefused(d, m)
    PROVE  Receding
<1>0. UNCHANGED <<table, made, open, task, due, public, row, prepared, evidence,
                  confirmed, held, recovery, suspended>>
  BY DEF RetryRefused, AllowPeer
<1>1. /\ Grown
      /\ \A v \in 1..made : /\ writer'[v].finalizing = writer[v].finalizing
                            /\ writer'[v].wanted = writer[v].wanted
  <2>1. CASE AllowPeer
    BY <2>1, StillGrown DEF AllowPeer
  <2>2. CASE \E d \in Deliveries, m \in Modes : RetryRefused(d, m)
    <3>1. PICK d \in Deliveries, m \in Modes : RetryRefused(d, m)
      BY <2>2
    <3>2. Admissible(d) /\ InSessionRetry(d, m)
      BY <3>1 DEF RetryRefused
    <3>3. PICK W \in Retried(m) : writer' = [writer EXCEPT ![table] = W]
      BY <3>1 DEF RetryRefused
    <3>4. /\ W.delivery = writer[table].delivery
          /\ W.path = writer[table].path /\ W.mode = writer[table].mode
          /\ W.granted = writer[table].granted /\ W.wanted = writer[table].wanted
          /\ W.finalizing = writer[table].finalizing
      BY <3>2, <3>3, RetriedFields
    <3>5. table \in 1..made /\ writer \in [1..made -> WriterFields]
      BY <3>2, RetryTable DEF Shape, TypeOK, TableTyped
    <3>6. writer'[table] = W /\ \A v \in 1..made : v # table => writer'[v] = writer[v]
      BY <3>3, <3>5
    <3> QED
      BY <1>0, <3>4, <3>5, <3>6, Numbers DEF Grown, Shape
  <2> QED
    BY <2>1, <2>2
<1>2. table # 0 => Abides(DeliveryOf(table))
  <2>1. table # 0 => table \in 1..made
    BY Numbers DEF Shape, TypeOK, TableTyped
  <2> QED
    BY <1>0, <1>1, <2>1, AbidesStill
<1> QED
  BY <1>0, <1>1, <1>2 DEF Receding

\* An answer that met no writer of another delivery.
LEMMA NothingLent ==
    ASSUME borrowed' = {}, NEW d, Lends(d), table # 0
    PROVE  DeliveryOf(table) = d
BY DEF Lends

\* A handler that waits until its answer is out.
LEMMA AcceptingFields ==
    ASSUME NEW d
    PROVE  Accepting(d).kind = "accept" /\ Accepting(d).delivery = d
BY DEF Accepting

\* The answers that ask for the content.
LEMMA AskingRecedes ==
    ASSUME Shape, ~Overlap, Alone, Settled, borrowed' = {}, UNCHANGED scenario,
           NEW d \in Deliveries,
           \/ \E all \in BOOLEAN : Accept(d, all)
           \/ OfferAccepted(d)
           \/ \E s \in suspended : s.delivery = d /\ AcceptResumes(s)
    PROVE  Receding
<1>0. Fit(d) /\ (table # 0 => table \in 1..made)
  BY Numbers DEF Settled, Shape, TypeOK, TableTyped
<1>1. /\ UNCHANGED <<table, made, open, task, public, recovery, confirmed>>
      /\ Lends(d)
  BY DEF Accept, OfferAccepted, AcceptResumes
<1>2. table # 0 => DeliveryOf(table) = d
  BY <1>1, NothingLent
<1>3. CASE OfferAccepted(d)
  <2>1. /\ UNCHANGED <<prepared, evidence, row, held>>
        /\ Reply(d, writer, suspended) /\ held[d] = "accepted"
        /\ row[d] # "complete"
    BY <1>3 DEF OfferAccepted, Fresh
  <2>2. Handed(writer)
    BY DEF Handed, Shape, TypeOK, TableTyped
  <2>3. /\ Grown
        /\ \A v \in 1..made : /\ writer'[v].finalizing = writer[v].finalizing
                              /\ writer'[v].granted = writer[v].granted
    BY <1>1, <2>1, <2>2, ReplyEffect
  <2>4. suspended' = suspended \cup {Accepting(d)}
    BY <2>1 DEF Reply, Accepting
  <2>5. \A s \in suspended' : \/ s \in suspended
                              \/ s.kind # "offer" /\ row[s.delivery] # "complete"
    BY <2>1, <2>4, AcceptingFields
  <2>6. table # 0 => writer[table].granted
    BY <1>0, <1>2, <2>1 DEF Fit, Receiving
  <2>7. table # 0 => Abides(d)
    BY <1>0, <2>1, <2>3, <2>4, <2>6 DEF Abides
  <2> QED
    BY <1>1, <1>2, <2>1, <2>3, <2>5, <2>7 DEF Receding
<1>4. ASSUME NEW all \in BOOLEAN, Accept(d, all) PROVE Receding
  <2>1. held[d] # "no" /\ held' = [held EXCEPT ![d] = "accepted"] /\ suspended = {}
    BY <1>4, SerialAlone DEF Accept
  <2>2. row[d] # "complete"
    BY <1>0, <2>1 DEF Fit, Asked
  <2>3. \A e \in Deliveries : held[e] = "no" => held'[e] = "no"
    BY <2>1 DEF Shape, TypeOK, MemoryTyped
  <2>4. /\ Grown
        /\ \A v \in 1..made : writer'[v].finalizing = writer[v].finalizing
        /\ suspended' \subseteq {Accepting(d)} \cup {a \in {Assist(d)} : table # 0}
        /\ UNCHANGED <<prepared, evidence>>
        /\ \A e \in Deliveries : row'[e] = row[e] \/ (e = d /\ row'[e] = "paused")
    BY <1>4, <2>1, AcceptEffect DEF Accepting
  <2>5. AsksIn(d) /\ (table \in 1..made => writer'[table].granted)
    BY <1>4, AcceptGrants
  <2>6. table # 0 => Assist(d).kind = "assist" /\ Assist(d).delivery = d
    BY AssistTyped
  <2>7. \A s \in suspended' : s.kind # "offer" /\ row[s.delivery] # "complete"
    BY <2>2, <2>4, <2>6, AcceptingFields
  <2>8. table # 0 => Abides(d)
    BY <1>0, <2>1, <2>5 DEF Abides, AsksIn
  <2>9. \A e \in Deliveries :
           row'[e] = row[e] \/ (row[e] # "complete" /\ row'[e] # "complete")
    BY <2>2, <2>4
  <2> QED
    BY <1>1, <1>2, <2>3, <2>4, <2>7, <2>8, <2>9 DEF Receding
<1>5. ASSUME NEW s \in suspended, s.delivery = d, AcceptResumes(s) PROVE Receding
  <2>1. /\ s.kind = "assist" /\ Grown
        /\ \A v \in 1..made : /\ writer'[v].finalizing = writer[v].finalizing
                              /\ writer'[v].granted = writer[v].granted
        /\ suspended' \subseteq (suspended \ {s}) \cup {Accepting(d)}
        /\ UNCHANGED <<prepared, evidence>>
        /\ \A e \in Deliveries : row'[e] = row[e] \/ (e = d /\ row'[e] = "paused")
    BY <1>5, AcceptResumesEffect DEF Accepting
  <2>2. row[d] # "complete"
    BY <1>0, <1>5 DEF Fit, Waiting
  <2>3. suspended' \subseteq {Accepting(d)} /\ Accepting(d) \notin suspended
    BY <2>1, AcceptingFields DEF Alone
  <2>4. \A u \in suspended' : u.kind # "offer" /\ row[u.delivery] # "complete"
    BY <2>2, <2>3, AcceptingFields
  <2>5. AsksIn(d) /\ UNCHANGED held
    BY <1>5, AcceptResumesAsks DEF AcceptResumes
  <2>6. s.writer = table /\ writer[s.writer].granted
    BY <1>5, <2>1 DEF Alone, Joined, Asking
  <2>7. table # 0 => Abides(d)
    BY <1>0, <2>1, <2>3, <2>5, <2>6 DEF Abides, AsksIn
  <2>8. \A e \in Deliveries :
           row'[e] = row[e] \/ (row[e] # "complete" /\ row'[e] # "complete")
    BY <2>1, <2>2
  <2> QED
    BY <1>1, <1>2, <2>1, <2>4, <2>5, <2>7, <2>8 DEF Receding
<1> QED
  BY <1>3, <1>4, <1>5

\* A writer in the table, or one that commits, is of no complete delivery.
LEMMA WriterIncomplete ==
    ASSUME Shape, Settled, NEW w \in 1..made, w = table \/ Busy(w)
    PROVE  DeliveryOf(w) \in Deliveries /\ row[DeliveryOf(w)] # "complete"
<1>1. DeliveryOf(w) \in Deliveries /\ w \in Writers /\ w # 0
  BY WriterFacts, Numbers DEF Shape
<1>2. Fit(DeliveryOf(w))
  BY <1>1 DEF Settled
<1> QED
  BY <1>1, <1>2 DEF Fit, Receiving, Committing

\* Giving a writer up.
LEMMA AbortRecedes ==
    ASSUME Shape, Settled, NEW w \in 1..made, w = table \/ Busy(w),
           AbortIncoming(w, "failed"),
           UNCHANGED <<made, held, recovery, confirmed, suspended>>, suspended = {},
           Grown,
           \A v \in 1..made :
               /\ task'[v] \in {task[v], "idle"}
               /\ task'[v] # "idle" => writer'[v].finalizing = writer[v].finalizing
    PROVE  Receding
<1>1. /\ table' = 0 /\ open' \subseteq open /\ SetRow(DeliveryOf(w), "failed")
      /\ \/ public' = public
         \/ task[w] = "unrecorded" /\ public' = public \ {PathOf(w)}
  BY DEF AbortIncoming
<1>2. DeliveryOf(w) \in Deliveries /\ row[DeliveryOf(w)] # "complete"
  BY WriterIncomplete
<1>3. /\ UNCHANGED <<prepared, evidence>>
      /\ \A e \in Deliveries :
            row'[e] = row[e] \/ (row[e] # "complete" /\ row'[e] # "complete")
  BY <1>1, <1>2, SetRowRecedes DEF Statuses
<1> QED
  BY <1>1, <1>3 DEF Receding

\* Abort, decline, reaper and restart.
LEMMA GivingUpRecedes ==
    ASSUME Shape, ~Overlap, Alone, Settled,
           Abort \/ Restart \/ \E d \in Deliveries : Reap(d) \/ DeclineAborts(d)
    PROVE  Receding
<1>0. UNCHANGED <<made, writer>>
  BY DEF Abort, Restart, Reap, DeclineAborts
<1>1. Grown /\ (table # 0 => table \in 1..made)
  BY <1>0, StillGrown, Numbers DEF Shape, TypeOK, TableTyped
<1>2. CASE Abort
  <2>1. /\ AbortIncoming(table, "failed") /\ table # 0 /\ Serial
        /\ UNCHANGED <<task, held, recovery, confirmed, suspended>>
    BY <1>2 DEF Abort
  <2>2. suspended = {} /\ table \in 1..made
    BY <1>1, <2>1, SerialAlone
  <2> QED
    BY <1>0, <1>1, <2>1, <2>2, AbortRecedes
<1>3. CASE Restart
  <2>1. /\ table' = 0 /\ open' = {} /\ suspended' = {}
        /\ UNCHANGED <<public, prepared, evidence, confirmed>>
        /\ \A w \in Writers : task'[w] = "idle"
        /\ \A d \in Deliveries : /\ held'[d] = "no" /\ recovery'[d] = Idle
                                 /\ row'[d] = row[d]
                                    \/ (row[d] # "complete" /\ row'[d] # "complete")
    BY <1>3 DEF Restart
  <2>2. 1..made \subseteq Writers
    BY Numbers DEF Shape
  <2> QED
    BY <1>0, <1>1, <2>1, <2>2 DEF Receding
<1>4. ASSUME NEW d \in Deliveries, Reap(d) PROVE Receding
  <2>1. /\ Serial /\ SetRow(d, "paused") /\ row[d] # "complete"
        /\ UNCHANGED <<task, suspended, due, recovery, confirmed>>
    BY <1>4 DEF Reap
  <2>2. /\ UNCHANGED <<prepared, evidence>>
        /\ \A e \in Deliveries :
              row'[e] = row[e] \/ (row[e] # "complete" /\ row'[e] # "complete")
    BY <2>1, SetRowRecedes DEF Statuses
  <2>3. suspended' = {}
    BY <2>1, SerialAlone
  <2>4. CASE table = 0
    <3>1. UNCHANGED <<table, open, held, public>>
      BY <1>4, <2>4 DEF Reap
    <3> QED
      BY <1>0, <1>1, <2>1, <2>2, <2>3, <2>4, <3>1 DEF Receding
  <2>5. CASE table # 0
    <3>1. Park(table, writer[table].granted)
      BY <1>4, <2>5 DEF Reap
    <3>2. /\ table' = 0 /\ open' \subseteq open /\ public' = public
          /\ held' = [held EXCEPT ![DeliveryOf(table)] = "no"]
      BY <3>1 DEF Park
    <3>3. \A e \in Deliveries : held'[e] \in {held[e], "no"}
      BY <3>2 DEF Shape, TypeOK, MemoryTyped
    <3> QED
      BY <1>0, <1>1, <2>1, <2>2, <2>3, <3>2, <3>3 DEF Receding
  <2> QED
    BY <2>4, <2>5
<1>5. ASSUME NEW d \in Deliveries, DeclineAborts(d) PROVE Receding
  <2>1. /\ [kind |-> "decline", delivery |-> d] \in suspended
        /\ suspended' \subseteq suspended
        /\ suspended' = suspended \ {[kind |-> "decline", delivery |-> d]}
        /\ UNCHANGED <<task, due, recovery, held, confirmed, public>>
    BY <1>5 DEF DeclineAborts
  <2>2. suspended' = {}
    BY <2>1 DEF Alone
  <2>3. row[d] # "complete"
    BY <2>1 DEF Settled, Fit, Waiting
  <2>4. CASE table = 0
    <3>1. SetRow(d, "failed") /\ UNCHANGED <<table, open>>
      BY <1>5, <2>4 DEF DeclineAborts
    <3>2. /\ UNCHANGED <<prepared, evidence>>
          /\ \A e \in Deliveries :
                row'[e] = row[e] \/ (row[e] # "complete" /\ row'[e] # "complete")
      BY <2>3, <3>1, SetRowRecedes DEF Statuses
    <3> QED
      BY <1>0, <1>1, <2>1, <2>2, <2>4, <3>1, <3>2 DEF Receding
  <2>5. CASE table # 0
    <3>1. row[DeliveryOf(table)] # "complete"
      BY <1>1, <2>5, WriterIncomplete
    <3>2. /\ table' = 0 /\ open' \subseteq open
          /\ row' = [e \in Deliveries |->
                IF e \in {d, DeliveryOf(table)} THEN "failed" ELSE row[e]]
          /\ UNCHANGED <<prepared, evidence>>
      BY <1>5, <2>5 DEF DeclineAborts
    <3>3. \A e \in Deliveries :
             row'[e] = row[e] \/ (row[e] # "complete" /\ row'[e] # "complete")
      BY <2>3, <3>1, <3>2
    <3> QED
      BY <1>0, <1>1, <2>1, <2>2, <3>2, <3>3 DEF Receding
  <2> QED
    BY <2>4, <2>5
<1> QED
  BY <1>2, <1>3, <1>4, <1>5

\* An offer that could not be recorded.
LEMMA ParkingRecedes ==
    ASSUME Shape, ~Overlap, Alone, Settled,
           \/ \E d \in Deliveries, m \in Modes : RetryUnrecorded(d, m)
           \/ \E s \in suspended : ResumeUnrecorded(s)
    PROVE  Receding
<1>1. /\ Grown /\ UNCHANGED <<made, task>>
      /\ \A v \in 1..made : writer'[v].finalizing = writer[v].finalizing
  BY ParkingEffect
<1>2. /\ UNCHANGED <<due, recovery, rowVars, confirmed>>
      /\ suspended' = {}
      /\ \E g : Park(table, g)
  <2>1. ASSUME NEW d \in Deliveries, NEW m \in Modes, RetryUnrecorded(d, m)
        PROVE  /\ UNCHANGED <<due, recovery, rowVars, confirmed>>
               /\ suspended' = {}
               /\ \E g : Park(table, g)
    <3>1. MayOffer /\ UNCHANGED <<due, recovery, rowVars, confirmed, suspended>>
      BY <2>1 DEF RetryUnrecorded
    <3>2. Park(table, writer[table].granted \/ Waived)
      BY <2>1 DEF RetryUnrecorded
    <3> QED
      BY <3>1, <3>2, SerialAlone
  <2>2. ASSUME NEW s \in suspended, ResumeUnrecorded(s)
        PROVE  /\ UNCHANGED <<due, recovery, rowVars, confirmed>>
               /\ suspended' = {}
               /\ \E g : Park(table, g)
    <3>1. s.kind = "offer" /\ suspended' = suspended \ {s}
      BY <2>2 DEF ResumeUnrecorded
    <3>2. table \in 1..made /\ suspended' = {}
      BY <3>1 DEF Alone, Joined, Asking, Shape, Owned, OffersOwn
    <3>3. table # 0
      BY <3>2, Numbers DEF Shape
    <3> QED
      BY <2>2, <3>2, <3>3 DEF ResumeUnrecorded
  <2> QED
    BY <2>1, <2>2
<1>3. /\ table' = 0 /\ open' \subseteq open /\ public' = public
      /\ held' = [held EXCEPT ![DeliveryOf(table)] = "no"]
  BY <1>2 DEF Park
<1>4. \A e \in Deliveries : held'[e] \in {held[e], "no"}
  BY <1>3 DEF Shape, TypeOK, MemoryTyped
<1> QED
  BY <1>1, <1>2, <1>3, <1>4 DEF Receding

\* A commit that raised, or went back to receiving.
LEMMA FailingRecedes ==
    ASSUME Shape, ~Overlap, Alone, Settled, NEW w \in 1..made,
           FinishFails(w) \/ CacheMiss(w)
    PROVE  Receding
<1>0. /\ Busy(w) /\ Serial /\ UNCHANGED <<made, held, recovery, confirmed, suspended, due>>
      /\ At(w, "idle")
  BY DEF FinishFails, CacheMiss, Busy
<1>1. suspended = {}
  BY <1>0, SerialAlone
<1>2. task'[w] = "idle" /\ \A v \in 1..made : v # w => task'[v] = task[v]
  BY <1>0, Numbers DEF At, Shape, TypeOK, MemoryTyped
<1>3. writer \in [1..made -> WriterFields]
  BY DEF Shape, TypeOK, TableTyped
<1>4. CASE FinishFails(w)
  <2>1. Grown
    BY <1>0, <1>4, FinalizingSet DEF FinishFails
  <2>2. \A v \in 1..made : v # w => writer'[v].finalizing = writer[v].finalizing
    BY <1>3, <1>4 DEF FinishFails
  <2>3. CASE AbortIncoming(w, "failed")
    BY <1>0, <1>1, <1>2, <2>1, <2>2, <2>3, AbortRecedes
  <2>4. CASE ~AbortIncoming(w, "failed")
    <3>1. /\ table' = 0 /\ UNCHANGED open /\ SetRow(DeliveryOf(w), "failed")
          /\ \/ public' = public
             \/ task[w] = "unrecorded" /\ public' = public \ {PathOf(w)}
      BY <1>4, <2>4 DEF FinishFails
    <3>2. DeliveryOf(w) \in Deliveries /\ row[DeliveryOf(w)] # "complete"
      BY <1>0, WriterIncomplete
    <3>3. /\ UNCHANGED <<prepared, evidence>>
          /\ \A e \in Deliveries :
                row'[e] = row[e] \/ (row[e] # "complete" /\ row'[e] # "complete")
      BY <3>1, <3>2, SetRowRecedes DEF Statuses
    <3> QED
      BY <1>0, <1>1, <1>2, <2>1, <2>2, <3>1, <3>3 DEF Receding
  <2> QED
    BY <2>3, <2>4
<1>5. CASE CacheMiss(w)
  <2>1. \A v \in 1..made :
           /\ writer'[v].delivery = writer[v].delivery
           /\ writer'[v].path = writer[v].path
           /\ writer'[v].mode = writer[v].mode
           /\ writer'[v].granted = writer[v].granted
           /\ writer'[v].wanted = writer[v].wanted
           /\ v # w => writer'[v].finalizing = writer[v].finalizing
    <3>1. PICK n : writer' = [writer EXCEPT ![w].finalizing = FALSE, ![w].missing = n]
      BY <1>5 DEF CacheMiss
    <3>2. \A v \in 1..made : v # w => writer'[v] = writer[v]
      BY <1>3, <3>1
    <3>3. writer[w] \in WriterFields
      BY <1>3
    <3>4. writer'[w] = [writer[w] EXCEPT !.finalizing = FALSE, !.missing = n]
      BY <1>3, <3>1
    <3>5. /\ writer'[w].delivery = writer[w].delivery
          /\ writer'[w].path = writer[w].path
          /\ writer'[w].mode = writer[w].mode
          /\ writer'[w].granted = writer[w].granted
          /\ writer'[w].wanted = writer[w].wanted
      BY ONLY <3>3, <3>4 DEF WriterFields
    <3> QED
      BY <3>2, <3>5
  <2>2. Grown
    BY <1>0, <2>1, Numbers DEF Grown, Shape
  <2>3. /\ UNCHANGED <<table, open, public>> /\ SetRow(DeliveryOf(w), "paused")
        /\ task[w] = "assemble"
    BY <1>5 DEF CacheMiss
  <2>4. DeliveryOf(w) \in Deliveries /\ row[DeliveryOf(w)] # "complete"
    BY <1>0, WriterIncomplete
  <2>5. /\ UNCHANGED <<prepared, evidence>>
        /\ \A e \in Deliveries :
              row'[e] = row[e] \/ (row[e] # "complete" /\ row'[e] # "complete")
    BY <2>3, <2>4, SetRowRecedes DEF Statuses
  <2>6. table # 0 => table \in 1..made
    BY Numbers DEF Shape, TypeOK, TableTyped
  <2> QED
    BY <1>0, <1>1, <1>2, <2>1, <2>2, <2>3, <2>5, <2>6, AbidesStill DEF Receding
<1> QED
  BY <1>4, <1>5

\* A step of the commit of w touches the delivery of w only.
Working(w) ==
    /\ Grown /\ made' = made
    /\ UNCHANGED <<held, recovery, suspended>>
    /\ table' = table \/ (table' = 0 /\ suspended = {})
    /\ open' \subseteq open
    /\ \A v \in 1..made :
          /\ writer'[v].wanted = writer[v].wanted
          /\ v # w => /\ task'[v] = task[v]
                      /\ writer'[v].finalizing = writer[v].finalizing
    /\ \A d \in Deliveries \ {DeliveryOf(w)} :
          /\ d \in confirmed' => d \in confirmed
          /\ row'[d] = row[d] /\ prepared'[d] = prepared[d]
          /\ evidence'[d] = evidence[d]
    /\ public' \subseteq public \cup {PathOf(w)}
    /\ public \subseteq public' \cup {PathOf(w)}

\* Where the commit of w stands.
Onward(w) ==
    /\ row[DeliveryOf(w)] # "complete"
    /\ task[w] \in Early \/ w \in open => prepared[DeliveryOf(w)] = 0
    /\ task[w] \notin {"assemble", "failed"} => w \notin open
    /\ task[w] \in Late => prepared[DeliveryOf(w)] = PathOf(w)
    /\ task[w] = "published" => PathOf(w) \in public
    /\ writer[w].mode = "cdc" => writer[w].finalizing

\* A commit that went on, or is recorded.
LEMMA WorkingFits ==
    ASSUME Shape, Shape', Alone, Settled, NEW w \in 1..made, Working(w),
           Busy(w) \/ (w = table /\ suspended = {}),
           NEW e \in Deliveries, e = DeliveryOf(w), held[e] = "no", Stored(e)',
           \/ task'[w] # "idle" /\ Onward(w)'
           \/ task'[w] = "idle" /\ table' = 0 /\ suspended = {}
    PROVE  Settled'
<1> USE DEF Shape
<1>0. /\ public \subseteq 1..made /\ w \in Writers /\ w # 0
      /\ \A v \in Writers : task'[v] # "idle" => v \in 1..made
      /\ table # 0 => table \in 1..made
      /\ 1..made \subseteq Writers
  BY Numbers DEF Owned, FilesOwn, TypeOK, TableTyped, Working
<1>2. writer[w].delivery = e /\ writer[PathOf(w)].delivery = e /\ DeliveryOf(w)' = e
  BY WriterFacts DEF DeliveryOf, Working, Grown
<1>3. Fit(e)
  BY DEF Settled
<1>4. /\ recovery[e] = Idle /\ held[e] = "no"
      /\ table \in {0, w}
      /\ \A v \in Writers : Busy(v) => v = w
      /\ \A s \in suspended : s.kind # "offer"
  <2>1. CASE Busy(w)
    <3>1. recovery[e] = Idle /\ held[e] = "no" /\ table \in {0, w}
      BY <1>0, <1>3, <2>1 DEF Fit, Committing, Alone
    <3>2. ASSUME NEW s \in suspended, s.kind = "offer" PROVE FALSE
      <4>1. s.writer = table /\ table \in 1..made /\ s.delivery = writer[table].delivery
        BY <3>2 DEF Alone, Joined, Asking, Owned, OffersOwn, DeliveryOf
      <4>2. table = w
        BY <1>0, <3>1, <4>1, Numbers
      <4> QED
        BY <1>2, <1>3, <2>1, <3>2, <4>1, <4>2 DEF Fit, Waiting, Busy
    <3> QED
      BY <1>0, <2>1, <3>1, <3>2 DEF Alone
  <2>2. CASE w = table /\ suspended = {}
    BY <1>0, <1>3, <2>2 DEF Fit, Receiving, Alone
  <2> QED
    BY <2>1, <2>2
<1>5. ASSUME NEW d \in Deliveries \ {e} PROVE Fit(d)'
  <2>1. Untouched(d)
    <3>1. \A v \in 1..made' : task'[v] # "idle" /\ writer'[v].delivery = d =>
             /\ v \in 1..made /\ task'[v] = task[v] /\ (v \in open' => v \in open)
             /\ writer'[v].finalizing = writer[v].finalizing
      BY <1>2 DEF Working, Grown
    <3>2. /\ \A p \in public' : p \in 1..made /\ (writer[p].delivery = d => p \in public)
          /\ \A p \in public : writer[p].delivery = d => p \in public'
      BY <1>0, <1>2, WriterFacts DEF Working
    <3>3. table' # 0 => writer'[table'].delivery # d
      BY <1>2, <1>4 DEF Working, Grown
    <3>4. \A s \in suspended' : s.delivery = d =>
             s \in suspended /\ (s.kind = "offer" => table' = table)
      BY DEF Working
    <3>6. suspended' = suspended
      BY DEF Working
    <3>5. /\ d \in confirmed' => d \in confirmed
          /\ row'[d] = row[d] /\ prepared'[d] = prepared[d]
          /\ evidence'[d] = evidence[d]
          /\ recovery'[d] = recovery[d] /\ held'[d] \in {held[d], "no"}
      BY DEF Working
    <3> QED
      BY <3>1, <3>2, <3>3, <3>4, <3>5, <3>6 DEF Untouched
  <2> QED
    BY <2>1, UntouchedFits DEF Settled, Working
<1>6. Fit(e)'
  <2>0. UNCHANGED <<held, recovery, suspended>>
    BY DEF Working
  <2>2. Recovering(e)' /\ Asked(e)'
    BY <1>4, <2>0 DEF Recovering, Asked
  <2>3. CASE task'[w] # "idle" /\ Onward(w)'
    <3>1. row'[e] # "complete"
      BY <1>2, <2>3 DEF Onward
    <3>2. table' \in {0, w}
      BY <1>4 DEF Working
    <3>7. table' = w => (writer'[w].wanted => writer'[w].granted)
      <4>1. table' = w => table = w
        BY <1>0 DEF Working
      <4>2. table = w => (writer[w].wanted => writer[w].granted)
        BY <1>0, <1>2, <1>3 DEF Fit, Receiving, DeliveryOf
      <4> QED
        BY <4>1, <4>2 DEF Working, Grown
    <3>3. Receiving(e)'
      BY <1>4, <2>0, <2>3, <3>1, <3>2, <3>7 DEF Receiving
    <3>4. \A v \in Writers : Busy(v)' => v = w
      BY <1>0, <1>4 DEF Busy, Working
    <3>5. Committing(e)'
      BY <1>2, <1>4, <2>0, <2>3, <3>4 DEF Committing, Onward
    <3>6. Waiting(e)'
      BY <1>4, <2>0, <3>1 DEF Waiting
    <3> QED
      BY <2>2, <3>3, <3>5, <3>6 DEF Fit
  <2>4. CASE task'[w] = "idle" /\ table' = 0 /\ suspended = {}
    <3>1. \A v \in Writers : ~Busy(v)'
      BY <1>0, <1>4, <2>4 DEF Busy, Working
    <3> QED
      BY <2>0, <2>2, <2>4, <3>1 DEF Fit, Receiving, Committing, Waiting
  <2> QED
    BY <2>3, <2>4
<1> QED
  BY <1>5, <1>6 DEF Settled

\* Where a commit in progress stands.
LEMMA BusyStands ==
    ASSUME Shape, Settled, NEW w \in 1..made, Busy(w)
    PROVE  /\ Onward(w) /\ held[DeliveryOf(w)] = "no"
           /\ \A p \in public : DeliveryOf(p) = DeliveryOf(w) =>
                 p = prepared[DeliveryOf(w)]
           /\ DeliveryOf(w) \notin confirmed
<1>1. DeliveryOf(w) \in Deliveries /\ w \in Writers
  BY WriterFacts, Numbers DEF Shape
<1>2. Fit(DeliveryOf(w))
  BY <1>1 DEF Settled
<1> QED
  BY <1>1, <1>2 DEF Fit, Committing, Stored, Onward

\* The steps of a commit.
LEMMA CommitFits ==
    ASSUME Shape, Shape', ~Overlap, Alone, Settled, NEW w \in 1..made,
           \/ Assemble(w) \/ Verify(w) \/ Prepare(w) \/ Link(w) \/ Unlink(w)
           \/ Record(w)
    PROVE  Settled'
<1> USE DEF Shape
<1>0. /\ UNCHANGED <<made, held, suspended, recovery>> /\ open' \subseteq open
      /\ \E s \in TaskSteps : At(w, s)
      /\ Busy(w)
  BY DEF Assemble, Verify, Prepare, Link, Unlink, Record, Busy, TaskSteps
<1>1. \A v \in 1..made : v # w => task'[v] = task[v]
  BY <1>0, Numbers DEF At, TypeOK, MemoryTyped
<1>2. \A s : At(w, s) => task'[w] = s
  BY Numbers DEF At, TypeOK, MemoryTyped
<1>3. PICK e \in Deliveries : e = DeliveryOf(w)
  BY WriterFacts
<1>4. PICK q \in 1..made : q = PathOf(w)
  BY WriterFacts
<1>5. /\ row[e] # "complete" /\ e \notin confirmed /\ held[e] = "no"
      /\ task[w] \in Early \/ w \in open => prepared[e] = 0
      /\ task[w] \notin {"assemble", "failed"} => w \notin open
      /\ task[w] \in Late => prepared[e] = q
      /\ task[w] = "published" => q \in public
      /\ writer[w].mode = "cdc" => writer[w].finalizing
      /\ \A p \in public : writer[p].delivery = e => p = prepared[e]
      /\ writer[q].delivery = e
  BY <1>0, <1>3, <1>4, BusyStands, WriterFacts DEF Onward, DeliveryOf
<1>6. ASSUME UNCHANGED <<table, writer>>
      PROVE  /\ Grown /\ DeliveryOf(w)' = e /\ PathOf(w)' = q
             /\ \A v \in 1..made : writer'[v] = writer[v]
  BY <1>0, <1>3, <1>4, <1>6, StillGrown DEF DeliveryOf, PathOf
<1>7. CASE Assemble(w) \/ Verify(w)
  <2>1. UNCHANGED <<table, writer, public, row, prepared, evidence, confirmed>>
    BY <1>7 DEF Assemble, Verify
  <2>2. Working(w)
    BY <1>0, <1>1, <1>6, <2>1 DEF Working
  <2>3. Stored(e)'
    BY <1>5, <2>1 DEF Stored, DeliveryOf
  <2>4. /\ task'[w] \in {"verify", "verified", "failed"} /\ prepared[e] = 0
        /\ task'[w] # "failed" => w \notin open'
    BY <1>2, <1>5, <1>7 DEF Assemble, Verify, Early
  <2>5. Onward(w)'
    BY <1>5, <1>6, <2>1, <2>4 DEF Onward, Late
  <2> QED
    BY <1>0, <1>3, <1>5, <2>2, <2>3, <2>4, <2>5, WorkingFits
<1>8. CASE Prepare(w)
  <2>1. /\ UNCHANGED <<table, writer, open, public, evidence, confirmed>>
        /\ task[w] = "verified"
        /\ \/ /\ row' = [row EXCEPT ![e] = "active"]
              /\ prepared' = [prepared EXCEPT ![e] = q]
              /\ At(w, "publish")
           \/ At(w, "failed") /\ UNCHANGED <<row, prepared>>
    BY <1>3, <1>4, <1>8 DEF Prepare
  <2>2. /\ \A d \in Deliveries \ {e} : row'[d] = row[d] /\ prepared'[d] = prepared[d]
        /\ row'[e] # "complete"
        /\ \/ prepared'[e] = q /\ task'[w] = "publish"
           \/ prepared'[e] = prepared[e] /\ task'[w] = "failed"
    BY <1>2, <1>5, <2>1 DEF TypeOK, RowsTyped
  <2>3. prepared[e] = 0 /\ w \notin open'
    BY <1>5, <2>1 DEF Early
  <2>4. Working(w)
    BY <1>0, <1>1, <1>3, <1>6, <2>1, <2>2 DEF Working
  <2>5. \A p \in public : writer[p].delivery # e
    <3>1. 0 \notin public
      BY Numbers DEF Owned, FilesOwn
    <3> QED
      BY <1>5, <2>3, <3>1
  <2>6. Stored(e)'
    BY <1>5, <2>1, <2>2, <2>5 DEF Stored, DeliveryOf
  <2>7. Onward(w)'
    BY <1>5, <1>6, <2>1, <2>2, <2>3 DEF Onward, Early, Late
  <2>8. task'[w] # "idle"
    BY <2>2
  <2> QED
    BY <1>0, <1>3, <1>5, <2>4, <2>6, <2>7, <2>8, WorkingFits
<1>9. CASE Link(w) \/ Unlink(w)
  <2>1. /\ UNCHANGED <<table, writer, open, row, prepared, evidence, confirmed>>
        /\ task[w] \in {"publish", "linked"}
        /\ public' \subseteq public \cup {q} /\ public \subseteq public' \cup {q}
        /\ \/ At(w, "failed") \/ At(w, "linked")
           \/ At(w, "published") /\ q \in public'
    BY <1>4, <1>9 DEF Link, Unlink
  <2>2. /\ task'[w] \in {"failed", "linked", "published"}
        /\ task'[w] = "published" => q \in public'
    BY <1>2, <2>1
  <2>3. prepared[e] = q /\ w \notin open
    BY <1>5, <2>1 DEF Late
  <2>4. Working(w)
    BY <1>0, <1>1, <1>4, <1>6, <2>1 DEF Working
  <2>5. Stored(e)'
    BY <1>5, <2>1, <2>3 DEF Stored, DeliveryOf
  <2>6. Onward(w)'
    BY <1>5, <1>6, <2>1, <2>2, <2>3 DEF Onward, Early, Late
  <2>7. task'[w] # "idle"
    BY <2>2
  <2> QED
    BY <1>0, <1>3, <1>5, <2>4, <2>5, <2>6, <2>7, WorkingFits
<1>10. CASE Record(w)
  <2>0. suspended = {} /\ task[w] = "published" /\ UNCHANGED <<open, public>>
    BY <1>10, SerialAlone DEF Record
  <2>1. CASE At(w, "unrecorded")
    <3>1. UNCHANGED <<table, writer, row, prepared, evidence, confirmed>>
      <4>1. ~At(w, "idle")
        BY <1>2, <2>1
      <4> QED
        BY <1>10, <4>1 DEF Record
    <3>2. Working(w)
      BY <1>0, <1>1, <1>6, <2>0, <3>1 DEF Working
    <3>3. Stored(e)'
      BY <1>5, <2>0, <3>1 DEF Stored, DeliveryOf
    <3>4. task'[w] = "unrecorded"
      BY <1>2, <2>1
    <3>5. Onward(w)'
      BY <1>5, <1>6, <2>0, <3>1, <3>4 DEF Onward, Early, Late
    <3> QED
      BY <1>0, <1>3, <1>5, <3>2, <3>3, <3>4, <3>5, WorkingFits
  <2>2. CASE At(w, "idle")
    <3>1. /\ Recorded(e, q) /\ table' = 0
          /\ writer' = [writer EXCEPT ![w].finalizing = FALSE]
      <4>1. ~At(w, "unrecorded")
        BY <1>2, <2>2
      <4> QED
        BY <1>3, <1>4, <1>10, <4>1 DEF Record
    <3>2. Grown
      BY <1>0, <3>1, FinalizingSet
    <3>3. \A v \in 1..made : writer'[v].wanted = writer[v].wanted
      BY <3>1, FinalizingAsks
    <3>4. \A v \in 1..made : v # w => writer'[v].finalizing = writer[v].finalizing
      BY <3>1 DEF TypeOK, TableTyped
    <3>5. /\ row'[e] = "complete" /\ evidence'[e] = q
          /\ confirmed' = confirmed \cup {e}
          /\ \A d \in Deliveries \ {e} :
                /\ row'[d] = row[d] /\ prepared'[d] = prepared[d]
                /\ evidence'[d] = evidence[d]
      BY <3>1, RecordedEffect
    <3>6. Working(w)
      BY <1>0, <1>1, <1>3, <2>0, <3>1, <3>2, <3>3, <3>4, <3>5 DEF Working
    <3>7. prepared[e] = q /\ q \in public
      BY <1>5, <2>0 DEF Late
    <3>8. Stored(e)'
      <4>1. \A p \in public : writer'[p].delivery = writer[p].delivery
        BY <3>2 DEF Grown, Owned, FilesOwn
      <4> QED
        BY <1>5, <2>0, <3>5, <3>7, <4>1 DEF Stored, DeliveryOf
    <3>9. task'[w] = "idle"
      BY <1>2, <2>2
    <3> QED
      BY <1>0, <1>3, <1>5, <2>0, <3>1, <3>6, <3>8, <3>9, WorkingFits
  <2> QED
    BY <1>10, <2>1, <2>2 DEF Record
<1> QED
  BY <1>7, <1>8, <1>9, <1>10

\* The start of a commit.
LEMMA StartFits ==
    ASSUME Shape, Shape', ~Overlap, Alone, Settled, FinishStart
    PROVE  Settled'
<1> USE DEF Shape
<1>0. /\ suspended = {} /\ due /\ ~due'
      /\ UNCHANGED <<table, made, open, held, suspended, recovery, public, row,
                     prepared, evidence, confirmed>>
  BY SerialAlone DEF FinishStart
<1>1. CASE UNCHANGED <<writer, task>>
  <2>1. Grown
    BY <1>0, <1>1, StillGrown
  <2>2. Receding
    BY <1>0, <1>1, <2>1, AbidesStill DEF Receding
  <2> QED
    BY <2>2, RecedingFits
<1>2. CASE /\ table # 0 /\ writer[table].mode = "cdc" /\ ~writer[table].finalizing
           /\ writer' = [writer EXCEPT ![table].finalizing = TRUE]
           /\ At(table, "assemble")
  <2>1. table \in 1..made /\ table \in Writers
    BY <1>2, Numbers DEF TypeOK, TableTyped
  <2>2. PICK e \in Deliveries : e = DeliveryOf(table)
    BY <2>1, WriterFacts
  <2>3. task[table] = "idle"
    BY <1>2, <2>1, BusyStands DEF Onward, Busy
  <2>4. row[e] # "complete" /\ prepared[e] = 0 /\ held[e] = "no"
    BY <1>0, <1>2, <2>2, <2>3 DEF Settled, Fit, Receiving
  <2>5. Grown
    BY <1>0, <1>2, <2>1, FinalizingSet
  <2>6. \A v \in 1..made : writer'[v].wanted = writer[v].wanted
    BY <1>2, <2>1, FinalizingAsks
  <2>7. \A v \in 1..made : v # table => writer'[v].finalizing = writer[v].finalizing
    BY <1>2 DEF TypeOK, TableTyped
  <2>8. /\ task'[table] = "assemble"
        /\ \A v \in 1..made : v # table => task'[v] = task[v]
    BY <1>2, <2>1, Numbers DEF At, TypeOK, MemoryTyped
  <2>9. Working(table)
    BY <1>0, <2>5, <2>6, <2>7, <2>8 DEF Working
  <2>10. Stored(e)'
    <3>1. \A p \in public : writer'[p].delivery = writer[p].delivery
      BY <2>5 DEF Grown, Owned, FilesOwn
    <3> QED
      BY <1>0, <3>1 DEF Settled, Fit, Stored, DeliveryOf
  <2>11. writer'[table].finalizing /\ DeliveryOf(table)' = e
    <3>1. writer[table] \in WriterFields
      BY <2>1 DEF TypeOK, TableTyped
    <3>2. writer'[table] = [writer[table] EXCEPT !.finalizing = TRUE]
      BY <1>2, <2>1 DEF TypeOK, TableTyped
    <3>3. writer'[table].finalizing
      BY <3>1, <3>2 DEF WriterFields
    <3>4. table' = table
      BY <1>0
    <3> QED
      BY <2>1, <2>2, <2>5, <3>3, <3>4 DEF Grown, DeliveryOf
  <2>12. PICK w \in 1..made : w = table
    BY <2>1
  <2>13. Onward(w)'
    <3>1. DeliveryOf(w)' = e /\ writer'[w].finalizing /\ task'[w] = "assemble"
      BY <1>0, <2>8, <2>11, <2>12 DEF DeliveryOf
    <3> QED
      BY <1>0, <2>4, <3>1 DEF Onward, Early, Late
  <2>14. task'[w] # "idle" /\ Working(w)
    BY <2>8, <2>9, <2>12
  <2> QED
    BY <1>0, <2>2, <2>4, <2>10, <2>12, <2>13, <2>14, WorkingFits
<1> QED
  BY <1>1, <1>2 DEF FinishStart

\* Chunks.
LEMMA ChunkFits ==
    ASSUME Shape, Shape', ~Overlap, Alone, Settled, Chunk
    PROVE  Settled'
<1> USE DEF Shape
<1>0. /\ suspended = {} /\ writer[table].wanted /\ table # 0
      /\ UNCHANGED <<made, held, suspended, recovery, confirmed>>
  BY SerialAlone DEF Chunk
<1>1. PICK w \in 1..made : w = table
  BY <1>0, Numbers DEF TypeOK, TableTyped
<1>2. PICK e \in Deliveries : e = DeliveryOf(w)
  BY WriterFacts
<1>3. /\ row[e] # "complete" /\ held[e] = "no" /\ w \in Writers
      /\ task[w] = "idle" => prepared[e] = 0
  BY <1>0, <1>1, <1>2, Numbers DEF Settled, Fit, Receiving
<1>4. CASE StreamChunk(table)
  <2>1. /\ UNCHANGED <<table, writer, due, public>> /\ SetRow(e, "active")
        /\ open' \subseteq open /\ task[w] = "idle"
        /\ writer[w].mode = "stream"
        /\ \/ UNCHANGED task
           \/ task' = [task EXCEPT ![w] = "verify"] /\ open' = open \ {w}
    BY <1>1, <1>2, <1>4 DEF StreamChunk
  <2>2. /\ UNCHANGED <<prepared, evidence>>
        /\ \A d \in Deliveries :
              row'[d] = row[d] \/ (row[d] # "complete" /\ row'[d] # "complete")
    BY <1>3, <2>1, SetRowRecedes DEF Statuses
  <2>3. Grown
    BY <1>0, <2>1, StillGrown
  <2>4. CASE UNCHANGED task
    <3>1. Receding
      BY <1>0, <2>1, <2>2, <2>3, <2>4, AbidesStill DEF Receding
    <3> QED
      BY <3>1, RecedingFits
  <2>5. CASE task' = [task EXCEPT ![w] = "verify"] /\ open' = open \ {w}
    <3>1. task'[w] = "verify" /\ \A v \in 1..made : v # w => task'[v] = task[v]
      BY <1>3, <2>5, Numbers DEF TypeOK, MemoryTyped
    <3>2. /\ \A d \in Deliveries \ {e} : row'[d] = row[d]
          /\ row'[e] # "complete"
      BY <2>1 DEF SetRow, TypeOK, RowsTyped
    <3>3. Working(w)
      BY <1>0, <1>2, <2>1, <2>2, <2>3, <3>1, <3>2 DEF Working
    <3>4. Stored(e)'
      BY <1>0, <1>3, <2>1, <2>2, <3>2 DEF Settled, Fit, Stored, DeliveryOf
    <3>5. Onward(w)'
      <4>1. DeliveryOf(w)' = e
        BY <1>2, <2>1 DEF DeliveryOf
      <4> QED
        BY <1>3, <2>1, <2>2, <2>5, <3>1, <3>2, <4>1 DEF Onward, Early, Late
    <3>6. task'[w] # "idle"
      BY <3>1
    <3> QED
      BY <1>0, <1>1, <1>2, <1>3, <3>3, <3>4, <3>5, <3>6, WorkingFits
  <2> QED
    BY <2>1, <2>4, <2>5
<1>5. CASE CdcChunk(table) /\ table \notin open
  <2>1. AbortIncoming(w, "failed") /\ UNCHANGED <<task, writer>>
    BY <1>1, <1>5 DEF CdcChunk
  <2>2. Grown
    BY <1>0, <2>1, StillGrown
  <2>3. Receding
    BY <1>0, <1>1, <2>1, <2>2, AbortRecedes
  <2> QED
    BY <2>3, RecedingFits
<1>6. CASE CdcChunk(table) /\ table \in open
  <2>1. /\ writer' = [writer EXCEPT ![w].missing = @ - 1]
        /\ UNCHANGED <<table, open, task, public>>
        /\ \/ UNCHANGED <<due, row, prepared, evidence>>
           \/ /\ row' = [row EXCEPT ![e] = "active"]
              /\ prepared' = [prepared EXCEPT ![e] = 0]
              /\ evidence' = [evidence EXCEPT ![e] = 0]
    BY <1>1, <1>2, <1>6 DEF CdcChunk
  <2>2. writer \in [1..made -> WriterFields]
    BY DEF TypeOK, TableTyped
  <2>3. \A v \in 1..made :
           /\ writer'[v].delivery = writer[v].delivery
           /\ writer'[v].path = writer[v].path
           /\ writer'[v].mode = writer[v].mode
           /\ writer'[v].granted = writer[v].granted
           /\ writer'[v].wanted = writer[v].wanted
           /\ writer'[v].finalizing = writer[v].finalizing
    BY <2>1, <2>2 DEF WriterFields
  <2>4. Grown
    BY <1>0, <2>3, Numbers DEF Grown
  <2>5. prepared[e] = 0
    <3>1. Busy(w) => Onward(w)
      BY BusyStands
    <3> QED
      BY <1>1, <1>2, <1>3, <1>6, <3>1 DEF Busy, Onward
  <2>6. \A d \in Deliveries :
          /\ prepared'[d] = prepared[d]
          /\ row[d] = "complete" => evidence'[d] = evidence[d]
          /\ row'[d] = row[d] \/ (row[d] # "complete" /\ row'[d] # "complete")
    BY <1>3, <2>1, <2>5 DEF TypeOK, RowsTyped
  <2>7. Abides(DeliveryOf(table))
    BY <1>0, <1>1, <1>2, <1>3, <2>3 DEF Abides
  <2>8. Receding
    BY <1>0, <2>1, <2>3, <2>4, <2>6, <2>7 DEF Receding
  <2> QED
    BY <2>8, RecedingFits
<1> QED
  BY <1>4, <1>5, <1>6 DEF Chunk

\* The answer of the swarm.
LEMMA ResumesFits ==
    ASSUME Shape, Shape', Alone, Settled, NEW s \in suspended, OfferResumes(s)
    PROVE  Settled'
<1> USE Numbers DEF Shape
<1>1. /\ UNCHANGED <<table, made, open, task, public, recovery, confirmed>>
      /\ s.kind = "offer" /\ suspended' \subseteq suspended
  BY DEF OfferResumes
<1>2. /\ s.writer = table /\ table \in 1..made /\ writer[table].granted
      /\ DeliveryOf(table) = s.delivery /\ table # 0
  BY <1>1 DEF Alone, Joined, Asking, Owned, OffersOwn
<1>3. PICK e \in Deliveries : e = s.delivery
  BY <1>2, WriterFacts
<1>4. row[e] # "complete" /\ held[e] = "no" /\ prepared[e] = 0
  BY <1>1, <1>2, <1>3 DEF Settled, Fit, Waiting, Receiving
<1>a. PICK missing \in 0..s.missing, answer \in {"ask", "hold", "error"} :
         Resumed(s, missing, answer)
  BY ResumesEffect
<1>5. /\ OfferTail(s.delivery, writer[s.writer], missing, sidecar, answer)
      /\ writer' = [v \in 1..made |->
            IF v = table
            THEN [writer[v] EXCEPT !.missing = missing,
                                   !.wanted = @ \/ answer = "ask"]
            ELSE writer[v]]
      /\ answer # "hold"
  BY <1>2, <1>a DEF Resumed
<1>6. /\ row' = [row EXCEPT ![e] = "offered"]
      /\ prepared' = [prepared EXCEPT ![e] = 0]
      /\ evidence' = [evidence EXCEPT ![e] = 0]
      /\ held' = held
  BY <1>2, <1>3, <1>5 DEF OfferTail
<1>7. \A d \in Deliveries :
        /\ prepared'[d] = prepared[d]
        /\ row[d] = "complete" => evidence'[d] = evidence[d]
        /\ row'[d] = row[d] \/ (row[d] # "complete" /\ row'[d] # "complete")
  BY <1>4, <1>6 DEF TypeOK, RowsTyped
<1>8. writer \in [1..made -> WriterFields]
  BY DEF TypeOK, TableTyped
<1>9. \A v \in 1..made : v # table => writer'[v] = writer[v]
  BY <1>5
<1>10. /\ writer'[table].delivery = writer[table].delivery
       /\ writer'[table].path = writer[table].path
       /\ writer'[table].mode = writer[table].mode
       /\ writer'[table].granted = writer[table].granted
       /\ writer'[table].finalizing = writer[table].finalizing
  BY <1>2, <1>5, <1>8 DEF WriterFields
<1>11. Grown /\ \A v \in 1..made : writer'[v].finalizing = writer[v].finalizing
  BY <1>1, <1>9, <1>10 DEF Grown
<1>12. Abides(DeliveryOf(table))
  BY <1>2, <1>3, <1>4, <1>6, <1>10 DEF Abides
<1>13. Receding
  BY <1>1, <1>6, <1>7, <1>11, <1>12 DEF Receding
<1> QED
  BY <1>13, RecedingFits

\* What an offer that goes on writes: its own row, and the hold only if
\* nothing is asked for.
LEMMA OfferHolds ==
    ASSUME Shape, NEW d \in Deliveries, NEW w \in 1..made', NEW W \in WriterFields,
           NEW sc, OfferContinues(w, d, W, sc),
           W.wanted => W.granted,
           ~due, held[d] = "no", row[d] # "complete", prepared[d] = 0
    PROVE  /\ \A e \in Deliveries \ {d} :
                 /\ row'[e] = row[e] /\ prepared'[e] = prepared[e]
                 /\ evidence'[e] = evidence[e] /\ held'[e] = held[e]
           /\ row'[d] # "complete" /\ prepared'[d] = 0
           /\ held'[d] # "no" => ~writer'[w].wanted /\ ~due'
           /\ held'[d] # "accepted"
           /\ suspended' = suspended \/ held'[d] = "no"
<1> USE DEF Shape
<1>1. CASE W.mode = "cdc" /\ W.missing > 0 /\ W.granted /\ Swarm
  <2>1. UNCHANGED <<rowVars, held, due>>
    BY <1>1 DEF OfferContinues
  <2> QED
    BY <2>1
<1>2. CASE ~(W.mode = "cdc" /\ W.missing > 0 /\ W.granted /\ Swarm)
  <2> DEFINE V == [W EXCEPT !.wanted = @ \/ W.granted]
  <2>1. writer' = [v \in 1..made' |-> IF v = w THEN V ELSE writer[v]]
    BY <1>2 DEF OfferContinues
  <2>2. /\ OfferTail(d, W, W.missing, sc, IF W.granted THEN "ask" ELSE "hold")
        /\ UNCHANGED suspended
    BY <1>2 DEF OfferContinues
  <2>3. V.wanted => W.granted
    BY DEF WriterFields
  <2> HIDE DEF V
  <2>4. writer'[w] = V
    BY <2>1
  <2>5. /\ \A e \in Deliveries \ {d} :
              /\ row'[e] = row[e] /\ prepared'[e] = prepared[e]
              /\ evidence'[e] = evidence[e]
        /\ row'[d] # "complete" /\ prepared'[d] = 0
    BY <2>2 DEF OfferTail, TypeOK, RowsTyped
  <2>6. /\ \A e \in Deliveries \ {d} : held'[e] = held[e]
        /\ held'[d] # "no" => ~W.granted /\ held'[d] = "held"
    BY <2>2 DEF OfferTail, TypeOK, MemoryTyped
  <2>7. ~W.granted => ~due'
    BY <2>2 DEF OfferTail
  <2> QED
    BY <2>2, <2>3, <2>4, <2>5, <2>6, <2>7
<1> QED
  BY <1>1, <1>2

\* An offer that goes on.
LEMMA OfferFits ==
    ASSUME Shape, Shape', Alone, ~Overlap, Settled, MayOffer,
           NEW d \in Deliveries, Admissible(d),
           NEW w \in 1..made', NEW W \in WriterFields, W.delivery = d, NEW sc,
           made' = made \/ (made' = made + 1 /\ w = made + 1),
           w \in 1..made => writer[w].delivery = d,
           OfferContinues(w, d, W, sc),
           W.wanted => W.granted,
           table' = w, UNCHANGED <<task, recovery, public, confirmed>>
    PROVE  Settled'
<1> USE DEF Shape
<1>0. /\ \A v \in Writers : task[v] = "idle"
      /\ \A e \in Deliveries : recovery[e] = Idle
      /\ ~due /\ suspended = {}
  BY SerialAlone DEF Busy
<1>1. held[d] = "no" /\ row[d] # "complete" /\ prepared[d] = 0
  BY DEF Admissible, Fresh
<1>2. /\ \A e \in Deliveries \ {d} :
            /\ row'[e] = row[e] /\ prepared'[e] = prepared[e]
            /\ evidence'[e] = evidence[e] /\ held'[e] = held[e]
      /\ row'[d] # "complete" /\ prepared'[d] = 0
      /\ held'[d] # "no" => ~writer'[w].wanted /\ ~due'
      /\ held'[d] # "accepted"
      /\ suspended' = suspended \/ held'[d] = "no"
  BY <1>0, <1>1, OfferHolds
<1>3. /\ \A v \in 1..made : v # w => writer'[v] = writer[v]
      /\ Alike(writer'[w], W) /\ (writer'[w].wanted => W.wanted \/ W.granted)
      /\ \/ suspended' = suspended
         \/ suspended' = suspended \cup
                {[kind |-> "offer", delivery |-> d, writer |-> w,
                  missing |-> W.missing]}
  BY OfferEffect
<1>4. writer'[w].delivery = d /\ (writer'[w].wanted => writer'[w].granted)
  BY <1>3 DEF Alike
<1>5. /\ \A s \in suspended' : s.delivery = d
      /\ suspended' # suspended => held'[d] = "no"
  BY <1>0, <1>2, <1>3
<1>6. /\ public \subseteq 1..made /\ 1..made' \subseteq Writers
      /\ \A v \in Writers : task'[v] = "idle"
      /\ \A p \in public : writer[p].delivery # d
  <2>1. 0 \notin public /\ public \subseteq 1..made
    BY Numbers DEF Owned, FilesOwn
  <2>2. 1..made' \subseteq Writers
    <3>1. made' \in 0..MaxWriters
      BY DEF TypeOK, TableTyped
    <3> QED
      BY <3>1, Numbers DEF Writers
  <2> QED
    BY <1>0, <1>1, <2>1, <2>2 DEF Settled, Fit, Stored, DeliveryOf
<1>7. \A v \in 1..made : writer'[v].delivery = writer[v].delivery
  BY <1>3, <1>4
<1>8. ASSUME NEW e \in Deliveries \ {d} PROVE Fit(e)'
  <2>1. Stored(e)'
    <3>1. \A p \in public' : p \in public /\ writer'[p].delivery = writer[p].delivery
      BY <1>6, <1>7
    <3> QED
      BY <1>2, <3>1 DEF Settled, Fit, Stored, DeliveryOf
  <2>2. Receiving(e)' /\ Committing(e)'
    BY <1>4, <1>6 DEF Receiving, Committing, Busy, DeliveryOf
  <2>3. Recovering(e)' /\ Asked(e)' /\ Waiting(e)'
    BY <1>0, <1>2, <1>5 DEF Recovering, Settled, Fit, Asked, Waiting
  <2> QED
    BY <2>1, <2>2, <2>3 DEF Fit
<1>9. Fit(d)'
  <2>1. Stored(d)'
    <3>1. \A p \in public' : writer'[p].delivery # d
      BY <1>6, <1>7
    <3>2. d \notin confirmed'
      BY <1>1 DEF Settled, Fit, Stored
    <3> QED
      BY <1>2, <3>1, <3>2 DEF Stored, DeliveryOf
  <2>2. Receiving(d)'
    BY <1>0, <1>2, <1>4 DEF Receiving
  <2>3. Committing(d)' /\ Recovering(d)'
    BY <1>0, <1>6 DEF Committing, Busy, Recovering
  <2>4. Asked(d)'
    BY <1>2 DEF Asked
  <2>5. Waiting(d)'
    BY <1>0, <1>2, <1>5, <1>6 DEF Waiting
  <2> QED
    BY <2>1, <2>2, <2>3, <2>4, <2>5 DEF Fit
<1> QED
  BY <1>8, <1>9 DEF Settled

\* The offers that go on with a writer, or could not be recorded.
LEMMA GoOnFits ==
    ASSUME Shape, Shape', Alone, ~Overlap, Settled,
           NEW d \in Deliveries, NEW m \in Modes,
           OfferRetry(d, m) \/ OfferNew(d, m) \/ OfferUnrecorded(d, m)
    PROVE  Settled'
<1>1. CASE OfferRetry(d, m)
  <2>1. table \in 1..made /\ DeliveryOf(table) = d
    BY <1>1, RetryOffers
  <2>2. PICK W \in WriterFields :
           /\ W.delivery = d /\ W.path = writer[table].path
           /\ W.granted = (writer[table].granted \/ Waived)
           /\ W.wanted = writer[table].wanted
           /\ OfferContinues(table, d, W, sidecar)
    BY <1>1, RetryOffers
  <2>3. /\ made' = made /\ table' = table /\ MayOffer /\ Admissible(d)
        /\ UNCHANGED <<task, recovery, public, confirmed>>
    BY <1>1 DEF OfferRetry
  <2>4. W.wanted => W.granted
    <3>1. table # 0
      BY <2>1, Numbers DEF Shape
    <3> QED
      BY <2>1, <2>2, <3>1 DEF Settled, Fit, Receiving
  <2>5. table \in 1..made' /\ writer[table].delivery = d
    BY <2>1, <2>3 DEF DeliveryOf
  <2> QED
    BY <2>2, <2>3, <2>4, <2>5, OfferFits
<1>2. CASE OfferNew(d, m)
  <2>1. /\ Admissible(d) /\ made < MaxWriters /\ made' = made + 1
        /\ made + 1 \in 1..made'
    BY <1>2, NewOffers
  <2>2. PICK W \in WriterFields :
           /\ W.delivery = d /\ W.path = NewPath(m)
           /\ W.granted = Granted(m) /\ W.wanted = FALSE
           /\ OfferContinues(made + 1, d, W, KeptSidecar(m))
    BY <1>2, NewOffers
  <2>3. /\ table' = made + 1 /\ MayOffer
        /\ UNCHANGED <<task, recovery, public, confirmed>>
    BY <1>2 DEF OfferNew
  <2>4. made + 1 \notin 1..made
    BY Numbers DEF Shape
  <2> QED
    BY <2>1, <2>2, <2>3, <2>4, OfferFits
<1>3. CASE OfferUnrecorded(d, m)
  <2>1. /\ table' = 0 /\ made' = made + 1 /\ MayOffer
        /\ UNCHANGED <<task, held, suspended, recovery, public, rowVars, confirmed>>
    BY <1>3 DEF OfferUnrecorded
  <2>2. /\ \A v \in Writers : task[v] = "idle"
        /\ suspended = {}
    BY <2>1, SerialAlone DEF Busy
  <2>3. /\ made + 1 \in 1..made' /\ made + 1 \notin 1..made
        /\ 1..made \subseteq 1..made' /\ 1..made' \subseteq Writers
    <3>1. made' \in 0..MaxWriters
      BY DEF Shape, TypeOK, TableTyped
    <3> QED
      BY <2>1, <3>1, Numbers DEF Shape, Writers
  <2>4. \A v \in 1..made : writer'[v] = writer[v]
    BY <1>3, <2>3 DEF OfferUnrecorded
  <2>5. Grown
    BY <2>1, <2>4, Numbers DEF Grown, Shape
  <2>6. public \subseteq 1..made
    BY DEF Shape, Owned, FilesOwn
  <2>7. ASSUME NEW e \in Deliveries PROVE Fit(e)'
    <3>1. Untouched(e)
      BY <2>1, <2>2, <2>3, <2>6 DEF Untouched
    <3> QED
      BY <2>5, <3>1, UntouchedFits DEF Settled
  <2> QED
    BY <2>7 DEF Settled
<1> QED
  BY <1>1, <1>2, <1>3

\* What was borrowed is not forgotten.
LEMMA BorrowedStays ==
    ASSUME Shape, Next
    PROVE  borrowed \subseteq borrowed'
<1>1. CASE Abort \/ Chunk \/ FinishStart \/ Restart \/ AllowPeer
  BY <1>1, LoopDiscreet DEF Discreet
<1>2. ASSUME NEW w \in 1..made, Commit(w) PROVE borrowed \subseteq borrowed'
  BY <1>2, CommitDiscreet DEF Discreet
<1>3. ASSUME NEW d \in scenario.offered,
             Stall(d) \/ Reap(d) \/ Offer(d) \/ Consent(d) \/ Recover(d)
      PROVE  borrowed \subseteq borrowed'
  <2>0. d \in Deliveries
    BY Numbers DEF Shape
  <2>1. CASE \/ Stall(d) \/ OfferReplay(d) \/ OfferRecover(d) \/ AcceptMarks(d)
             \/ Decline(d) \/ DeclineAborts(d)
             \/ \E m \in Modes : OfferRefused(d, m) \/ RetryRefused(d, m)
    BY <2>0, <2>1, HandlerDiscreet DEF Discreet
  <2>2. CASE Recover(d)
    BY <2>0, <2>2, RecoverDiscreet DEF Discreet
  <2>3. CASE Reap(d)
    BY <2>3 DEF Reap
  <2>4. ASSUME NEW all \in BOOLEAN, Accept(d, all) PROVE borrowed \subseteq borrowed'
    <3>1. Lends(d)
      BY <2>4 DEF Accept
    <3> QED
      BY <3>1 DEF Lends
  <2>5. CASE OfferAccepted(d)
    <3>1. Lends(d)
      BY <2>5 DEF OfferAccepted
    <3> QED
      BY <3>1 DEF Lends
  <2>6. ASSUME NEW m \in Modes,
               \/ OfferRetry(d, m) \/ OfferNew(d, m)
               \/ RetryUnrecorded(d, m) \/ OfferUnrecorded(d, m)
        PROVE  borrowed \subseteq borrowed'
    BY <2>6 DEF OfferRetry, OfferNew, RetryUnrecorded, OfferUnrecorded, Noted
  <2>7. ASSUME NEW s \in suspended, OfferResumes(s) \/ AcceptResumes(s)
        PROVE  borrowed \subseteq borrowed'
    <3>1. Lends(s.delivery)
      BY <2>7 DEF OfferResumes, AcceptResumes
    <3> QED
      BY <3>1 DEF Lends
  <2>8. ASSUME NEW s \in suspended, ResumeUnrecorded(s)
        PROVE  borrowed \subseteq borrowed'
    BY <2>8 DEF ResumeUnrecorded
  <2> QED
    BY <1>3, <2>1, <2>2, <2>3, <2>4, <2>5, <2>6, <2>7, <2>8 DEF Offer, Consent
<1> QED
  BY <1>1, <1>2, <1>3 DEF Next

\* Every step of an orderly receiver keeps receipts and files together.
LEMMA FitStep ==
    ASSUME Shape, AloneInv, FitInv, [Next]_vars
    PROVE  FitInv'
<1>0. Shape'
  BY ShapeStep
<1>1. CASE UNCHANGED vars
  BY <1>1 DEF vars, FitInv, Settled, Fit, Stored, Receiving, Committing, Recovering,
         Asked, Waiting, Orderly, Overlap, Busy, DeliveryOf, PathOf
<1>2. CASE Next
  <2>0. UNCHANGED scenario
    BY <1>2 DEF Next
  <2>1. borrowed \subseteq borrowed'
    BY <1>2, BorrowedStays
  <2>2. SUFFICES ASSUME ~Overlap, borrowed' = {} PROVE Settled'
    BY <2>0 DEF FitInv, Orderly, Overlap
  <2>3. Alone /\ Settled /\ (Serial => suspended = {})
    BY <2>1, <2>2, SerialAlone DEF AloneInv, FitInv, Orderly
  <2>4. CASE Abort \/ Restart
    BY <1>0, <2>2, <2>3, <2>4, GivingUpRecedes, RecedingFits
  <2>5. CASE Chunk \/ FinishStart
    BY <1>0, <2>2, <2>3, <2>5, ChunkFits, StartFits
  <2>8. CASE AllowPeer
    BY <1>0, <2>3, <2>8, RefusedRecedes, RecedingFits
  <2>6. ASSUME NEW w \in 1..made, Commit(w) PROVE Settled'
    <3>1. CASE FinishFails(w) \/ CacheMiss(w)
      BY <1>0, <2>2, <2>3, <3>1, FailingRecedes, RecedingFits
    <3>2. CASE \/ Assemble(w) \/ Verify(w) \/ Prepare(w) \/ Link(w) \/ Unlink(w)
               \/ Record(w)
      BY <1>0, <2>2, <2>3, <3>2, CommitFits
    <3> QED
      BY <2>6, <3>1, <3>2 DEF Commit
  <2>7. ASSUME NEW d \in scenario.offered,
               Stall(d) \/ Reap(d) \/ Offer(d) \/ Consent(d) \/ Recover(d)
        PROVE  Settled'
    <3>0. d \in Deliveries
      BY Numbers DEF Shape
    <3>1. CASE \/ Stall(d) \/ OfferReplay(d) \/ OfferRecover(d)
               \/ AcceptMarks(d) \/ Decline(d)
               \/ \E m \in Modes : OfferRefused(d, m)
      BY <1>0, <2>2, <2>3, <3>0, <3>1, HandlerRecedes, RecedingFits
    <3>2. CASE Reap(d) \/ DeclineAborts(d)
      BY <1>0, <2>2, <2>3, <3>0, <3>2, GivingUpRecedes, RecedingFits
    <3>3. CASE \/ \E all \in BOOLEAN : Accept(d, all)
               \/ OfferAccepted(d)
               \/ \E s \in suspended : s.delivery = d /\ AcceptResumes(s)
      BY <1>0, <2>0, <2>2, <2>3, <3>0, <3>3, AskingRecedes, RecedingFits
    <3>4. CASE Recover(d)
      BY <1>0, <2>3, <3>0, <3>4, RecoverFits
    <3>5. ASSUME NEW m \in Modes,
                 OfferRetry(d, m) \/ OfferNew(d, m) \/ OfferUnrecorded(d, m)
          PROVE  Settled'
      BY <1>0, <2>2, <2>3, <3>0, <3>5, GoOnFits
    <3>6. ASSUME NEW s \in suspended, OfferResumes(s) PROVE Settled'
      BY <1>0, <2>3, <3>6, ResumesFits
    <3>7. CASE \/ \E m \in Modes : RetryUnrecorded(d, m)
               \/ \E s \in suspended : ResumeUnrecorded(s)
      BY <1>0, <2>2, <2>3, <3>0, <3>7, ParkingRecedes, RecedingFits
    <3>8. CASE \E m \in Modes : RetryRefused(d, m)
      BY <1>0, <2>3, <3>0, <3>8, RefusedRecedes, RecedingFits
    <3> QED
      BY <2>7, <3>1, <3>2, <3>3, <3>4, <3>5, <3>6, <3>7, <3>8 DEF Offer, Consent
  <2> QED
    BY <1>2, <2>4, <2>5, <2>6, <2>7, <2>8 DEF Next
<1> QED
  BY <1>1, <1>2

\* The whole invariant is one of the specification.
LEMMA ReceiveInvariant == Spec => [](Shape /\ AloneInv /\ FitInv)
<1>1. Init => AloneInv
  BY DEF Init, AloneInv, Alone, ReservationsMatch, Busy
<1>2. Init => FitInv
  BY DEF Init, FitInv, Settled, Fit, Stored, Receiving, Committing, Recovering,
         Asked, Waiting, Busy
<1>3. Shape /\ AloneInv /\ FitInv /\ [Next]_vars => Shape' /\ AloneInv' /\ FitInv'
  BY ShapeStep, AloneStep, FitStep
<1> QED
  BY <1>1, <1>2, <1>3, ShapeInit, PTL DEF Spec

\* A receipt is honest: while handlers of one content do not overlap and no
\* answer met another delivery's writer, what was confirmed to the sender is
\* complete in the ledger and on disk under its public name, whatever was
\* aborted, parked, recovered or restarted before and after.
THEOREM ReceiptsHold == Spec => []ReceiptHonest
<1>1. Shape /\ FitInv => ReceiptHonest
  BY DEF Shape, TypeOK, BoundsTyped, FitInv, Settled, Fit, Stored, ReceiptHonest
<1> QED
  BY <1>1, ReceiveInvariant, PTL

\* A delivery leaves at most one public file under the same conditions, however
\* often it was offered, prepared and recovered.
THEOREM OneFilePerDelivery == Spec => []NoDuplicate
<1>1. Shape /\ FitInv => NoDuplicate
  <2>1. Shape => \A p \in 1..made : DeliveryOf(p) \in Deliveries
    BY WriterFacts
  <2> QED
    BY <2>1 DEF FitInv, Settled, Fit, Stored, NoDuplicate
<1> QED
  BY <1>1, ReceiveInvariant, PTL

=============================================================================
