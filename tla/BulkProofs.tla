------------------------------ MODULE BulkProofs ------------------------------
(***************************************************************************)
(* Proofs about Bulk, for any number of hubs, messages, deaths and stops,  *)
(* and bulks of any size: the state keeps its types, no message is lost,   *)
(* none is in two bulks while no hub dies or stops, and the packing keeps  *)
(* the promise of AtLeastOnce.                                             *)
(***************************************************************************)
EXTENDS Bulk, SequenceTheorems, TLAPS

\* What is buffered or acknowledged was published.
Sourced == \A h \in Hubs : ToSet(buffer[h]) \cup ToSet(acks[h]) \subseteq published

\* A process that does not run holds nothing.
Running == \A h \in Hubs : h \notin up => /\ held[h] = {} /\ timers[h] = 0
                                          /\ outbox[h] = <<>> /\ acks[h] = <<>>

\* The broker has every message that has not been acknowledged.
AtBroker == \A m \in published : m \in acked \cup queue \/ \E h \in Hubs : m \in held[h]

\* What is acknowledged is in a bulk that has arrived or is on its way.
Acknowledged ==
    \A m \in acked : \/ m \in wiped \/ InBulk(m)
                     \/ \E h \in Hubs : m \in Packed(outbox[h])

\* The bulk has been written before the acknowledgement, by the same process.
BulkFirst ==
    \A h \in Hubs : \A m \in ToSet(acks[h]) : InBulk(m) \/ m \in Packed(outbox[h])

Inv == TypeOK /\ Sourced /\ Running /\ AtBroker /\ Acknowledged /\ BulkFirst

-----------------------------------------------------------------------------

\* The elements of sequences, and the messages of the bulks in one.
LEMMA EmptyElements == ToSet(<<>>) = {} /\ Packed(<<>>) = {}
BY DEF ToSet, Packed

LEMMA ConcatElements ==
    ASSUME NEW S, NEW s \in Seq(S), NEW t \in Seq(S)
    PROVE  s \o t \in Seq(S) /\ ToSet(s \o t) = ToSet(s) \cup ToSet(t)
<1>1. s \o t \in Seq(S) /\ Len(s \o t) = Len(s) + Len(t)
    BY ConcatProperties
<1>2. \A i \in 1 .. Len(s) + Len(t) : (s \o t)[i] = IF i <= Len(s) THEN s[i] ELSE t[i - Len(s)]
    BY ConcatProperties
<1>3. /\ DOMAIN s = 1 .. Len(s) /\ DOMAIN t = 1 .. Len(t)
      /\ DOMAIN (s \o t) = 1 .. Len(s) + Len(t) /\ Len(s) \in Nat /\ Len(t) \in Nat
    BY <1>1, LenProperties
<1>4. ASSUME NEW i \in 1 .. Len(s) PROVE s[i] \in ToSet(s \o t)
    BY <1>2, <1>3, (s \o t)[i] = s[i], i \in DOMAIN (s \o t) DEF ToSet
<1>5. ASSUME NEW i \in 1 .. Len(t) PROVE t[i] \in ToSet(s \o t)
    <2>1. i + Len(s) \in 1 .. Len(s) + Len(t) /\ (s \o t)[i + Len(s)] = t[i]
        BY <1>2, <1>3
    <2> QED BY <1>3, <2>1 DEF ToSet
<1>6. ASSUME NEW i \in DOMAIN (s \o t) PROVE (s \o t)[i] \in ToSet(s) \cup ToSet(t)
    <2>1. CASE i <= Len(s)
        BY <1>2, <1>3, <2>1 DEF ToSet
    <2>2. CASE ~(i <= Len(s))
        <3>1. i - Len(s) \in 1 .. Len(t) /\ (s \o t)[i] = t[i - Len(s)]
            BY <1>2, <1>3, <2>2
        <3> QED BY <1>3, <3>1 DEF ToSet
    <2> QED BY <2>1, <2>2
<1> QED BY <1>1, <1>3, <1>4, <1>5, <1>6 DEF ToSet

LEMMA AppendElements ==
    ASSUME NEW S, NEW s \in Seq(S), NEW x \in S
    PROVE  Append(s, x) \in Seq(S) /\ ToSet(Append(s, x)) = ToSet(s) \cup {x}
<1>1. DOMAIN s = 1 .. Len(s) /\ Len(s) \in Nat
    BY LenProperties
<1>2. /\ Append(s, x) \in Seq(S) /\ Len(Append(s, x)) = Len(s) + 1
      /\ Append(s, x)[Len(s) + 1] = x
      /\ \A i \in 1 .. Len(s) : Append(s, x)[i] = s[i]
    OBVIOUS
<1>3. DOMAIN Append(s, x) = 1 .. Len(s) + 1
    BY <1>2, LenProperties
<1> QED BY <1>1, <1>2, <1>3 DEF ToSet

LEMMA HeadTailElements ==
    ASSUME NEW S, NEW s \in Seq(S), s # <<>>
    PROVE  /\ Head(s) \in S /\ Tail(s) \in Seq(S)
           /\ ToSet(s) = {Head(s)} \cup ToSet(Tail(s))
<1>1. /\ Len(s) \in Nat \ {0} /\ DOMAIN s = 1 .. Len(s)
    BY LenProperties, EmptySeq
<1>2. /\ Head(s) \in S /\ Tail(s) \in Seq(S) /\ Len(Tail(s)) = Len(s) - 1
      /\ \A i \in 1 .. Len(s) - 1 : Tail(s)[i] = s[i + 1]
    BY HeadTailProperties
<1>3. DOMAIN Tail(s) = 1 .. Len(s) - 1 /\ Head(s) = s[1]
    BY <1>1, <1>2, LenProperties
<1>4. ASSUME NEW i \in 1 .. Len(s) PROVE s[i] \in {Head(s)} \cup ToSet(Tail(s))
    <2>1. CASE i = 1
        BY <1>3, <2>1
    <2>2. CASE i # 1
        <3>1. i - 1 \in 1 .. Len(s) - 1 /\ Tail(s)[i - 1] = s[i]
            BY <1>1, <1>2, <2>2
        <3> QED BY <1>3, <3>1 DEF ToSet
    <2> QED BY <2>1, <2>2
<1>5. ASSUME NEW i \in 1 .. Len(s) - 1 PROVE Tail(s)[i] \in ToSet(s)
    <2>1. i + 1 \in DOMAIN s /\ Tail(s)[i] = s[i + 1]
        BY <1>1, <1>2
    <2> QED BY <2>1 DEF ToSet
<1>6. Head(s) \in ToSet(s)
    BY <1>1, <1>3 DEF ToSet
<1> QED BY <1>1, <1>2, <1>3, <1>4, <1>5, <1>6 DEF ToSet

LEMMA PackedElements == \A bulks : Packed(bulks) = UNION {ToSet(b) : b \in ToSet(bulks)}
BY DEF Packed, ToSet

LEMMA BagSum ==
    ASSUME NEW a, IsABag(a), NEW b, IsABag(b)
    PROVE  IsABag(a (+) b)
BY DEF IsABag, (+)

LEMMA PackedGrows ==
    ASSUME NEW bulks \in Seq(Seq(Msgs)), NEW bulk \in Seq(Msgs)
    PROVE  Packed(Append(bulks, bulk)) = Packed(bulks) \cup ToSet(bulk)
BY PackedElements, AppendElements

LEMMA PackedShrinks ==
    ASSUME NEW bulks \in Seq(Seq(Msgs)), bulks # <<>>
    PROVE  Packed(bulks) = ToSet(Head(bulks)) \cup Packed(Tail(bulks))
BY PackedElements, HeadTailElements

\* A bulk that arrives is added to those that have.
LEMMA InQueueGrows ==
    ASSUME IsABag(inQueue), DOMAIN inQueue \subseteq Seq(Msgs), NEW bulk \in Seq(Msgs),
           inQueue' = inQueue (+) SetToBag({bulk})
    PROVE  /\ IsABag(inQueue') /\ DOMAIN inQueue' = DOMAIN inQueue \cup {bulk}
           /\ \A m : InBulk(m)' <=> InBulk(m) \/ m \in ToSet(bulk)
<1>1. /\ IsABag(SetToBag({bulk})) /\ DOMAIN SetToBag({bulk}) = {bulk}
    BY DEF SetToBag, IsABag
<1>2. DOMAIN inQueue' = DOMAIN inQueue \cup {bulk}
    BY <1>1 DEF (+)
<1>3. IsABag(inQueue')
    BY <1>1, BagSum
<1> QED BY <1>2, <1>3 DEF InBulk, BagToSet

-----------------------------------------------------------------------------

LEMMA InitInv == Init => Inv
<1> SUFFICES ASSUME Init PROVE Inv
    OBVIOUS
<1> USE DEF Init
<1>1. IsABag(EmptyBag) /\ DOMAIN EmptyBag = {}
    BY DEF EmptyBag, SetToBag, IsABag
<1>2. TypeOK
    BY <1>1, EmptySeq, UpsetsAssumption DEF TypeOK
<1> QED BY <1>2, EmptyElements DEF Inv, Sourced, Running, AtBroker, Acknowledged, BulkFirst

\* What enqueueBulk writes: the bulk before its acknowledgements, or neither.
LEMMA Enqueued ==
    ASSUME TypeOK, NEW h \in Hubs, NEW bulk \in Seq(Msgs), EnqueueBulk(h, bulk)
    PROVE  /\ outbox' \in [Hubs -> Seq(Seq(Msgs))] /\ acks' \in [Hubs -> Seq(Msgs)]
           /\ \A k \in Hubs \ {h} : outbox'[k] = outbox[k] /\ acks'[k] = acks[k]
           /\ Packed(outbox[h]) \subseteq Packed(outbox'[h])
           /\ Packed(outbox'[h]) \subseteq Packed(outbox[h]) \cup ToSet(bulk)
           /\ ToSet(acks'[h]) \subseteq ToSet(acks[h]) \cup ToSet(bulk)
           /\ ToSet(acks'[h]) \subseteq ToSet(acks[h]) \cup Packed(outbox'[h])
<1> USE DEF TypeOK, EnqueueBulk
<1>1. /\ Append(outbox[h], bulk) \in Seq(Seq(Msgs))
      /\ Packed(Append(outbox[h], bulk)) = Packed(outbox[h]) \cup ToSet(bulk)
    BY AppendElements, PackedGrows
<1>2. /\ acks[h] \o bulk \in Seq(Msgs)
      /\ ToSet(acks[h] \o bulk) = ToSet(acks[h]) \cup ToSet(bulk)
    BY ConcatElements
<1>3. /\ outbox' \in [Hubs -> Seq(Seq(Msgs))]
      /\ \A k \in Hubs \ {h} : outbox'[k] = outbox[k]
      /\ outbox'[h] = IF phase[h] = "stopped" THEN outbox[h] ELSE Append(outbox[h], bulk)
    BY <1>1
<1>4. /\ acks' \in [Hubs -> Seq(Msgs)]
      /\ \A k \in Hubs \ {h} : acks'[k] = acks[k]
      /\ acks'[h] = IF phase[h] = "open" THEN acks[h] \o bulk ELSE acks[h]
    BY <1>2
<1> QED BY <1>1, <1>2, <1>3, <1>4

LEMMA PublishInv ==
    ASSUME Inv, NEW m \in Msgs, Publish(m)
    PROVE  Inv'
<1> USE DEF Inv, TypeOK, Publish, brokerVars, hubVars
<1>1. TypeOK'
    OBVIOUS
<1>2. Sourced' /\ Running' /\ AtBroker'
    BY DEF Sourced, Running, AtBroker
<1>3. Acknowledged' /\ BulkFirst'
    BY DEF Acknowledged, BulkFirst, InBulk
<1> QED BY <1>1, <1>2, <1>3

LEMMA ProcessMessageInv ==
    ASSUME Inv, NEW h \in Hubs, ProcessMessage(h)
    PROVE  Inv'
<1> USE DEF brokerVars, hubVars
<1>1. PICK m \in queue :
        /\ queue' = queue \ {m}
        /\ held' = [held EXCEPT ![h] = @ \cup {m}]
        /\ timers' = TimersAfter(h, Append(buffer[h], m))
        /\ \/ /\ EnqueueBulk(h, Append(buffer[h], m))
              /\ buffer' = [buffer EXCEPT ![h] = <<>>]
           \/ /\ buffer' = [buffer EXCEPT ![h] = Append(buffer[h], m)]
              /\ UNCHANGED <<outbox, acks>>
    BY DEF ProcessMessage
<1>2. h \in up /\ UNCHANGED <<published, acked, inQueue, wiped, upsets, up, phase>>
    BY DEF ProcessMessage
<1> DEFINE batch == Append(buffer[h], m)
<1>3. m \in published /\ m \in Msgs /\ buffer[h] \in Seq(Msgs)
    BY DEF Inv, TypeOK
<1>4. batch \in Seq(Msgs) /\ ToSet(batch) = ToSet(buffer[h]) \cup {m}
    BY <1>3, AppendElements
<1>5. ToSet(batch) \subseteq published
    BY <1>3, <1>4 DEF Inv, Sourced
<1> HIDE DEF batch
<1>6. /\ outbox' \in [Hubs -> Seq(Seq(Msgs))] /\ acks' \in [Hubs -> Seq(Msgs)]
      /\ \A k \in Hubs \ {h} : outbox'[k] = outbox[k] /\ acks'[k] = acks[k]
      /\ Packed(outbox[h]) \subseteq Packed(outbox'[h])
      /\ ToSet(acks'[h]) \subseteq ToSet(acks[h]) \cup ToSet(batch)
      /\ ToSet(acks'[h]) \subseteq ToSet(acks[h]) \cup Packed(outbox'[h])
    <2>1. CASE EnqueueBulk(h, batch)
        BY <1>4, <2>1, Enqueued DEF Inv
    <2>2. CASE UNCHANGED <<outbox, acks>>
        BY <2>2 DEF Inv, TypeOK
    <2> QED BY <1>1, <2>1, <2>2 DEF batch
<1>7. /\ buffer' \in [Hubs -> Seq(Msgs)]
      /\ \A k \in Hubs \ {h} : buffer'[k] = buffer[k]
      /\ ToSet(buffer'[h]) \subseteq ToSet(batch)
    BY <1>1, <1>4, EmptySeq, EmptyElements DEF Inv, TypeOK, batch
<1>8. /\ timers' \in [Hubs -> Nat]
      /\ \A k \in Hubs \ {h} : timers'[k] = timers[k]
    BY <1>1 DEF TimersAfter, Inv, TypeOK
<1>9. /\ held' \in [Hubs -> SUBSET published]
      /\ \A k \in Hubs \ {h} : held'[k] = held[k]
      /\ held'[h] = held[h] \cup {m}
    BY <1>1, <1>3 DEF Inv, TypeOK
<1>10. TypeOK'
    BY <1>1, <1>2, <1>6, <1>7, <1>8, <1>9 DEF Inv, TypeOK
<1>11. Sourced'
    BY <1>2, <1>5, <1>6, <1>7 DEF Inv, Sourced
<1>12. Running'
    BY <1>2, <1>6, <1>8, <1>9 DEF Inv, Running
<1>13. AtBroker'
    BY <1>1, <1>2, <1>9 DEF Inv, AtBroker
<1>14. Acknowledged'
    BY <1>2, <1>6 DEF Inv, Acknowledged, InBulk
<1>15. BulkFirst'
    BY <1>2, <1>6 DEF Inv, BulkFirst, InBulk
<1> QED BY <1>10, <1>11, <1>12, <1>13, <1>14, <1>15 DEF Inv

LEMMA TimerFiresInv ==
    ASSUME Inv, NEW h \in Hubs, TimerFires(h)
    PROVE  Inv'
<1> USE DEF brokerVars, hubVars
<1>1. /\ timers[h] > 0 /\ timers' = [timers EXCEPT ![h] = @ - 1]
      /\ buffer' = [buffer EXCEPT ![h] = <<>>]
      /\ UNCHANGED <<published, queue, acked, inQueue, wiped, upsets, up, phase, held>>
    BY DEF TimerFires
<1>2. h \in up
    BY <1>1 DEF Inv, Running
<1>3. /\ outbox' \in [Hubs -> Seq(Seq(Msgs))] /\ acks' \in [Hubs -> Seq(Msgs)]
      /\ \A k \in Hubs \ {h} : outbox'[k] = outbox[k] /\ acks'[k] = acks[k]
      /\ Packed(outbox[h]) \subseteq Packed(outbox'[h])
      /\ ToSet(acks'[h]) \subseteq ToSet(acks[h]) \cup ToSet(buffer[h])
      /\ ToSet(acks'[h]) \subseteq ToSet(acks[h]) \cup Packed(outbox'[h])
    <2>1. buffer[h] \in Seq(Msgs) /\ EnqueueBulk(h, buffer[h])
        BY DEF TimerFires, Inv, TypeOK
    <2> QED BY <2>1, Enqueued DEF Inv
<1>4. /\ timers' \in [Hubs -> Nat] /\ \A k \in Hubs \ {h} : timers'[k] = timers[k]
    BY <1>1 DEF Inv, TypeOK
<1>5. /\ buffer' \in [Hubs -> Seq(Msgs)] /\ ToSet(buffer'[h]) = {}
      /\ \A k \in Hubs \ {h} : buffer'[k] = buffer[k]
    BY <1>1, EmptySeq, EmptyElements DEF Inv, TypeOK
<1>6. TypeOK'
    BY <1>1, <1>3, <1>4, <1>5 DEF Inv, TypeOK
<1>7. Sourced'
    BY <1>1, <1>3, <1>5 DEF Inv, Sourced
<1>8. Running' /\ AtBroker'
    BY <1>1, <1>2, <1>3, <1>4 DEF Inv, Running, AtBroker
<1>9. Acknowledged' /\ BulkFirst'
    BY <1>1, <1>3 DEF Inv, Acknowledged, BulkFirst, InBulk
<1> QED BY <1>6, <1>7, <1>8, <1>9 DEF Inv

LEMMA BulkArrivesInv ==
    ASSUME Inv, NEW h \in Hubs, BulkArrives(h)
    PROVE  Inv'
<1> USE DEF brokerVars, hubVars
<1> DEFINE bulk == Head(outbox[h])
<1>1. /\ outbox[h] # <<>> /\ inQueue' = inQueue (+) SetToBag({bulk})
      /\ outbox' = [outbox EXCEPT ![h] = Tail(outbox[h])]
      /\ UNCHANGED <<published, queue, acked, wiped, upsets, up, phase,
                     held, buffer, timers, acks>>
    BY DEF BulkArrives
<1>2. /\ bulk \in Seq(Msgs) /\ Tail(outbox[h]) \in Seq(Seq(Msgs))
      /\ Packed(outbox[h]) = ToSet(bulk) \cup Packed(Tail(outbox[h]))
    BY <1>1, HeadTailElements, PackedShrinks DEF Inv, TypeOK
<1> HIDE DEF bulk
<1>3. /\ IsABag(inQueue') /\ DOMAIN inQueue' \subseteq Seq(Msgs)
      /\ \A m : InBulk(m)' <=> InBulk(m) \/ m \in ToSet(bulk)
    BY <1>1, <1>2, InQueueGrows DEF Inv, TypeOK
<1>4. /\ outbox' \in [Hubs -> Seq(Seq(Msgs))] /\ outbox'[h] = Tail(outbox[h])
      /\ \A k \in Hubs \ {h} : outbox'[k] = outbox[k]
    BY <1>1, <1>2 DEF Inv, TypeOK
<1>5. TypeOK'
    BY <1>1, <1>3, <1>4 DEF Inv, TypeOK
<1>6. Sourced' /\ Running' /\ AtBroker'
    BY <1>1, <1>4 DEF Inv, Sourced, Running, AtBroker
<1>7. \A k \in Hubs : Packed(outbox[k]) \subseteq ToSet(bulk) \cup Packed(outbox'[k])
    BY <1>2, <1>4
<1>8. Acknowledged'
    BY <1>1, <1>3, <1>7 DEF Inv, Acknowledged
<1>9. BulkFirst'
    BY <1>1, <1>3, <1>7 DEF Inv, BulkFirst
<1> QED BY <1>5, <1>6, <1>8, <1>9 DEF Inv

LEMMA AckArrivesInv ==
    ASSUME Inv, NEW h \in Hubs, AckArrives(h)
    PROVE  Inv'
<1> USE DEF brokerVars, hubVars
<1> DEFINE m == Head(acks[h])
<1>1. /\ acks[h] # <<>> /\ acked' = acked \cup {m}
      /\ held' = [held EXCEPT ![h] = held[h] \ {m}]
      /\ acks' = [acks EXCEPT ![h] = Tail(acks[h])]
      /\ UNCHANGED <<published, queue, inQueue, wiped, upsets, up, phase,
                     buffer, timers, outbox>>
    BY DEF AckArrives
<1>2. /\ Tail(acks[h]) \in Seq(Msgs) /\ ToSet(acks[h]) = {m} \cup ToSet(Tail(acks[h]))
    BY <1>1, HeadTailElements DEF Inv, TypeOK
<1> HIDE DEF m
<1>3. m \in published /\ (InBulk(m) \/ m \in Packed(outbox[h]))
    BY <1>2 DEF Inv, Sourced, BulkFirst
<1>4. /\ acks' \in [Hubs -> Seq(Msgs)] /\ acks'[h] = Tail(acks[h])
      /\ \A k \in Hubs \ {h} : acks'[k] = acks[k]
    BY <1>1, <1>2 DEF Inv, TypeOK
<1>5. /\ held' \in [Hubs -> SUBSET published] /\ held'[h] = held[h] \ {m}
      /\ \A k \in Hubs \ {h} : held'[k] = held[k]
    BY <1>1 DEF Inv, TypeOK
<1>6. TypeOK'
    BY <1>1, <1>3, <1>4, <1>5 DEF Inv, TypeOK
<1>7. \A k \in Hubs : ToSet(acks'[k]) \subseteq ToSet(acks[k])
    BY <1>2, <1>4
<1>8. Sourced'
    BY <1>1, <1>7 DEF Inv, Sourced
<1>9. h \in up
    BY <1>1 DEF Inv, Running
<1>10. Running'
    BY <1>1, <1>4, <1>5, <1>9 DEF Inv, Running
<1>11. AtBroker'
    BY <1>1, <1>5 DEF Inv, AtBroker
<1>12. Acknowledged'
    BY <1>1, <1>3 DEF Inv, Acknowledged, InBulk
<1>13. BulkFirst'
    BY <1>1, <1>7 DEF Inv, BulkFirst, InBulk
<1> QED BY <1>6, <1>8, <1>10, <1>11, <1>12, <1>13 DEF Inv

LEMMA StopInv ==
    ASSUME Inv, NEW h \in Hubs, Stop(h)
    PROVE  Inv'
<1> USE DEF brokerVars, hubVars
<1>1. /\ h \in up /\ upsets < MaxUpsets /\ upsets' = upsets + 1
      /\ phase' = [phase EXCEPT ![h] = "stopping"]
      /\ acked' = acked \cup ToSet(acks[h]) /\ acks' = [acks EXCEPT ![h] = <<>>]
      /\ queue' = queue \cup (held[h] \ ToSet(acks[h]))
      /\ held' = [held EXCEPT ![h] = {}]
      /\ UNCHANGED <<published, inQueue, wiped, up, buffer, timers, outbox>>
    BY DEF Stop
<1>2. /\ acks' \in [Hubs -> Seq(Msgs)] /\ acks'[h] = <<>> /\ ToSet(acks'[h]) = {}
      /\ \A k \in Hubs \ {h} : acks'[k] = acks[k]
    BY <1>1, EmptySeq, EmptyElements DEF Inv, TypeOK
<1>3. /\ held' \in [Hubs -> SUBSET published] /\ held'[h] = {}
      /\ \A k \in Hubs \ {h} : held'[k] = held[k]
    BY <1>1 DEF Inv, TypeOK
<1>4. ToSet(acks[h]) \subseteq published
    BY DEF Inv, Sourced
<1>5. upsets' \in 0 .. MaxUpsets /\ phase' \in [Hubs -> {"open", "stopping", "stopped"}]
    BY <1>1, UpsetsAssumption DEF Inv, TypeOK
<1>6. held[h] \subseteq published
    BY DEF Inv, TypeOK
<1>7. TypeOK'
    BY <1>1, <1>2, <1>3, <1>4, <1>5, <1>6 DEF Inv, TypeOK
<1>8. Sourced' /\ Running'
    BY <1>1, <1>2, <1>3 DEF Inv, Sourced, Running
<1>9. AtBroker'
    BY <1>1, <1>3 DEF Inv, AtBroker
<1>10. Acknowledged'
    BY <1>1 DEF Inv, Acknowledged, BulkFirst, InBulk
<1>11. BulkFirst'
    BY <1>1, <1>2 DEF Inv, BulkFirst, InBulk
<1> QED BY <1>7, <1>8, <1>9, <1>10, <1>11 DEF Inv

LEMMA CrashInv ==
    ASSUME Inv, NEW h \in Hubs, Crash(h)
    PROVE  Inv'
<1> USE DEF brokerVars, hubVars
<1>1. /\ h \in up /\ upsets < MaxUpsets /\ upsets' = upsets + 1 /\ up' = up \ {h}
      /\ phase' = [phase EXCEPT ![h] = "open"] /\ queue' = queue \cup held[h]
      /\ wiped' = wiped \cup (Packed(outbox[h]) \cap acked)
      /\ held' = [held EXCEPT ![h] = {}] /\ buffer' = [buffer EXCEPT ![h] = <<>>]
      /\ timers' = [timers EXCEPT ![h] = 0] /\ outbox' = [outbox EXCEPT ![h] = <<>>]
      /\ acks' = [acks EXCEPT ![h] = <<>>]
      /\ UNCHANGED <<published, acked, inQueue>>
    BY DEF Crash
<1>2. /\ acks' \in [Hubs -> Seq(Msgs)] /\ acks'[h] = <<>> /\ ToSet(acks'[h]) = {}
      /\ buffer' \in [Hubs -> Seq(Msgs)] /\ ToSet(buffer'[h]) = {}
      /\ outbox' \in [Hubs -> Seq(Seq(Msgs))] /\ outbox'[h] = <<>>
      /\ timers' \in [Hubs -> Nat] /\ timers'[h] = 0
      /\ held' \in [Hubs -> SUBSET published] /\ held'[h] = {}
    BY <1>1, EmptySeq, EmptyElements DEF Inv, TypeOK
<1>3. \A k \in Hubs \ {h} :
        /\ acks'[k] = acks[k] /\ buffer'[k] = buffer[k] /\ outbox'[k] = outbox[k]
        /\ timers'[k] = timers[k] /\ held'[k] = held[k]
    BY <1>1 DEF Inv, TypeOK
<1>4. upsets' \in 0 .. MaxUpsets /\ phase' \in [Hubs -> {"open", "stopping", "stopped"}]
    BY <1>1, UpsetsAssumption DEF Inv, TypeOK
<1>5. held[h] \subseteq published
    BY DEF Inv, TypeOK
<1>6. TypeOK'
    BY <1>1, <1>2, <1>4, <1>5 DEF Inv, TypeOK
<1>7. Sourced' /\ Running'
    BY <1>1, <1>2, <1>3 DEF Inv, Sourced, Running
<1>8. AtBroker'
    BY <1>1, <1>3 DEF Inv, AtBroker
<1>9. Acknowledged'
    BY <1>1, <1>3 DEF Inv, Acknowledged, InBulk
<1>10. BulkFirst'
    BY <1>1, <1>2, <1>3 DEF Inv, BulkFirst, InBulk
<1> QED BY <1>6, <1>7, <1>8, <1>9, <1>10 DEF Inv

LEMMA HubStepInv ==
    ASSUME Inv, NEW h \in Hubs, InQueueStops(h) \/ Restart(h)
    PROVE  Inv'
<1> USE DEF Inv, brokerVars, hubVars
<1>1. CASE InQueueStops(h)
    BY <1>1 DEF InQueueStops, TypeOK, Sourced, Running, AtBroker, Acknowledged, BulkFirst, InBulk
<1>2. CASE Restart(h)
    BY <1>2 DEF Restart, TypeOK, Sourced, Running, AtBroker, Acknowledged, BulkFirst, InBulk
<1> QED BY <1>1, <1>2

-----------------------------------------------------------------------------

LEMMA NextInv == ASSUME Inv, [Next]_vars PROVE Inv'
<1>1. ASSUME Next PROVE Inv'
    <2>1. ASSUME NEW m \in Msgs, Publish(m) PROVE Inv'
        BY <1>1, <2>1, PublishInv
    <2>2. ASSUME NEW h \in Hubs, ProcessMessage(h) PROVE Inv'
        BY <1>1, <2>2, ProcessMessageInv
    <2>3. ASSUME NEW h \in Hubs, TimerFires(h) PROVE Inv'
        BY <1>1, <2>3, TimerFiresInv
    <2>4. ASSUME NEW h \in Hubs, BulkArrives(h) PROVE Inv'
        BY <1>1, <2>4, BulkArrivesInv
    <2>5. ASSUME NEW h \in Hubs, AckArrives(h) PROVE Inv'
        BY <1>1, <2>5, AckArrivesInv
    <2>6. ASSUME NEW h \in Hubs, Stop(h) PROVE Inv'
        BY <1>1, <2>6, StopInv
    <2>7. ASSUME NEW h \in Hubs, Crash(h) PROVE Inv'
        BY <1>1, <2>7, CrashInv
    <2>8. ASSUME NEW h \in Hubs, InQueueStops(h) \/ Restart(h) PROVE Inv'
        BY <1>1, <2>8, HubStepInv
    <2> QED BY <1>1, <2>1, <2>2, <2>3, <2>4, <2>5, <2>6, <2>7, <2>8 DEF Next
<1>2. ASSUME UNCHANGED vars PROVE Inv'
    BY <1>2 DEF vars, brokerVars, hubVars, Inv, TypeOK, Sourced, Running, AtBroker,
                Acknowledged, BulkFirst, InBulk
<1> QED BY <1>1, <1>2

\* The strengthening of TypeOK and NoLoss holds in every state.
THEOREM Invariance == Spec => []Inv
BY InitInv, NextInv, PTL DEF Spec

(* The state keeps its types, for any number of hubs and messages: only    *)
(* what was published is held, acknowledged or wiped (bulk.js:28-62).      *)
THEOREM BulkTypeCorrect == Spec => []TypeOK
<1>1. Inv => TypeOK
    BY DEF Inv
<1> QED BY Invariance, <1>1, PTL

LEMMA LossExplained == Inv => NoLoss
<1> SUFFICES ASSUME Inv PROVE NoLoss
    OBVIOUS
<1>1. ASSUME NEW h \in Hubs, NEW m, m \in held[h] \cup Packed(outbox[h])
      PROVE  h \in up
    BY <1>1, EmptyElements DEF Inv, Running
<1>2. ASSUME NEW m \in published PROVE m \in queue \/ m \in acked \/ \E h \in up : m \in held[h]
    BY <1>1 DEF Inv, AtBroker
<1>3. ASSUME NEW m \in acked
      PROVE  m \in wiped \/ InBulk(m) \/ \E h \in up : m \in Packed(outbox[h])
    BY <1>1 DEF Inv, Acknowledged
<1> QED BY <1>2, <1>3 DEF NoLoss

(* A published message is with the broker, in a bulk or on its way to one, *)
(* whatever the size of the bulks and however many hubs die and stop, save *)
(* those whose bulk died in a socket (bulk.js:34-41).                      *)
THEOREM BulkNoLossHolds == Spec => []NoLoss
<1> QED BY Invariance, LossExplained, PTL

-----------------------------------------------------------------------------
(* One bulk.  Every step moves the copy of a message or leaves it alone:   *)
(* each copy after the step comes from one before it, and no two from the  *)
(* same one.                                                               *)

\* The property for one message, and that one not yet published is nowhere.
Once(m) == /\ \A c, d \in Copies(m) : c = d
           /\ Copies(m) # {} => m \in published

OnceInv == upsets = 0 => \A m \in Msgs : Once(m)

IsCopy(m, c) ==
    \/ m \in queue /\ c = <<"queue", 0, 0, 0>>
    \/ \E h \in Hubs : \E i \in DOMAIN buffer[h] : buffer[h][i] = m /\ c = <<"buffer", h, 0, i>>
    \/ \E h \in Hubs : \E n \in DOMAIN outbox[h] : \E i \in DOMAIN outbox[h][n] :
           outbox[h][n][i] = m /\ c = <<"socket", h, n, i>>
    \/ \E bulk \in BagToSet(inQueue) : \E n \in 1 .. inQueue[bulk] : \E i \in DOMAIN bulk :
           bulk[i] = m /\ c = <<"in", bulk, n, i>>

LEMMA CopyKinds ==
    ASSUME NEW m, NEW c
    PROVE  c \in Copies(m) <=> IsCopy(m, c)
<1> DEFINE buffered(h) == {<<"buffer", h, 0, i>> : i \in At(buffer[h], m)}
           written(h) == UNION {{<<"socket", h, n, i>> : i \in At(outbox[h][n], m)} :
                                    n \in DOMAIN outbox[h]}
           arrived(bulk) == UNION {{<<"in", bulk, n, i>> : i \in At(bulk, m)} :
                                       n \in 1 .. inQueue[bulk]}
           queued == {<<"queue", 0, 0, 0>> : q \in queue \cap {m}}
           collected == UNION {buffered(h) \cup written(h) : h \in Hubs}
           delivered == UNION {arrived(bulk) : bulk \in BagToSet(inQueue)}
<1>1. \A h : c \in buffered(h) <=> \E i \in DOMAIN buffer[h] :
                                      buffer[h][i] = m /\ c = <<"buffer", h, 0, i>>
    BY DEF At
<1>2. \A h : c \in written(h) <=> \E n \in DOMAIN outbox[h] : \E i \in DOMAIN outbox[h][n] :
                                      outbox[h][n][i] = m /\ c = <<"socket", h, n, i>>
    BY DEF At
<1>3. \A bulk : c \in arrived(bulk) <=> \E n \in 1 .. inQueue[bulk] :
                    \E i \in DOMAIN bulk : bulk[i] = m /\ c = <<"in", bulk, n, i>>
    BY DEF At
<1>4. c \in queued <=> m \in queue /\ c = <<"queue", 0, 0, 0>>
    OBVIOUS
<1>5. c \in collected <=> \E h \in Hubs : c \in buffered(h) \/ c \in written(h)
    OBVIOUS
<1>6. c \in delivered <=> \E bulk \in BagToSet(inQueue) : c \in arrived(bulk)
    OBVIOUS
<1>7. Copies(m) = queued \cup collected \cup delivered
    BY DEF Copies
<1> HIDE DEF buffered, written, arrived, queued, collected, delivered
<1> QED BY <1>1, <1>2, <1>3, <1>4, <1>5, <1>6, <1>7 DEF IsCopy

LEMMA CopyKindsNext ==
    ASSUME NEW m, NEW c
    PROVE  c \in Copies(m)' <=> IsCopy(m, c)'
<1>1. c \in Copies(m) <=> IsCopy(m, c)
    BY CopyKinds
<1>2. (c \in Copies(m) <=> IsCopy(m, c))'
    BY <1>1, PTL
<1> QED BY <1>2

\* A function from the copies after a step to those before it.
LEMMA CopiesMoved ==
    ASSUME NEW m, Once(m), published \subseteq published', NEW f,
           \A c \in Copies(m)' : f[c] \in Copies(m),
           \A c, d \in Copies(m)' : f[c] = f[d] => c = d
    PROVE  Once(m)'
BY DEF Once

LEMMA CopiesKept ==
    ASSUME NEW m, Once(m), published \subseteq published', Copies(m)' \subseteq Copies(m)
    PROVE  Once(m)'
BY DEF Once

LEMMA AppendPlaces ==
    ASSUME NEW S, NEW s \in Seq(S), NEW x \in S
    PROVE  \A i \in DOMAIN Append(s, x) : \/ i \in DOMAIN s /\ Append(s, x)[i] = s[i]
                                          \/ i = Len(s) + 1 /\ Append(s, x)[i] = x
BY AppendProperties, LenProperties

\* The batch of h moves from its buffer into the next bulk of its socket, together
\* with what the broker hands to h (bulk[Len(bulk)]), or is dropped.
LEMMA EnqueueOnce ==
    ASSUME Inv, NEW h \in Hubs, NEW bulk \in Seq(Msgs), EnqueueBulk(h, bulk),
           buffer' = [buffer EXCEPT ![h] = <<>>], UNCHANGED <<published, inQueue>>,
           \/ bulk = buffer[h] /\ queue' = queue
           \/ \E m \in queue : bulk = Append(buffer[h], m) /\ queue' = queue \ {m},
           NEW m \in Msgs, Once(m)
    PROVE  Once(m)'
<1> DEFINE next == Len(outbox[h]) + 1
           own == Len(buffer[h])
           Old(c) == IF c[1] = "socket" /\ c[2] = h /\ c[3] = next
                     THEN IF c[4] <= own THEN <<"buffer", h, 0, c[4]>> ELSE <<"queue", 0, 0, 0>>
                     ELSE c
           f == [c \in Copies(m)' |-> Old(c)]
<1>1. /\ buffer[h] \in Seq(Msgs) /\ outbox[h] \in Seq(Seq(Msgs))
      /\ own \in Nat /\ DOMAIN buffer[h] = 1 .. own
      /\ next - 1 \in Nat /\ DOMAIN outbox[h] = 1 .. next - 1
    BY LenProperties DEF Inv, TypeOK
<1>2. /\ DOMAIN buffer'[h] = {}
      /\ \A k \in Hubs : k # h => buffer'[k] = buffer[k] /\ outbox'[k] = outbox[k]
    BY DEF Inv, TypeOK, EnqueueBulk
<1>3. \A n \in DOMAIN outbox'[h] : \/ n \in DOMAIN outbox[h] /\ outbox'[h][n] = outbox[h][n]
                                   \/ n = next /\ outbox'[h][n] = bulk
    <2>1. CASE outbox' = outbox
        BY <2>1
    <2>2. CASE outbox'[h] = Append(outbox[h], bulk)
        BY <1>1, <2>2, AppendPlaces
    <2> QED BY <2>1, <2>2 DEF EnqueueBulk, Inv, TypeOK
<1>4. \A i \in DOMAIN bulk : \/ i \in DOMAIN buffer[h] /\ bulk[i] = buffer[h][i] /\ i <= own
                             \/ i = own + 1 /\ bulk[i] \in queue /\ bulk[i] \notin queue'
    <2>1. CASE bulk = buffer[h]
        BY <1>1, <2>1
    <2>2. CASE \E q \in queue : bulk = Append(buffer[h], q) /\ queue' = queue \ {q}
        <3>1. PICK q \in queue : bulk = Append(buffer[h], q) /\ queue' = queue \ {q}
            BY <2>2
        <3>2. q \in Msgs
            BY DEF Inv, TypeOK
        <3> QED BY <1>1, <3>1, <3>2, AppendPlaces
    <2> QED BY <2>1, <2>2
<1>5. ASSUME NEW c \in Copies(m)'
      PROVE  \/ /\ c[1] = "socket" /\ c[2] = h /\ c[3] = next
                /\ \/ /\ c[4] \in DOMAIN buffer[h] /\ c[4] <= own /\ buffer[h][c[4]] = m
                   \/ c[4] = own + 1 /\ m \in queue /\ m \notin queue'
                /\ c = <<"socket", h, next, c[4]>>
             \/ ~(c[1] = "socket" /\ c[2] = h /\ c[3] = next) /\ c \in Copies(m)
    <2>1. IsCopy(m, c)'
        BY CopyKindsNext
    <2>2. CASE m \in queue' /\ c = <<"queue", 0, 0, 0>>
        <3>1. IsCopy(m, c)
            BY <2>2 DEF IsCopy
        <3> QED BY <2>2, <3>1, CopyKinds
    <2>3. ASSUME NEW k \in Hubs, NEW i \in DOMAIN buffer'[k],
                 buffer'[k][i] = m, c = <<"buffer", k, 0, i>>
          PROVE  c[1] # "socket" /\ IsCopy(m, c)
        BY <1>2, <2>3 DEF IsCopy
    <2>4. ASSUME NEW k \in Hubs, NEW n \in DOMAIN outbox'[k], NEW i \in DOMAIN outbox'[k][n],
                 outbox'[k][n][i] = m, c = <<"socket", k, n, i>>,
                 ~(k = h /\ n = next)
          PROVE  IsCopy(m, c)
        BY <1>2, <1>3, <2>4 DEF IsCopy
    <2>5. ASSUME NEW k \in Hubs, NEW n \in DOMAIN outbox'[k], NEW i \in DOMAIN outbox'[k][n],
                 outbox'[k][n][i] = m, c = <<"socket", k, n, i>>,
                 k = h, n = next
          PROVE  \/ i \in DOMAIN buffer[h] /\ i <= own /\ buffer[h][i] = m
                 \/ i = own + 1 /\ m \in queue /\ m \notin queue'
        <3>1. outbox'[h][next] = bulk
            BY <1>1, <1>3, <2>5
        <3> QED BY <1>4, <2>5, <3>1
    <2>6. ASSUME NEW b \in BagToSet(inQueue'), NEW n \in 1 .. inQueue'[b], NEW i \in DOMAIN b,
                 b[i] = m, c = <<"in", b, n, i>>
          PROVE  c[1] # "socket" /\ IsCopy(m, c)
        BY <2>6 DEF IsCopy
    <2> QED BY <2>1, <2>2, <2>3, <2>4, <2>5, <2>6, CopyKinds DEF IsCopy
<1>6. ASSUME NEW c \in Copies(m)' PROVE Old(c) \in Copies(m)
    <2>1. CASE c \in Copies(m) /\ ~(c[1] = "socket" /\ c[2] = h /\ c[3] = next)
        BY <2>1
    <2>2. CASE /\ c[1] = "socket" /\ c[2] = h /\ c[3] = next
               /\ c[4] \in DOMAIN buffer[h] /\ c[4] <= own /\ buffer[h][c[4]] = m
        <3>1. Old(c) = <<"buffer", h, 0, c[4]>>
            BY <2>2
        <3>2. IsCopy(m, <<"buffer", h, 0, c[4]>>)
            BY <2>2 DEF IsCopy
        <3> QED BY <3>1, <3>2, CopyKinds
    <2>3. CASE /\ c[1] = "socket" /\ c[2] = h /\ c[3] = next
               /\ c[4] = own + 1 /\ m \in queue
        <3>1. Old(c) = <<"queue", 0, 0, 0>>
            BY <1>1, <2>3
        <3>2. IsCopy(m, <<"queue", 0, 0, 0>>)
            BY <2>3 DEF IsCopy
        <3> QED BY <3>1, <3>2, CopyKinds
    <2> QED BY <1>5, <2>1, <2>2, <2>3
<1>7. /\ \A i : <<"buffer", h, 0, i>> \notin Copies(m)'
      /\ m \notin queue' => <<"queue", 0, 0, 0>> \notin Copies(m)'
    <2>1. \A i : ~IsCopy(m, <<"buffer", h, 0, i>>)'
        BY <1>2 DEF IsCopy
    <2>2. m \notin queue' => ~IsCopy(m, <<"queue", 0, 0, 0>>)'
        BY DEF IsCopy
    <2> QED BY <2>1, <2>2, CopyKindsNext
<1>8. ASSUME NEW c \in Copies(m)', NEW d \in Copies(m)', Old(c) = Old(d) PROVE c = d
    <2> DEFINE moved(e) == /\ e[1] = "socket" /\ e[2] = h /\ e[3] = next
                           /\ e = <<"socket", h, next, e[4]>>
                           /\ \/ Old(e) = <<"buffer", h, 0, e[4]>>
                              \/ /\ e[4] = own + 1 /\ m \notin queue'
                                 /\ Old(e) = <<"queue", 0, 0, 0>>
               stayed(e) == Old(e) = e
    <2>1. \A e \in Copies(m)' : moved(e) \/ stayed(e)
        BY <1>1, <1>5
    <2>2. CASE moved(c) /\ moved(d)
        BY <1>8, <2>2
    <2>3. CASE stayed(c) /\ stayed(d)
        BY <1>8, <2>3
    <2>4. CASE moved(c) /\ stayed(d)
        BY <1>7, <1>8, <2>4
    <2>5. CASE stayed(c) /\ moved(d)
        BY <1>7, <1>8, <2>5
    <2> QED BY <2>1, <2>2, <2>3, <2>4, <2>5
<1> HIDE DEF Old
<1>9. \A c \in Copies(m)' : f[c] = Old(c)
    OBVIOUS
<1> HIDE DEF f
<1> QED BY <1>6, <1>8, <1>9, CopiesMoved

\* The next bulk of h's socket arrives: it is one more of its kind in the in queue.
LEMMA BulkArrivesOnce ==
    ASSUME Inv, NEW h \in Hubs, BulkArrives(h), NEW m \in Msgs, Once(m)
    PROVE  Once(m)'
<1> DEFINE bulk == Head(outbox[h])
           had == IF bulk \in DOMAIN inQueue THEN inQueue[bulk] ELSE 0
           Old(c) == IF c[1] = "in" /\ c[2] = bulk /\ c[3] = had + 1
                     THEN <<"socket", h, 1, c[4]>>
                     ELSE IF c[1] = "socket" /\ c[2] = h
                          THEN <<"socket", h, c[3] + 1, c[4]>>
                          ELSE c
           f == [c \in Copies(m)' |-> Old(c)]
<1>1. /\ outbox[h] # <<>> /\ inQueue' = inQueue (+) SetToBag({bulk})
      /\ outbox' = [outbox EXCEPT ![h] = Tail(outbox[h])]
      /\ UNCHANGED <<published, queue, buffer>>
    BY DEF BulkArrives
<1>2. /\ outbox[h] \in Seq(Seq(Msgs)) /\ IsABag(inQueue) /\ outbox \in [Hubs -> Seq(Seq(Msgs))]
    BY DEF Inv, TypeOK
<1>3. /\ 1 \in DOMAIN outbox[h] /\ bulk = outbox[h][1]
      /\ \A n \in DOMAIN outbox'[h] : /\ n \in Nat /\ n >= 1 /\ n + 1 \in DOMAIN outbox[h]
                                      /\ outbox'[h][n] = outbox[h][n + 1]
      /\ \A k \in Hubs : k # h => outbox'[k] = outbox[k]
    <2>1. /\ Len(outbox[h]) \in Nat \ {0} /\ DOMAIN outbox[h] = 1 .. Len(outbox[h])
          /\ outbox'[h] = Tail(outbox[h])
        BY <1>1, <1>2, LenProperties, EmptySeq
    <2>2. /\ Tail(outbox[h]) \in Seq(Seq(Msgs)) /\ Len(Tail(outbox[h])) = Len(outbox[h]) - 1
          /\ \A i \in 1 .. Len(outbox[h]) - 1 : Tail(outbox[h])[i] = outbox[h][i + 1]
        BY <1>1, <1>2, HeadTailProperties
    <2>3. DOMAIN Tail(outbox[h]) = 1 .. Len(outbox[h]) - 1
        BY <2>2, LenProperties
    <2> QED BY <1>1, <1>2, <2>1, <2>2, <2>3
<1>4. /\ had \in Nat
      /\ BagToSet(inQueue') = BagToSet(inQueue) \cup {bulk}
      /\ inQueue'[bulk] = had + 1
      /\ \A b \in BagToSet(inQueue') : b # bulk => inQueue'[b] = inQueue[b]
      /\ had > 0 => bulk \in BagToSet(inQueue) /\ inQueue[bulk] = had
    <2>1. \A b \in DOMAIN inQueue : inQueue[b] \in Nat /\ inQueue[b] > 0
        BY <1>2 DEF IsABag
    <2> QED BY <1>1, <2>1 DEF BagToSet, SetToBag, (+)
<1> HIDE DEF bulk, had
<1>5. ASSUME NEW c \in Copies(m)'
      PROVE  \/ /\ \E i : c = <<"in", bulk, had + 1, i>>
                /\ Old(c) = <<"socket", h, 1, c[4]>> /\ Old(c) \in Copies(m)
             \/ /\ \E n \in Nat \ {0} : \E i : c = <<"socket", h, n, i>>
                /\ Old(c) = <<"socket", h, c[3] + 1, c[4]>> /\ Old(c) \in Copies(m)
             \/ /\ ~(c[1] = "socket" /\ c[2] = h)
                /\ Old(c) = c /\ Old(c) \in Copies(m)
    <2>1. IsCopy(m, c)'
        BY CopyKindsNext
    <2>2. ASSUME NEW k \in Hubs, NEW i \in DOMAIN buffer'[k],
                 buffer'[k][i] = m, c = <<"buffer", k, 0, i>>
          PROVE  Old(c) = c /\ IsCopy(m, c) /\ c[1] # "socket"
        BY <1>1, <2>2 DEF IsCopy
    <2>3. ASSUME m \in queue', c = <<"queue", 0, 0, 0>>
          PROVE  Old(c) = c /\ IsCopy(m, c) /\ c[1] # "socket"
        BY <1>1, <2>3 DEF IsCopy
    <2>4. ASSUME NEW k \in Hubs, NEW n \in DOMAIN outbox'[k], NEW i \in DOMAIN outbox'[k][n],
                 outbox'[k][n][i] = m, c = <<"socket", k, n, i>>, k # h
          PROVE  Old(c) = c /\ IsCopy(m, c) /\ c[2] # h
        BY <1>3, <2>4 DEF IsCopy
    <2>5. ASSUME NEW n \in DOMAIN outbox'[h], NEW i \in DOMAIN outbox'[h][n],
                 outbox'[h][n][i] = m, c = <<"socket", h, n, i>>
          PROVE  /\ \E j \in Nat \ {0} : \E l : c = <<"socket", h, j, l>>
                 /\ Old(c) = <<"socket", h, c[3] + 1, c[4]>> /\ IsCopy(m, Old(c))
        <3>1. n \in Nat \ {0} /\ Old(c) = <<"socket", h, n + 1, i>>
            BY <1>3, <2>5
        <3>2. IsCopy(m, <<"socket", h, n + 1, i>>)
            BY <1>3, <2>5 DEF IsCopy
        <3> QED BY <2>5, <3>1, <3>2
    <2>6. ASSUME NEW b \in BagToSet(inQueue'), NEW n \in 1 .. inQueue'[b], NEW i \in DOMAIN b,
                 b[i] = m, c = <<"in", b, n, i>>, ~(b = bulk /\ n = had + 1)
          PROVE  Old(c) = c /\ IsCopy(m, c) /\ c[1] # "socket"
        <3>1. b \in BagToSet(inQueue) /\ n \in 1 .. inQueue[b]
            BY <1>4, <2>6
        <3> QED BY <2>6, <3>1 DEF IsCopy
    <2>7. ASSUME NEW i \in DOMAIN bulk, bulk[i] = m, c = <<"in", bulk, had + 1, i>>
          PROVE  /\ \E l : c = <<"in", bulk, had + 1, l>>
                 /\ Old(c) = <<"socket", h, 1, c[4]>> /\ IsCopy(m, Old(c))
        <3>1. IsCopy(m, <<"socket", h, 1, i>>)
            BY <1>3, <2>7 DEF IsCopy
        <3> QED BY <2>7, <3>1
    <2>8. \A e : e \in Copies(m) <=> IsCopy(m, e)
        BY CopyKinds
    <2> HIDE DEF Old
    <2> QED BY <2>1, <2>2, <2>3, <2>4, <2>5, <2>6, <2>7, <2>8 DEF IsCopy
<1> HIDE DEF Old
<1>6. ASSUME NEW c \in Copies(m)', NEW d \in Copies(m)', Old(c) = Old(d) PROVE c = d
    <2> DEFINE lands(e) == /\ \E i : e = <<"in", bulk, had + 1, i>>
                           /\ Old(e) = <<"socket", h, 1, e[4]>>
               advances(e) == /\ \E n \in Nat \ {0} : \E i : e = <<"socket", h, n, i>>
                              /\ Old(e) = <<"socket", h, e[3] + 1, e[4]>>
               stays(e) == ~(e[1] = "socket" /\ e[2] = h) /\ Old(e) = e
    <2>1. \A e \in Copies(m)' : lands(e) \/ advances(e) \/ stays(e)
        BY <1>5
    <2>2. lands(c) /\ lands(d) => c = d
        BY <1>6
    <2>3. advances(c) /\ advances(d) => c = d
        BY <1>6
    <2>4. stays(c) /\ stays(d) => c = d
        BY <1>6
    <2>5. ~(lands(c) /\ advances(d)) /\ ~(lands(d) /\ advances(c))
        BY <1>6
    <2>6. ~(stays(c) /\ ~stays(d)) /\ ~(stays(d) /\ ~stays(c))
        BY <1>6, <2>1
    <2> QED BY <2>1, <2>2, <2>3, <2>4, <2>5, <2>6
<1>7. \A c \in Copies(m)' : f[c] = Old(c)
    OBVIOUS
<1>8. \A c \in Copies(m)' : Old(c) \in Copies(m)
    BY <1>5
<1> HIDE DEF f
<1> QED BY <1>1, <1>6, <1>7, <1>8, CopiesMoved

\* A message joins a batch that is not full yet.
LEMMA BufferOnce ==
    ASSUME Inv, NEW h \in Hubs, NEW q \in queue, queue' = queue \ {q},
           buffer' = [buffer EXCEPT ![h] = Append(buffer[h], q)],
           UNCHANGED <<published, outbox, inQueue>>, NEW m \in Msgs, Once(m)
    PROVE  Once(m)'
<1> DEFINE joined == <<"buffer", h, 0, Len(buffer[h]) + 1>>
           f == [c \in Copies(m)' |-> IF c = joined THEN <<"queue", 0, 0, 0>> ELSE c]
<1>1. buffer[h] \in Seq(Msgs) /\ q \in Msgs /\ buffer \in [Hubs -> Seq(Msgs)]
    BY DEF Inv, TypeOK
<1>2. /\ \A i \in DOMAIN buffer'[h] : \/ i \in DOMAIN buffer[h] /\ buffer'[h][i] = buffer[h][i]
                                      \/ i = Len(buffer[h]) + 1 /\ buffer'[h][i] = q
      /\ \A k \in Hubs : k # h => buffer'[k] = buffer[k]
    BY <1>1, AppendPlaces
<1>3. ASSUME NEW c \in Copies(m)'
      PROVE  \/ c = joined /\ m = q
             \/ c \in Copies(m) /\ c # <<"queue", 0, 0, 0>>
             \/ c \in Copies(m) /\ m # q
    <2>1. IsCopy(m, c)'
        BY CopyKindsNext
    <2>2. CASE m \in queue' /\ c = <<"queue", 0, 0, 0>>
        <3>1. IsCopy(m, c) /\ m # q
            BY <2>2 DEF IsCopy
        <3> QED BY <3>1, CopyKinds
    <2>3. ASSUME NEW k \in Hubs, NEW i \in DOMAIN buffer'[k],
                 buffer'[k][i] = m, c = <<"buffer", k, 0, i>>
          PROVE  (c = joined /\ m = q) \/ (IsCopy(m, c) /\ c # <<"queue", 0, 0, 0>>)
        BY <1>2, <2>3 DEF IsCopy
    <2>4. CASE \E k \in Hubs : \E n \in DOMAIN outbox[k] : \E i \in DOMAIN outbox[k][n] :
                   outbox[k][n][i] = m /\ c = <<"socket", k, n, i>>
        <3>1. IsCopy(m, c) /\ c # <<"queue", 0, 0, 0>>
            BY <2>4 DEF IsCopy
        <3> QED BY <3>1, CopyKinds
    <2>5. CASE \E b \in BagToSet(inQueue) : \E n \in 1 .. inQueue[b] : \E i \in DOMAIN b :
                   b[i] = m /\ c = <<"in", b, n, i>>
        <3>1. IsCopy(m, c) /\ c # <<"queue", 0, 0, 0>>
            BY <2>5 DEF IsCopy
        <3> QED BY <3>1, CopyKinds
    <2> QED BY <2>1, <2>2, <2>3, <2>4, <2>5, CopyKinds DEF IsCopy
<1>4. m = q => <<"queue", 0, 0, 0>> \in Copies(m)
    BY CopyKinds DEF IsCopy
<1>5. joined \notin Copies(m)
    <2>1. Len(buffer[h]) \in Nat /\ DOMAIN buffer[h] = 1 .. Len(buffer[h])
        BY <1>1, LenProperties
    <2>2. ~IsCopy(m, joined)
        BY <2>1 DEF IsCopy
    <2> QED BY <2>2, CopyKinds
<1> HIDE DEF joined
<1>6. \A c \in Copies(m)' : f[c] = IF c = joined THEN <<"queue", 0, 0, 0>> ELSE c
    OBVIOUS
<1> HIDE DEF f
<1>7. \A c \in Copies(m)' : f[c] \in Copies(m)
    BY <1>3, <1>4, <1>6, <1>5
<1>8. \A c, d \in Copies(m)' : f[c] = f[d] => c = d
    BY <1>3, <1>6, <1>5
<1> QED BY <1>7, <1>8, CopiesMoved

\* The copies stay where they are if the queues, buffers and sockets do.
LEMMA CopiesStay ==
    ASSUME UNCHANGED <<published, queue, buffer, outbox, inQueue>>, NEW m, Once(m)
    PROVE  Once(m)'
<1>1. Copies(m)' = Copies(m)
    BY DEF Copies
<1> QED BY <1>1, CopiesKept

LEMMA PublishOnce ==
    ASSUME Inv, NEW p \in Msgs, Publish(p), NEW m \in Msgs, Once(m)
    PROVE  Once(m)'
<1>1. /\ p \notin published /\ published' = published \cup {p} /\ queue' = queue \cup {p}
      /\ UNCHANGED <<buffer, outbox, inQueue>>
    BY DEF Publish
<1>2. ASSUME NEW c \in Copies(m)'
      PROVE  c \in Copies(m) \/ (m = p /\ c = <<"queue", 0, 0, 0>>)
    <2>1. IsCopy(m, c)'
        BY CopyKindsNext
    <2>2. IsCopy(m, c) \/ (m = p /\ c = <<"queue", 0, 0, 0>>)
        BY <1>1, <2>1 DEF IsCopy
    <2> QED BY <2>2, CopyKinds
<1> QED BY <1>1, <1>2 DEF Once

LEMMA OnceStep == ASSUME Inv, OnceInv, Next PROVE OnceInv'
<1> SUFFICES ASSUME upsets' = 0, NEW m \in Msgs PROVE Once(m)'
    BY DEF OnceInv
<1>1. upsets \in Nat
    BY UpsetsAssumption DEF Inv, TypeOK
<1>2. ASSUME NEW h \in Hubs, Stop(h) \/ Crash(h) PROVE FALSE
    BY <1>1, <1>2 DEF Stop, Crash
<1>3. upsets = 0 /\ Once(m)
    <2>1. upsets' = upsets
        BY <1>2 DEF Next, Publish, ProcessMessage, TimerFires, BulkArrives, AckArrives,
                    InQueueStops, Restart, brokerVars
    <2> QED BY <2>1 DEF OnceInv
<1>4. ASSUME NEW p \in Msgs, Publish(p) PROVE Once(m)'
    BY <1>3, <1>4, PublishOnce
<1>5. ASSUME NEW h \in Hubs, ProcessMessage(h) PROVE Once(m)'
    <2>1. PICK q \in queue :
             /\ queue' = queue \ {q}
             /\ \/ /\ EnqueueBulk(h, Append(buffer[h], q))
                   /\ buffer' = [buffer EXCEPT ![h] = <<>>]
                \/ /\ buffer' = [buffer EXCEPT ![h] = Append(buffer[h], q)]
                   /\ UNCHANGED outbox
        BY <1>5 DEF ProcessMessage
    <2>2. UNCHANGED <<published, inQueue>>
        BY <1>5 DEF ProcessMessage
    <2>3. Append(buffer[h], q) \in Seq(Msgs)
        BY AppendElements DEF Inv, TypeOK
    <2>4. CASE EnqueueBulk(h, Append(buffer[h], q)) /\ buffer' = [buffer EXCEPT ![h] = <<>>]
        BY <1>3, <2>1, <2>2, <2>3, <2>4, EnqueueOnce
    <2>5. CASE buffer' = [buffer EXCEPT ![h] = Append(buffer[h], q)] /\ UNCHANGED outbox
        BY <1>3, <2>1, <2>2, <2>5, BufferOnce
    <2> QED BY <2>1, <2>4, <2>5
<1>6. ASSUME NEW h \in Hubs, TimerFires(h) PROVE Once(m)'
    <2>1. /\ EnqueueBulk(h, buffer[h]) /\ buffer' = [buffer EXCEPT ![h] = <<>>]
          /\ UNCHANGED <<published, inQueue, queue>>
        BY <1>6 DEF TimerFires, brokerVars
    <2>2. buffer[h] \in Seq(Msgs)
        BY DEF Inv, TypeOK
    <2> QED BY <1>3, <2>1, <2>2, EnqueueOnce
<1>7. ASSUME NEW h \in Hubs, BulkArrives(h) PROVE Once(m)'
    BY <1>3, <1>7, BulkArrivesOnce
<1>8. ASSUME NEW h \in Hubs, AckArrives(h) \/ InQueueStops(h) \/ Restart(h) PROVE Once(m)'
    <2>1. UNCHANGED <<published, queue, buffer, outbox, inQueue>>
        BY <1>8 DEF AckArrives, InQueueStops, Restart, brokerVars
    <2> QED BY <1>3, <2>1, CopiesStay
<1> QED BY <1>2, <1>4, <1>5, <1>6, <1>7, <1>8 DEF Next

LEMMA OnceInit == Init => OnceInv
<1> SUFFICES ASSUME Init, NEW m PROVE Copies(m) = {}
    BY DEF OnceInv, Once
<1>1. BagToSet(inQueue) = {}
    BY DEF Init, EmptyBag, SetToBag, BagToSet
<1>2. DOMAIN <<>> = {}
    OBVIOUS
<1>3. \A c : ~IsCopy(m, c)
    BY <1>1, <1>2 DEF IsCopy, Init
<1> QED BY <1>3, CopyKinds

(* While no hub dies or stops, a message is in one place only: with the    *)
(* broker, or once in one buffer or in one bulk, whatever the size of the  *)
(* bulks and however the timeouts of earlier batches fire (bulk.js:43-69). *)
THEOREM OneBulkHolds == Spec => []OneBulk
<1>1. Inv /\ OnceInv /\ [Next]_vars => OnceInv'
    <2>1. ASSUME OnceInv, UNCHANGED vars PROVE OnceInv'
        BY <2>1, CopiesStay DEF OnceInv, vars, brokerVars
    <2> QED BY <2>1, OnceStep
<1>2. OnceInv => OneBulk
    BY DEF OnceInv, Once, OneBulk
<1> QED BY <1>1, <1>2, OnceInit, Invariance, PTL DEF Spec

-----------------------------------------------------------------------------
(* At least one bulk.  What nobody has in hand nobody takes up again, save *)
(* a message that is published; what is in a bulk or wiped stays that.     *)

\* What hub h has of the messages.
Has(h) == held[h] \cup ToSet(buffer[h]) \cup Packed(outbox[h])

\* A message that nobody has is left alone.
Untouched(m) == /\ ~InHand(m)'
                /\ InBulk(m)' <=> InBulk(m)
                /\ m \in wiped' <=> m \in wiped
                /\ m \in published' <=> m \in published

\* Only messages in hand are wiped, put into bulks or passed on, and nothing is published.
LEMMA LeftAlone ==
    ASSUME NEW m, ~InHand(m), published' = published,
           m \notin queue', \A h \in Hubs : m \notin Has(h)',
           m \in wiped' <=> m \in wiped, InBulk(m)' <=> InBulk(m)
    PROVE  Untouched(m)
BY DEF InHand, Has, Untouched

LEMMA EnqueueLeavesAlone ==
    ASSUME TypeOK, NEW m, ~InHand(m), NEW h \in Hubs, NEW bulk \in Seq(Msgs),
           EnqueueBulk(h, bulk), m \notin ToSet(bulk)
    PROVE  \A k \in Hubs : m \notin Packed(outbox'[k])
BY Enqueued DEF InHand

LEMMA ProcessMessageLeavesAlone ==
    ASSUME Inv, NEW m, ~InHand(m), NEW h \in Hubs, ProcessMessage(h)
    PROVE  Untouched(m)
<1>1. PICK q \in queue :
        /\ queue' = queue \ {q} /\ held' = [held EXCEPT ![h] = @ \cup {q}]
        /\ \/ /\ EnqueueBulk(h, Append(buffer[h], q))
              /\ buffer' = [buffer EXCEPT ![h] = <<>>]
           \/ /\ buffer' = [buffer EXCEPT ![h] = Append(buffer[h], q)]
              /\ UNCHANGED outbox
    BY DEF ProcessMessage
<1>2. UNCHANGED <<published, inQueue, wiped>>
    BY DEF ProcessMessage
<1> DEFINE batch == Append(buffer[h], q)
<1>3. /\ batch \in Seq(Msgs) /\ ToSet(batch) = ToSet(buffer[h]) \cup {q}
    BY AppendElements DEF Inv, TypeOK
<1>4. m # q /\ m \notin ToSet(batch) /\ m \notin queue'
    BY <1>1, <1>3 DEF InHand
<1> HIDE DEF batch
<1>5. \A k \in Hubs : m \notin Packed(outbox'[k])
    BY <1>1, <1>3, <1>4, EnqueueLeavesAlone DEF batch, InHand, Inv
<1>6. \A k \in Hubs : m \notin ToSet(buffer'[k])
    BY <1>1, <1>4, EmptyElements DEF batch, InHand, Inv, TypeOK
<1>7. \A k \in Hubs : m \notin held'[k]
    BY <1>1, <1>4 DEF InHand, Inv, TypeOK
<1> QED BY <1>2, <1>4, <1>5, <1>6, <1>7, LeftAlone DEF Has, InBulk

LEMMA TimerFiresLeavesAlone ==
    ASSUME Inv, NEW m, ~InHand(m), NEW h \in Hubs, TimerFires(h)
    PROVE  Untouched(m)
<1>1. /\ EnqueueBulk(h, buffer[h]) /\ buffer' = [buffer EXCEPT ![h] = <<>>]
      /\ UNCHANGED <<published, queue, inQueue, wiped, held>>
    BY DEF TimerFires, brokerVars
<1>2. buffer[h] \in Seq(Msgs) /\ m \notin ToSet(buffer[h])
    BY DEF Inv, TypeOK, InHand
<1>3. \A k \in Hubs : m \notin Packed(outbox'[k])
    BY <1>1, <1>2, EnqueueLeavesAlone DEF Inv
<1>4. \A k \in Hubs : m \notin ToSet(buffer'[k])
    BY <1>1, EmptyElements DEF InHand, Inv, TypeOK
<1> QED BY <1>1, <1>3, <1>4, LeftAlone DEF Has, InHand, InBulk

LEMMA BulkArrivesLeavesAlone ==
    ASSUME Inv, NEW m, ~InHand(m), NEW h \in Hubs, BulkArrives(h)
    PROVE  Untouched(m)
<1>1. /\ outbox[h] # <<>> /\ inQueue' = inQueue (+) SetToBag({Head(outbox[h])})
      /\ outbox' = [outbox EXCEPT ![h] = Tail(outbox[h])]
      /\ UNCHANGED <<published, queue, wiped, held, buffer>>
    BY DEF BulkArrives
<1>2. /\ Head(outbox[h]) \in Seq(Msgs)
      /\ Packed(outbox[h]) = ToSet(Head(outbox[h])) \cup Packed(Tail(outbox[h]))
    BY <1>1, HeadTailElements, PackedShrinks DEF Inv, TypeOK
<1>3. InBulk(m)' <=> InBulk(m) \/ m \in ToSet(Head(outbox[h]))
    BY <1>1, <1>2, InQueueGrows DEF Inv, TypeOK
<1>4. m \notin ToSet(Head(outbox[h])) /\ \A k \in Hubs : m \notin Packed(outbox'[k])
    BY <1>1, <1>2 DEF InHand, Inv, TypeOK
<1> QED BY <1>1, <1>3, <1>4, LeftAlone DEF Has, InHand

LEMMA OtherStepLeavesAlone ==
    ASSUME Inv, NEW m, ~InHand(m), NEW h \in Hubs,
           AckArrives(h) \/ Stop(h) \/ InQueueStops(h) \/ Crash(h) \/ Restart(h)
    PROVE  Untouched(m)
<1> USE DEF brokerVars, hubVars
<1>1. m \notin queue /\ m \notin held[h] /\ m \notin Packed(outbox[h])
    BY DEF InHand
<1>2. UNCHANGED <<published, inQueue>> /\ (InBulk(m)' <=> InBulk(m))
    BY DEF AckArrives, Stop, InQueueStops, Crash, Restart, InBulk
<1>3. m \notin queue' /\ (m \in wiped' <=> m \in wiped)
    BY <1>1 DEF AckArrives, Stop, InQueueStops, Crash, Restart
<1>4. /\ held' = held \/ held' = [held EXCEPT ![h] = {}] \/ \E a : held' = [held EXCEPT ![h] = @ \ a]
      /\ buffer' = buffer \/ buffer' = [buffer EXCEPT ![h] = <<>>]
      /\ outbox' = outbox \/ outbox' = [outbox EXCEPT ![h] = <<>>]
    BY DEF AckArrives, Stop, InQueueStops, Crash, Restart
<1>5. ASSUME NEW k \in Hubs PROVE m \notin Has(k)'
    <2>1. m \notin held'[k]
        BY <1>4 DEF InHand, Inv, TypeOK
    <2>2. m \notin ToSet(buffer'[k]) /\ m \notin Packed(outbox'[k])
        BY <1>4, EmptyElements DEF InHand, Inv, TypeOK
    <2> QED BY <2>1, <2>2 DEF Has
<1> QED BY <1>2, <1>3, <1>5, LeftAlone

\* Nobody takes up a message that nobody has, except the one that is published.
LEMMA NothingFromNothing ==
    ASSUME Inv, [Next]_vars, NEW m \in Msgs, ~InHand(m)
    PROVE  Publish(m) \/ Untouched(m)
<1>1. ASSUME NEW p \in Msgs, Publish(p), p # m PROVE Untouched(m)
    BY <1>1 DEF Publish, Untouched, InHand, InBulk
<1>2. CASE UNCHANGED vars
    BY <1>2 DEF vars, brokerVars, Untouched, InHand, InBulk
<1> QED BY <1>1, <1>2, ProcessMessageLeavesAlone, TimerFiresLeavesAlone, BulkArrivesLeavesAlone,
           OtherStepLeavesAlone DEF Next

\* What is published, wiped or in a bulk stays that.
LEMMA EndsGrow ==
    ASSUME Inv, [Next]_vars, NEW m
    PROVE  /\ InBulk(m) => InBulk(m)'
           /\ published \subseteq published' /\ wiped \subseteq wiped'
<1> USE DEF brokerVars, hubVars
<1>1. CASE UNCHANGED vars
    BY <1>1 DEF vars, InBulk
<1>2. ASSUME NEW p \in Msgs, Publish(p) PROVE inQueue' = inQueue /\ wiped' = wiped /\ published \subseteq published'
    BY <1>2 DEF Publish
<1>3. ASSUME NEW h \in Hubs, ProcessMessage(h) \/ TimerFires(h) \/ AckArrives(h) \/ Stop(h)
                               \/ InQueueStops(h) \/ Crash(h) \/ Restart(h)
      PROVE  inQueue' = inQueue /\ wiped \subseteq wiped' /\ published' = published
    BY <1>3 DEF ProcessMessage, TimerFires, AckArrives, Stop, InQueueStops, Crash, Restart
<1>4. ASSUME NEW h \in Hubs, BulkArrives(h)
      PROVE  (InBulk(m) => InBulk(m)') /\ wiped' = wiped /\ published' = published
    <2>1. /\ outbox[h] # <<>> /\ inQueue' = inQueue (+) SetToBag({Head(outbox[h])})
          /\ UNCHANGED <<published, wiped>>
        BY <1>4 DEF BulkArrives
    <2>2. Head(outbox[h]) \in Seq(Msgs)
        BY <2>1, HeadTailElements DEF Inv, TypeOK
    <2> QED BY <2>1, <2>2, InQueueGrows DEF Inv, TypeOK
<1>5. inQueue' = inQueue => (InBulk(m) => InBulk(m)')
    BY DEF InBulk
<1> QED BY <1>1, <1>2, <1>3, <1>4, <1>5 DEF Next

-----------------------------------------------------------------------------
(* The refinement.                                                         *)

\* Only messages that have been published are in hand.
Known == \A m \in Msgs : InHand(m) => m \in published

LEMMA KnownInit == Init => Known
BY EmptyElements DEF Init, Known, InHand

LEMMA KnownStep ==
    ASSUME Inv, Known, [Next]_vars
    PROVE  Known'
<1> SUFFICES ASSUME NEW m \in Msgs, InHand(m)' PROVE m \in published'
    BY DEF Known
<1>1. CASE InHand(m)
    BY <1>1, EndsGrow DEF Known
<1>2. CASE ~InHand(m)
    BY <1>2, NothingFromNothing DEF Untouched, Publish
<1> QED BY <1>1, <1>2

LEMMA PromiseMoves ==
    ASSUME NEW m \in Msgs,
           \/ Stage(m) = "new" /\ Stage(m)' \in {"new", "held"} /\ Ends(m)' = Ends(m)
           \/ Stage(m) = "gone" /\ Stage(m)' = "gone" /\ Ends(m)' = Ends(m)
           \/ Stage(m) = "held" /\ Stage(m)' = "held" /\ Ends(m) \subseteq Ends(m)'
           \/ Stage(m) = "held" /\ Stage(m)' = "gone" /\ Ends(m) \subseteq Ends(m)' /\ Ends(m)' # {}
    PROVE  Promise!Accept(m) \/ Promise!Hold(m) \/ Promise!LetGo(m) \/ Promise!Ignore(m)
BY DEF Promise!Accept, Promise!Hold, Promise!LetGo, Promise!Ignore, Promise!Moves

LEMMA PromiseStep ==
    ASSUME Inv, NoLoss', Known, Known', [Next]_vars
    PROVE  Promise!Next
<1> SUFFICES ASSUME NEW m \in Msgs
             PROVE  Promise!Accept(m) \/ Promise!Hold(m) \/ Promise!LetGo(m) \/ Promise!Ignore(m)
    BY DEF Promise!Next
<1>1. /\ Stage(m) = IF InHand(m) THEN "held" ELSE IF m \in published THEN "gone" ELSE "new"
      /\ Stage(m)' = IF InHand(m)' THEN "held" ELSE IF m \in published' THEN "gone" ELSE "new"
    BY DEF Stage
<1>2. CASE InHand(m)
    <2>1. Ends(m) \subseteq Ends(m)' /\ m \in published'
        BY <1>2, EndsGrow DEF Ends, Known
    <2>2. InHand(m)' \/ Ends(m)' # {}
        <3>1. InHand(m)' \/ InBulk(m)' \/ m \in wiped'
            <4>1. up' \subseteq Hubs
                BY NextInv DEF Inv, TypeOK
            <4> QED BY <2>1, <4>1 DEF NoLoss, InHand
        <3> QED BY <3>1 DEF Ends
    <2> QED BY <1>1, <1>2, <2>1, <2>2, PromiseMoves
<1>3. CASE ~InHand(m) /\ Publish(m)
    <2>1. m \notin published /\ InHand(m)' /\ UNCHANGED <<inQueue, wiped>>
        BY <1>3 DEF Publish, InHand
    <2>2. Ends(m)' = Ends(m)
        BY <2>1 DEF Ends, InBulk
    <2> QED BY <1>1, <1>3, <2>1, <2>2, PromiseMoves
<1>4. CASE ~InHand(m) /\ Untouched(m)
    <2>1. Ends(m)' = Ends(m)
        BY <1>4 DEF Ends, Untouched
    <2> QED BY <1>1, <1>4, <2>1, PromiseMoves DEF Untouched
<1> QED BY <1>2, <1>3, <1>4, NothingFromNothing

(* Whatever is routed to the bulk queue is held until a bulk has it or the *)
(* one loss between two sockets has wiped it, and nobody takes it up again *)
(* after that, whatever the size of the bulks and however many hubs stop   *)
(* with full buffers, die or fire old timeouts (bulk.js:39-69).            *)
THEOREM BulksAtLeastOnceHolds == Spec => BulksAtLeastOnce
<1>1. Init => Promise!Init
    <2> SUFFICES ASSUME Init PROVE Promise!Init
        OBVIOUS
    <2>1. \A m \in Msgs : ~InHand(m) /\ m \notin published /\ m \notin wiped /\ ~InBulk(m)
        BY EmptyElements DEF Init, InHand, InBulk, EmptyBag, SetToBag, BagToSet
    <2>2. \A m \in Msgs : Stage(m) = "new" /\ Ends(m) = {}
        BY <2>1 DEF Stage, Ends
    <2> QED BY <2>2 DEF Promise!Init
<1>2. Inv /\ Known /\ [Next]_vars => Known'
    BY KnownStep
<1>3. Inv /\ NoLoss' /\ Known /\ Known' /\ [Next]_vars => [Promise!Next]_(Promise!pvars)
    BY PromiseStep
<1> QED BY <1>1, <1>2, <1>3, KnownInit, Invariance, LossExplained, PTL
        DEF Spec, BulksAtLeastOnce, Promise!Spec

=============================================================================
