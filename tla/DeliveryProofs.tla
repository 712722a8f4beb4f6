---------------------------- MODULE DeliveryProofs ----------------------------
(***************************************************************************)
(* The invariants of Delivery, proved for any number of writes and faults  *)
(* and any limits of the outbox, the queue and the cache.                  *)
(*                                                                         *)
(* The invariant IInv has three layers over the types, each with one lemma *)
(* that says that a step keeps it: what the outbox has sent (PrefixStep),  *)
(* what it has saved and still owes (StoredStep, NothingIsLostStep), and   *)
(* what the host remembers (WindowStep, OnceStep).                         *)
(*                                                                         *)
(* Delivery implements RetainedWrites (DeliveryKeepsItsPromise) by         *)
(* OrderInv, which adds to IInv what the host has done (HostPart), that    *)
(* the outbox and its file rise (BoxPart), and that every line on its way  *)
(* comes after all older ones that are not done: on each wire (WirePart),  *)
(* in the transport's queue behind the wire (QueuePart), and, until the    *)
(* link hears that its connection is gone, in the outbox behind both       *)
(* (SentPart).  Each part has one lemma that a step keeps it.              *)
(***************************************************************************)
EXTENDS Delivery, SequenceTheorems, FiniteSetTheorems, WellFoundedInduction, TLAPS

Entries == [key : Writes, sent : BOOLEAN]
Uses == [key : Writes, fresh : BOOLEAN]

-------------------------------------------------------------------------------
(* Helpers on numbers and sequences *)

Less == {pair \in Nat \X Nat : pair[1] < pair[2]}

LEMMA LessIsWellFounded == IsWellFoundedOn(Less, Nat)
BY NatLessThanWellFounded DEF OpToRel, Less

LEMMA LeastNatural ==
  ASSUME NEW T \in SUBSET Nat, T # {}
  PROVE  \E least \in T : \A n \in T : least <= n
<1>1. PICK least \in T : \A n \in T : <<n, least>> \notin Less
  BY LessIsWellFounded, WFMin
<1>2. \A n \in T : ~(n < least)
  BY <1>1 DEF Less
<1> QED BY <1>2

LEMMA FunctionIsSeq ==
  ASSUME NEW S, NEW n \in Nat, NEW f \in [1..n -> S]
  PROVE  f \in Seq(S) /\ Len(f) = n
<1>1. f \in Seq(S)
  BY SeqDef
<1> QED BY <1>1, LenProperties

LEMMA WithoutProperties ==
  ASSUME NEW S, NEW s \in Seq(S), NEW i \in DOMAIN s
  PROVE  /\ Without(s, i) \in Seq(S)
         /\ Len(Without(s, i)) = Len(s) - 1
         /\ \A j \in 1..(Len(s) - 1) :
              Without(s, i)[j] = IF j < i THEN s[j] ELSE s[j + 1]
<1> DEFINE before == SubSeq(s, 1, i - 1)
           after == SubSeq(s, i + 1, Len(s))
<1>1. Len(s) \in Nat /\ DOMAIN s = 1..Len(s) /\ i \in 1..Len(s)
  BY LenProperties
<1>2. \A j \in 1..Len(s) : s[j] \in S
  BY ElementOfSeq
<1>3. /\ before \in Seq(S) /\ Len(before) = i - 1
      /\ \A j \in 1..(i - 1) : before[j] = s[j]
  BY <1>1, <1>2, SubSeqProperties
<1>4. /\ after \in Seq(S) /\ Len(after) = Len(s) - i
      /\ \A j \in 1..(Len(s) - i) : after[j] = s[i + j]
  BY SMTT(60), <1>1, <1>2, SubSeqProperties
<1> HIDE DEF before, after
<1>5. /\ before \o after \in Seq(S)
      /\ Len(before \o after) = Len(before) + Len(after)
      /\ \A j \in 1..(Len(before) + Len(after)) :
           (before \o after)[j] =
             IF j <= Len(before) THEN before[j] ELSE after[j - Len(before)]
  BY <1>3, <1>4, ConcatProperties
<1>6. /\ Len(before \o after) = Len(s) - 1
      /\ \A j \in 1..(Len(s) - 1) :
           (before \o after)[j] = IF j < i THEN s[j] ELSE s[j + 1]
  <2>1. \A j \in 1..(Len(s) - 1) : j < i => (before \o after)[j] = s[j]
    BY SMTT(60), <1>1, <1>3, <1>4, <1>5
  <2>2. ASSUME NEW j \in 1..(Len(s) - 1), ~(j < i)
        PROVE  (before \o after)[j] = s[j + 1]
    <3>1. j - (i - 1) \in 1..(Len(s) - i) /\ i + (j - (i - 1)) = j + 1
      BY <1>1, <2>2
    <3>2. (before \o after)[j] = after[j - (i - 1)]
      BY SMTT(60), <1>1, <1>3, <1>4, <1>5, <2>2
    <3> QED BY <1>4, <3>1, <3>2
  <2> QED BY SMTT(60), <1>1, <1>3, <1>4, <1>5, <2>1, <2>2
<1> USE DEF before, after
<1> QED BY <1>5, <1>6 DEF Without

LEMMA PrefixProperties ==
  ASSUME NEW S, NEW s \in Seq(S), NEW n \in 0..Len(s)
  PROVE  /\ SubSeq(s, 1, n) \in Seq(S)
         /\ Len(SubSeq(s, 1, n)) = n
<1>1. Len(s) \in Nat /\ n \in Nat
  BY LenProperties
<1>2. \A j \in 1..n : s[j] \in S
  BY <1>1, ElementOfSeq
<1> QED BY <1>1, <1>2, SubSeqProperties

LEMMA KeysProperties ==
  ASSUME NEW box \in Seq(Entries)
  PROVE  /\ Keys(box) \in Seq(Writes)
         /\ Len(Keys(box)) = Len(box)
         /\ \A i \in 1..Len(box) : Keys(box)[i] = box[i].key /\ box[i].key \in Writes
<1>1. Len(box) \in Nat /\ DOMAIN box = 1..Len(box)
  BY LenProperties
<1>2. \A i \in 1..Len(box) : box[i] \in Entries
  BY ElementOfSeq
<1>3. Keys(box) \in [1..Len(box) -> Writes]
  BY <1>1, <1>2 DEF Keys, Entries
<1> QED BY <1>1, <1>2, <1>3, FunctionIsSeq DEF Keys, Entries

LEMMA UnsentProperties ==
  ASSUME NEW box \in Seq(Entries)
  PROVE  /\ Unsent(box) \in Seq(Entries)
         /\ Len(Unsent(box)) = Len(box)
         /\ \A i \in 1..Len(box) : Unsent(box)[i].key = box[i].key /\ ~Unsent(box)[i].sent
<1>1. Len(box) \in Nat /\ DOMAIN box = 1..Len(box)
  BY LenProperties
<1>2. \A i \in 1..Len(box) : box[i] \in Entries
  BY ElementOfSeq
<1>3. \A i \in 1..Len(box) : Unsent(box)[i] = [key |-> box[i].key, sent |-> FALSE]
  BY <1>1, <1>2 DEF Unsent, Entries
<1>4. Unsent(box) \in [1..Len(box) -> Entries]
  BY <1>1, <1>2, <1>3 DEF Unsent, Entries
<1> QED BY <1>1, <1>3, <1>4, FunctionIsSeq

LEMMA SentCountProperties ==
  ASSUME NEW box \in Seq(Entries)
  PROVE  /\ SentCount(box) \in 0..Len(box)
         /\ \A i \in 1..SentCount(box) : box[i].sent
         /\ SentCount(box) < Len(box) => ~box[SentCount(box) + 1].sent
<1> DEFINE n == Len(box)
           T == {i \in 1..(n + 1) : i = n + 1 \/ ~box[i].sent}
<1>1. n \in Nat
  BY LenProperties
<1>2. n + 1 \in T /\ T \in SUBSET Nat
  BY <1>1
<1>3. PICK least \in T : \A i \in T : least <= i
  BY <1>2, LeastNatural
<1>4. /\ least - 1 \in 0..n
      /\ \A i \in 1..(least - 1) : box[i].sent
      /\ least - 1 < n => ~box[(least - 1) + 1].sent
  BY <1>1, <1>3
<1>5. \E m \in 0..Len(box) :
        /\ \A i \in 1..m : box[i].sent
        /\ m < Len(box) => ~box[m + 1].sent
  BY <1>4
<1> QED BY <1>5 DEF SentCount

LEMMA MemberIsElement ==
  ASSUME NEW S, NEW s \in Seq(S), NEW x
  PROVE  x \in Elements(s) <=> \E i \in 1..Len(s) : s[i] = x
BY LenProperties DEF Elements

LEMMA RememberProperties ==
  ASSUME NEW keys \in Seq(Writes), Len(keys) <= CacheLimit, NEW key \in Writes
  PROVE  /\ Remember(keys, key) \in Seq(Writes)
         /\ Len(Remember(keys, key)) \in 1..CacheLimit
         /\ Remember(keys, key)[Len(Remember(keys, key))] = key
         /\ \A p \in 1..Len(keys) : p > 1 \/ Len(keys) < CacheLimit =>
              \E q \in 1..Len(Remember(keys, key)) :
                /\ Remember(keys, key)[q] = keys[p]
                /\ Len(Remember(keys, key)) - q = Len(keys) - p + 1
<1> DEFINE grown == Append(keys, key)
<1>1. CacheLimit \in Nat \ {0} /\ Len(keys) \in Nat
  BY LimitsAssumption, LenProperties
<1>2. /\ grown \in Seq(Writes) /\ grown # <<>> /\ Len(grown) = Len(keys) + 1
      /\ \A i \in 1..Len(keys) : grown[i] = keys[i]
      /\ grown[Len(keys) + 1] = key
  BY AppendProperties
<1>3. CASE Len(grown) > CacheLimit
  <2>1. Remember(keys, key) = Tail(grown) /\ Len(keys) = CacheLimit
    BY <1>1, <1>2, <1>3 DEF Remember
  <2>2. /\ Tail(grown) \in Seq(Writes) /\ Len(Tail(grown)) = Len(keys)
        /\ \A i \in 1..Len(keys) : Tail(grown)[i] = grown[i + 1]
    BY <1>1, <1>2, HeadTailProperties
  <2>3. Tail(grown)[Len(keys)] = key
    BY <1>1, <1>2, <2>1, <2>2
  <2>4. ASSUME NEW p \in 1..Len(keys), p > 1
        PROVE  /\ p - 1 \in 1..Len(keys)
               /\ Tail(grown)[p - 1] = keys[p]
               /\ Len(keys) - (p - 1) = Len(keys) - p + 1
    BY <1>1, <1>2, <2>2, <2>4
  <2>5. \A p \in 1..Len(keys) : p > 1 \/ Len(keys) < CacheLimit =>
          \E q \in 1..Len(Tail(grown)) :
            Tail(grown)[q] = keys[p] /\ Len(Tail(grown)) - q = Len(keys) - p + 1
    <3> HIDE DEF grown
    <3>1. ASSUME NEW p \in 1..Len(keys), p > 1 \/ Len(keys) < CacheLimit
          PROVE  p > 1
      BY <1>1, <2>1, <3>1
    <3>2. ASSUME NEW p \in 1..Len(keys), p > 1 \/ Len(keys) < CacheLimit
          PROVE  \E q \in 1..Len(Tail(grown)) :
                   Tail(grown)[q] = keys[p] /\ Len(Tail(grown)) - q = Len(keys) - p + 1
      <4>1. p - 1 \in 1..Len(Tail(grown))
        BY <2>2, <2>4, <3>1, <3>2
      <4> QED BY <2>2, <2>4, <3>1, <3>2, <4>1
    <3> QED BY <3>2
  <2>6. Len(Tail(grown)) \in 1..CacheLimit /\ Tail(grown)[Len(Tail(grown))] = key
    BY <1>1, <2>1, <2>2, <2>3
  <2> HIDE DEF grown
  <2> QED BY <2>1, <2>2, <2>5, <2>6
<1>4. CASE ~(Len(grown) > CacheLimit)
  <2>1. Remember(keys, key) = grown
    BY <1>4 DEF Remember
  <2>2. ASSUME NEW p \in 1..Len(keys)
        PROVE  /\ p \in 1..Len(grown)
               /\ grown[p] = keys[p]
               /\ Len(grown) - p = Len(keys) - p + 1
    BY <1>1, <1>2
  <2> QED BY <1>1, <1>2, <1>4, <2>1, <2>2
<1> QED BY <1>3, <1>4

LEMMA RefreshProperties ==
  ASSUME NEW keys \in Seq(Writes), NEW key \in Elements(keys)
  PROVE  /\ Refresh(keys, key) \in Seq(Writes)
         /\ Len(Refresh(keys, key)) = Len(keys)
         /\ Refresh(keys, key)[Len(keys)] = key
         /\ \A p \in 1..Len(keys) : keys[p] # key =>
              \E q \in 1..Len(keys) :
                /\ Refresh(keys, key)[q] = keys[p]
                /\ Len(keys) - q <= Len(keys) - p + 1
<1> DEFINE First(i) == keys[i] = key /\ \A j \in 1..(i - 1) : keys[j] # key
           T == {i \in 1..Len(keys) : keys[i] = key}
           i0 == CHOOSE i \in DOMAIN keys : First(i)
           rest == Without(keys, i0)
<1>1. Len(keys) \in Nat /\ DOMAIN keys = 1..Len(keys)
  BY LenProperties
<1>2. T # {} /\ T \in SUBSET Nat
  BY <1>1, MemberIsElement
<1>3. PICK least \in T : \A i \in T : least <= i
  BY <1>2, LeastNatural
<1>4. First(least) /\ least \in DOMAIN keys
  BY <1>1, <1>3
<1>5. First(i0) /\ i0 \in 1..Len(keys)
  BY SMTT(60), <1>1, <1>4
<1> HIDE DEF i0
<1>6. /\ rest \in Seq(Writes) /\ Len(rest) = Len(keys) - 1
      /\ \A j \in 1..(Len(keys) - 1) : rest[j] = IF j < i0 THEN keys[j] ELSE keys[j + 1]
  BY ZenonT(60), <1>1, <1>5, WithoutProperties
<1> HIDE DEF rest
<1>7. key \in Writes
  BY <1>5, ElementOfSeq
<1>8. Refresh(keys, key) = Append(rest, key)
  BY DEF Refresh, i0, rest
<1>9. /\ Append(rest, key) \in Seq(Writes) /\ Len(Append(rest, key)) = Len(keys)
      /\ \A j \in 1..(Len(keys) - 1) : Append(rest, key)[j] = rest[j]
      /\ Append(rest, key)[Len(keys)] = key
  <2>1. /\ Append(rest, key) \in Seq(Writes) /\ Len(Append(rest, key)) = Len(rest) + 1
        /\ \A j \in 1..Len(rest) : Append(rest, key)[j] = rest[j]
        /\ Append(rest, key)[Len(rest) + 1] = key
    BY <1>6, <1>7, AppendProperties
  <2> QED BY <1>1, <1>6, <2>1
<1>10. ASSUME NEW p \in 1..Len(keys), keys[p] # key
       PROVE  \E q \in 1..Len(keys) : /\ Append(rest, key)[q] = keys[p]
                                      /\ Len(keys) - q <= Len(keys) - p + 1
  <2>1. CASE p < i0
    <3>1. p \in 1..(Len(keys) - 1) /\ rest[p] = keys[p]
      BY <1>1, <1>5, <1>6, <2>1
    <3> QED BY <1>1, <1>9, <3>1
  <2>2. CASE p > i0
    <3>1. p - 1 \in 1..(Len(keys) - 1) /\ rest[p - 1] = keys[p]
      BY <1>1, <1>5, <1>6, <2>2
    <3> QED BY <1>1, <1>9, <3>1
  <2>3. p # i0
    BY <1>5, <1>10
  <2>4. p < i0 \/ p > i0
    BY <1>1, <1>5, <2>3
  <2> QED BY <2>1, <2>2, <2>4
<1> QED BY <1>8, <1>9, <1>10

LEMMA WireCut ==
  ASSUME NEW n \in 0..Len(wire[conn]), conn \in Conns, wire \in [Conns -> Seq(Writes)]
  PROVE  [wire EXCEPT ![conn] = SubSeq(@, 1, n)] \in [Conns -> Seq(Writes)]
<1>1. wire[conn] \in Seq(Writes)
  OBVIOUS
<1>2. SubSeq(wire[conn], 1, n) \in Seq(Writes)
  BY <1>1, PrefixProperties
<1> QED BY <1>2

LEMMA HangUpTypes ==
  ASSUME TypeOK, HangUp
  PROVE  wire' \in [Conns -> Seq(Writes)] /\ replies' \in Seq(Writes)
<1>1. CASE Cut
  <2>1. wire' \in [Conns -> Seq(Writes)]
    BY <1>1, WireCut DEF Cut, TypeOK
  <2>2. replies' \in Seq(Writes)
    BY SMTT(60), <1>1, PrefixProperties DEF Cut, TypeOK
  <2> QED BY <2>1, <2>2
<1>2. CASE UNCHANGED <<wire, replies>>
  BY <1>2 DEF TypeOK
<1> QED BY <1>1, <1>2 DEF HangUp

-------------------------------------------------------------------------------
(* Types *)

\* Each connection but the first costs a fault, or a wake that one has paid for.
ConnBound ==
  /\ conn + wakes <= faults + 1
  /\ line # "relaying" => conn + wakes <= faults

Types == TypeOK /\ ConnBound

LEMMA KeptProperties ==
  ASSUME Types, issued < MaxWrites,
         NEW kept, kept = IF Len(Grown) > OutboxLimit THEN Tail(Grown) ELSE Grown
  PROVE  /\ Grown \in Seq(Entries) /\ Len(Grown) = Len(outbox) + 1
         /\ \A i \in 1..Len(outbox) : Grown[i] = outbox[i]
         /\ Grown[Len(outbox) + 1] = [key |-> issued + 1, sent |-> FALSE]
         /\ kept \in Seq(Entries) /\ Len(kept) <= OutboxLimit
         /\ Len(Grown) > OutboxLimit =>
              /\ Len(kept) = Len(outbox)
              /\ \A i \in 1..Len(kept) : kept[i] = Grown[i + 1]
<1>1. /\ OutboxLimit \in Nat \ {0} /\ Len(outbox) \in Nat /\ Len(outbox) <= OutboxLimit
      /\ outbox \in Seq(Entries)
  BY LimitsAssumption, LenProperties DEF Types, TypeOK, Entries
<1>2. [key |-> issued + 1, sent |-> FALSE] \in Entries
  BY WritesAssumption DEF Types, TypeOK, Entries, Writes
<1>3. /\ Grown \in Seq(Entries) /\ Grown # <<>> /\ Len(Grown) = Len(outbox) + 1
      /\ \A i \in 1..Len(outbox) : Grown[i] = outbox[i]
      /\ Grown[Len(outbox) + 1] = [key |-> issued + 1, sent |-> FALSE]
  BY <1>1, <1>2, AppendProperties DEF Grown
<1>4. /\ Tail(Grown) \in Seq(Entries) /\ Len(Tail(Grown)) = Len(outbox)
      /\ \A i \in 1..Len(outbox) : Tail(Grown)[i] = Grown[i + 1]
  BY <1>1, <1>3, HeadTailProperties
<1> QED BY <1>1, <1>3, <1>4

LEMMA EnqueueTypes ==
  ASSUME Types, Enqueue
  PROVE  Types'
<1>1. /\ issued < MaxWrites /\ issued' = issued + 1 /\ issued + 1 \in Writes
      /\ issued' \in 0..MaxWrites
      /\ UNCHANGED <<link, news, transport, wire, replies, host, acked>>
  BY WritesAssumption DEF Enqueue, Types, TypeOK, Writes
<1>2. CASE Admitted
  <2>1. PICK kept : /\ kept = IF Len(Grown) > OutboxLimit THEN Tail(Grown) ELSE Grown
                    /\ stored' = Keys(kept) /\ outbox' = kept
                    /\ failed' = failed \union (Elements(Keys(Grown)) \ Elements(Keys(kept)))
                    /\ flushing' = (flushing \/ link = "up") /\ faults' = faults
    BY <1>2 DEF Admitted
  <2>2. Grown \in Seq(Entries) /\ kept \in Seq(Entries) /\ Len(kept) <= OutboxLimit
    BY <1>1, <2>1, KeptProperties
  <2>3. Keys(kept) \in Seq(Writes) /\ Len(Keys(kept)) <= OutboxLimit
    BY <2>2, KeysProperties
  <2>4. Elements(Keys(Grown)) \subseteq Writes
    BY <2>2, KeysProperties, LenProperties DEF Elements
  <2>5. outbox' \in Seq(Entries) /\ stored' \in Seq(Writes) /\ failed' \subseteq Writes
    BY <2>1, <2>2, <2>3, <2>4 DEF Types, TypeOK
  <2>6. flushing' \in BOOLEAN
    BY <2>1
  <2> QED BY <1>1, <2>1, <2>2, <2>3, <2>5, <2>6
          DEF Types, TypeOK, ConnBound, Entries, transport, host
<1>3. CASE Refused
  <2>1. failed' \subseteq Writes /\ faults' \in 0..MaxFaults
    BY <1>1, <1>3, LimitsAssumption DEF Refused, Fault, Types, TypeOK
  <2>2. ConnBound'
    BY <1>1, <1>3, LimitsAssumption
    DEF Refused, Fault, Types, TypeOK, ConnBound, Conns, transport
  <2> QED BY <1>1, <1>3, <2>1, <2>2 DEF Refused, Types, TypeOK, transport, host
<1> QED BY <1>2, <1>3 DEF Enqueue

LEMMA TakeAckTypes ==
  ASSUME Types, TakeAck
  PROVE  Types'
<1>1. /\ Head(replies) \in Writes /\ Tail(replies) \in Seq(Writes)
      /\ replies' \in Seq(Writes) /\ flushing' \in BOOLEAN
  BY HeadTailProperties DEF TakeAck, Types, TypeOK
<1>2. CASE UNCHANGED <<outbox, stored, acked, faults>>
  BY <1>1, <1>2 DEF TakeAck, Types, TypeOK, ConnBound, transport, host
<1>3. ASSUME NEW i \in DOMAIN outbox,
             outbox' = Without(outbox, i), acked' = acked \union {Head(replies)},
             \/ stored' = Keys(outbox') /\ UNCHANGED faults
             \/ Fault /\ UNCHANGED stored
      PROVE  Types'
  <2>1. outbox \in Seq(Entries) /\ Len(outbox) \in Nat
    BY LenProperties DEF Types, TypeOK, Entries
  <2>2. outbox' \in Seq(Entries) /\ Len(outbox') <= OutboxLimit
    BY SMTT(60), <1>3, <2>1, WithoutProperties, LimitsAssumption DEF Types, TypeOK
  <2>3. Keys(outbox') \in Seq(Writes) /\ Len(Keys(outbox')) <= OutboxLimit
    BY <2>2, KeysProperties
  <2>4. stored' \in Seq(Writes) /\ Len(stored') <= OutboxLimit
    BY <1>3, <2>3 DEF Types, TypeOK
  <2>5. faults' \in 0..MaxFaults
    BY SMTT(60), <1>3, LimitsAssumption DEF Fault, Types, TypeOK
  <2>6. acked' \subseteq Writes
    BY <1>1, <1>3 DEF Types, TypeOK
  <2>7. ConnBound'
    <3>1. conn' = conn /\ wakes' = wakes /\ line' = line
      BY DEF TakeAck, transport
    <3>2. conn \in Nat /\ wakes \in Nat /\ faults \in Nat
      BY LimitsAssumption DEF Types, TypeOK, Conns
    <3>3. CASE faults' = faults
      BY <3>1, <3>3 DEF Types, ConnBound
    <3>4. CASE Fault
      BY <3>1, <3>2, <3>4 DEF Fault, Types, ConnBound
    <3> QED BY <1>3, <3>3, <3>4
  <2> QED BY <1>1, <2>2, <2>4, <2>5, <2>6, <2>7
          DEF TakeAck, Types, TypeOK, Entries, transport, host
<1> QED BY <1>2, <1>3 DEF TakeAck

LEMMA TickTypes ==
  ASSUME Types, Tick
  PROVE  Types'
BY DEF Tick, Types, TypeOK, ConnBound, transport, host

LEMMA MarkedProperties ==
  ASSUME Types, Flush,
         NEW first, first = SentCount(outbox) + 1,
         NEW last, last = SentCount(outbox) + FlushCount
  PROVE  /\ first \in 1..(Len(outbox) + 1) /\ last \in (first - 1)..Len(outbox)
         /\ last - first + 1 <= QueueLimit - Len(queue)
         /\ outbox' \in Seq(Entries) /\ Len(outbox') = Len(outbox)
         /\ \A i \in 1..Len(outbox) :
              /\ outbox'[i].key = outbox[i].key
              /\ outbox'[i].sent <=> outbox[i].sent \/ i \in first..last
         /\ queue' = queue \o SubSeq(Keys(outbox), first, last)
<1> DEFINE marked == [i \in DOMAIN outbox |->
                       [outbox[i] EXCEPT !.sent = @ \/ i \in first..last]]
<1>1. /\ outbox \in Seq(Entries) /\ Len(outbox) \in Nat /\ DOMAIN outbox = 1..Len(outbox)
      /\ Len(queue) \in Nat /\ Len(queue) <= QueueLimit /\ QueueLimit \in Nat
  BY LenProperties, LimitsAssumption DEF Types, TypeOK, Entries
<1>2. SentCount(outbox) \in 0..Len(outbox)
  BY <1>1, SentCountProperties
<1>3. /\ FlushCount \in 0..(Len(outbox) - SentCount(outbox))
      /\ FlushCount <= QueueLimit - Len(queue)
  BY <1>1, <1>2 DEF FlushCount
<1>5. \A i \in 1..Len(outbox) : outbox[i] \in Entries
  BY <1>1, ElementOfSeq
<1>6. \A i \in 1..Len(outbox) :
        /\ marked[i] \in Entries
        /\ marked[i].key = outbox[i].key
        /\ marked[i].sent <=> outbox[i].sent \/ i \in first..last
  <2> SUFFICES ASSUME NEW i \in 1..Len(outbox)
               PROVE  /\ marked[i] \in Entries
                      /\ marked[i].key = outbox[i].key
                      /\ marked[i].sent <=> outbox[i].sent \/ i \in first..last
    OBVIOUS
  <2> DEFINE sent == outbox[i].sent \/ i \in first..last
  <2>1. marked[i] = [outbox[i] EXCEPT !.sent = sent]
    BY <1>1, Zenon
  <2>2. sent \in BOOLEAN
    OBVIOUS
  <2> HIDE DEF sent, marked
  <2>3. marked[i] \in Entries /\ marked[i].key = outbox[i].key /\ marked[i].sent = sent
    BY <1>5, <2>1, <2>2 DEF Entries
  <2> QED BY <2>3 DEF sent
<1>7. marked \in [1..Len(outbox) -> Entries]
  BY <1>1, <1>6
<1>8. marked \in Seq(Entries) /\ Len(marked) = Len(outbox)
  BY <1>1, <1>7, FunctionIsSeq
<1>9. /\ first \in 1..(Len(outbox) + 1) /\ last \in (first - 1)..Len(outbox)
      /\ last - first + 1 <= QueueLimit - Len(queue)
  BY SMTT(60), <1>1, <1>2, <1>3
<1>10. queue' = queue \o SubSeq(Keys(outbox), first, last)
  BY DEF Flush
<1>11. outbox' = marked
  BY Zenon DEF Flush
<1> HIDE DEF marked
<1> QED BY <1>6, <1>8, <1>9, <1>10, <1>11

LEMMA FlushTypes ==
  ASSUME Types, Flush
  PROVE  Types'
<1> DEFINE first == SentCount(outbox) + 1
           last == SentCount(outbox) + FlushCount
           sent == SubSeq(Keys(outbox), first, last)
<1>1. /\ outbox \in Seq(Entries) /\ Len(outbox) \in Nat
      /\ queue \in Seq(Writes) /\ Len(queue) \in Nat
      /\ QueueLimit \in Nat
  BY LenProperties, LimitsAssumption DEF Types, TypeOK, Entries
<1>2. /\ first \in 1..(Len(outbox) + 1) /\ last \in (first - 1)..Len(outbox)
      /\ last - first + 1 <= QueueLimit - Len(queue)
      /\ outbox' \in Seq(Entries) /\ Len(outbox') = Len(outbox)
      /\ queue' = queue \o sent
  BY MarkedProperties
<1>3. \A i \in first..last : Keys(outbox)[i] \in Writes
  BY <1>1, <1>2, KeysProperties
<1> HIDE DEF first, last
<1>4. sent \in Seq(Writes) /\ Len(sent) = IF first <= last THEN last - first + 1 ELSE 0
  BY <1>1, <1>2, <1>3, SubSeqProperties
<1>5. queue' \in Seq(Writes) /\ Len(queue') = Len(queue) + Len(sent)
  BY <1>1, <1>2, <1>4, ConcatProperties
<1>6. Len(queue') <= QueueLimit
  BY <1>1, <1>2, <1>4, <1>5 DEF Types, TypeOK
<1>7. flushing' \in BOOLEAN
  BY DEF Flush
<1> QED BY <1>2, <1>5, <1>6, <1>7 DEF Flush, Types, TypeOK, ConnBound, Entries, host

LEMMA FaultTypes ==
  ASSUME Types, Fault
  PROVE  faults' \in 0..MaxFaults /\ faults' = faults + 1
BY LimitsAssumption DEF Types, TypeOK, Fault

LEMMA StallTypes ==
  ASSUME Types, Stall
  PROVE  Types'
<1>1. outbox' \in Seq(Entries) /\ Len(outbox') = Len(outbox)
  BY UnsentProperties DEF Stall, Types, TypeOK, Entries
<1>2. faults' \in 0..MaxFaults /\ faults' = faults + 1
  BY FaultTypes DEF Stall
<1>3. wakes' \in Nat
  BY DEF Stall, Types, TypeOK
<1>4. ConnBound'
  BY <1>2, LimitsAssumption DEF Stall, Types, TypeOK, ConnBound, Conns
<1> QED BY <1>1, <1>2, <1>3, <1>4 DEF Stall, Types, TypeOK, Entries, host

LEMMA ForegroundTypes ==
  ASSUME Types, Foreground
  PROVE  Types'
<1>1. faults' \in 0..MaxFaults /\ faults' = faults + 1
  BY FaultTypes DEF Foreground
<1>2. wakes' \in Nat
  BY DEF Foreground, Types, TypeOK
<1>3. ConnBound'
  BY <1>1, LimitsAssumption DEF Foreground, Types, TypeOK, ConnBound, Conns
<1> QED BY <1>1, <1>2, <1>3 DEF Foreground, Types, TypeOK, client, host

LEMMA ApplyTypes ==
  ASSUME Types, Apply
  PROVE  Types'
<1>1. news' \in Seq({"up", "down"})
  BY HeadTailProperties DEF Apply, ApplyDown, ApplyUp, Types, TypeOK
<1>2. CASE ApplyDown
  <2>1. outbox' \in Seq(Entries) /\ Len(outbox') = Len(outbox)
    BY <1>2, UnsentProperties DEF ApplyDown, Types, TypeOK, Entries
  <2> QED BY <1>1, <1>2, <2>1
          DEF ApplyDown, Types, TypeOK, ConnBound, Entries, transport, host
<1>3. CASE ApplyUp
  BY <1>1, <1>3 DEF ApplyUp, Types, TypeOK, ConnBound, transport, host
<1> QED BY <1>2, <1>3 DEF Apply

LEMMA NewsTypes ==
  ASSUME Types, NEW state \in {"up", "down"}
  PROVE  Append(news, state) \in Seq({"up", "down"})
BY AppendProperties DEF Types, TypeOK

LEMMA RedialTypes ==
  ASSUME Types, Redial
  PROVE  /\ news' \in Seq({"up", "down"}) /\ line' = "dialing"
         /\ queue' \in Seq(Writes) /\ Len(queue') <= QueueLimit
BY NewsTypes, EmptySeq, LimitsAssumption DEF Redial, Types, TypeOK

LEMMA LoseTypes ==
  ASSUME Types, Lose
  PROVE  Types'
<1>1. wire' \in [Conns -> Seq(Writes)] /\ replies' \in Seq(Writes)
  BY HangUpTypes DEF Lose, Types
<1>2. faults' \in 0..MaxFaults /\ faults' = faults + 1
  BY FaultTypes DEF Lose
<1>3. news' \in Seq({"up", "down"})
  BY NewsTypes DEF Lose
<1>4. ConnBound'
  BY <1>2, LimitsAssumption DEF Lose, Types, TypeOK, ConnBound, Conns
<1> QED BY <1>1, <1>2, <1>3, <1>4 DEF Lose, Types, TypeOK, client, host

LEMMA DialFailsTypes ==
  ASSUME Types, DialFails
  PROVE  Types'
<1>1. faults' \in 0..MaxFaults /\ faults' = faults + 1
  BY FaultTypes DEF DialFails
<1>2. news' \in Seq({"up", "down"})
  BY NewsTypes DEF DialFails
<1>3. ConnBound'
  BY <1>1, LimitsAssumption DEF DialFails, Types, TypeOK, ConnBound, Conns
<1> QED BY <1>1, <1>2, <1>3 DEF DialFails, Types, TypeOK, client, host

LEMMA BackoffEndsTypes ==
  ASSUME Types, BackoffEnds
  PROVE  Types'
BY RedialTypes DEF BackoffEnds, Types, TypeOK, ConnBound, client, host

LEMMA ReconnectTypes ==
  ASSUME Types, Reconnect
  PROVE  Types'
<1>1. wire' \in [Conns -> Seq(Writes)] /\ replies' \in Seq(Writes)
  BY HangUpTypes DEF Reconnect, Types
<1>2. /\ news' \in Seq({"up", "down"}) /\ line' = "dialing"
      /\ queue' \in Seq(Writes) /\ Len(queue') <= QueueLimit
  BY RedialTypes DEF Reconnect
<1>3. wakes' \in Nat /\ wakes' = wakes - 1
  BY DEF Reconnect, Types, TypeOK
<1>4. ConnBound'
  BY <1>2, <1>3, LimitsAssumption DEF Reconnect, Types, TypeOK, ConnBound, Conns
<1> QED BY <1>1, <1>2, <1>3, <1>4 DEF Reconnect, Types, TypeOK, client, host

LEMMA EstablishedTypes ==
  ASSUME Types, Established
  PROVE  Types'
<1>1. news' \in Seq({"up", "down"})
  BY NewsTypes DEF Established
<1>2. conn' \in Conns /\ conn' = conn + 1
  BY LimitsAssumption DEF Established, Types, TypeOK, ConnBound, Conns
<1>3. ConnBound'
  BY <1>2, LimitsAssumption DEF Established, Types, TypeOK, ConnBound, Conns
<1> QED BY <1>1, <1>2, <1>3 DEF Established, Types, TypeOK, client, host

LEMMA RelayTypes ==
  ASSUME Types, Relay
  PROVE  Types'
<1>1. /\ Head(queue) \in Writes /\ Tail(queue) \in Seq(Writes)
      /\ Len(Tail(queue)) = Len(queue) - 1 /\ Len(queue) \in Nat
  BY HeadTailProperties, LenProperties DEF Relay, Types, TypeOK
<1>2. queue' \in Seq(Writes) /\ Len(queue') <= QueueLimit
  BY <1>1, LimitsAssumption DEF Relay, Types, TypeOK
<1>3. wire' \in [Conns -> Seq(Writes)]
  <2>1. Append(wire[conn], Head(queue)) \in Seq(Writes)
    BY <1>1, AppendProperties DEF Types, TypeOK
  <2> QED BY <2>1 DEF Relay, Types, TypeOK
<1> QED BY <1>2, <1>3 DEF Relay, Types, TypeOK, ConnBound, client, host

LEMMA RestoredProperties ==
  ASSUME Types, Relaunch
  PROVE  /\ outbox' \in Seq(Entries) /\ Len(outbox') = Len(stored)
         /\ \A i \in 1..Len(stored) : outbox'[i].key = stored[i] /\ ~outbox'[i].sent
<1>1. Len(stored) \in Nat /\ DOMAIN stored = 1..Len(stored)
  BY LenProperties DEF Types, TypeOK
<1>2. \A i \in 1..Len(stored) : stored[i] \in Writes
  BY ElementOfSeq DEF Types, TypeOK
<1>3. /\ outbox' \in [1..Len(stored) -> Entries]
      /\ \A i \in 1..Len(stored) : outbox'[i] = [key |-> stored[i], sent |-> FALSE]
  BY <1>1, <1>2 DEF Relaunch, Entries
<1> QED BY <1>1, <1>3, FunctionIsSeq

LEMMA RelaunchTypes ==
  ASSUME Types, Relaunch
  PROVE  Types'
<1>1. outbox' \in Seq(Entries) /\ Len(outbox') <= OutboxLimit
  BY RestoredProperties DEF Types, TypeOK
<1>2. wire' \in [Conns -> Seq(Writes)]
  BY WireCut DEF Relaunch, Types, TypeOK
<1>3. faults' \in 0..MaxFaults /\ faults' = faults + 1
  BY FaultTypes DEF Relaunch
<1>4. /\ queue' \in Seq(Writes) /\ Len(queue') <= QueueLimit
      /\ replies' \in Seq(Writes) /\ news' \in Seq({"up", "down"})
  BY EmptySeq, LimitsAssumption DEF Relaunch
<1>5. ConnBound'
  BY SMTT(60), <1>3, LimitsAssumption DEF Relaunch, Types, TypeOK, ConnBound, Conns
<1> QED BY <1>1, <1>2, <1>3, <1>4, <1>5 DEF Relaunch, Types, TypeOK, Entries, host

LEMMA AnswerTypes ==
  ASSUME Types, NEW c, NEW key \in Writes, Answer(c, key)
  PROVE  replies' \in Seq(Writes)
BY AppendProperties DEF Answer, Types, TypeOK

LEMMA UseTypes ==
  ASSUME Types, NEW key \in Writes, NEW fresh \in BOOLEAN
  PROVE  Append(used, [key |-> key, fresh |-> fresh]) \in Seq(Uses)
<1>1. [key |-> key, fresh |-> fresh] \in Uses
  BY DEF Uses
<1> QED BY <1>1, AppendProperties DEF Types, TypeOK, Uses

LEMMA CompleteTypes ==
  ASSUME Types, NEW c, NEW key \in Writes, Complete(c, key)
  PROVE  /\ cache' \in Seq(Writes) /\ Len(cache') <= CacheLimit
         /\ used' \in Seq(Uses) /\ replies' \in Seq(Writes) /\ executed' \in Seq(Writes)
<1>1. /\ Remember(cache, key) \in Seq(Writes)
      /\ Len(Remember(cache, key)) \in 1..CacheLimit
  BY RememberProperties DEF Types, TypeOK
<1>2. used' \in Seq(Uses) /\ replies' \in Seq(Writes)
  BY UseTypes, AnswerTypes DEF Complete
<1>3. executed' \in Seq(Writes)
  BY AppendProperties DEF Complete, Types, TypeOK
<1> QED BY <1>1, <1>2, <1>3, LimitsAssumption DEF Complete

LEMMA HandleTypes ==
  ASSUME Types, NEW c \in Conns, Handle(c)
  PROVE  Types'
<1> DEFINE key == Head(wire[c])
<1>1. key \in Writes /\ Tail(wire[c]) \in Seq(Writes)
  BY HeadTailProperties DEF Handle, Types, TypeOK
<1>2. wire' \in [Conns -> Seq(Writes)]
  BY <1>1 DEF Handle, Types, TypeOK
<1>3. /\ cache' \in Seq(Writes) /\ Len(cache') <= CacheLimit
      /\ used' \in Seq(Uses) /\ replies' \in Seq(Writes)
      /\ running' \in Seq([key : Slow, conn : Conns]) /\ executed' \in Seq(Writes)
  <2>1. CASE /\ key \in Elements(cache) /\ cache' = Refresh(cache, key)
             /\ used' = Append(used, [key |-> key, fresh |-> FALSE])
             /\ Answer(c, key) /\ UNCHANGED <<running, executed>>
    BY <1>1, <2>1, RefreshProperties, UseTypes, AnswerTypes DEF Types, TypeOK
  <2>2. CASE Complete(c, key) /\ UNCHANGED running
    BY <1>1, <2>2, CompleteTypes DEF Types, TypeOK
  <2>3. CASE /\ key \in Slow /\ running' = Append(running, [key |-> key, conn |-> c])
             /\ UNCHANGED <<cache, used, executed, replies>>
    <3>1. [key |-> key, conn |-> c] \in [key : Slow, conn : Conns]
      BY <2>3
    <3> QED BY <2>3, <3>1, AppendProperties DEF Types, TypeOK, Uses
  <2> QED BY <2>1, <2>2, <2>3 DEF Handle
<1> HIDE DEF key
<1> QED BY <1>2, <1>3 DEF Handle, Types, TypeOK, ConnBound, Uses, client, transport

LEMMA RunningKeys ==
  ASSUME Types, NEW i \in DOMAIN running
  PROVE  /\ running[i] \in [key : Slow, conn : Conns]
         /\ running[i].key \in Slow /\ running[i].key \in Writes
<1>1. running \in Seq([key : Slow, conn : Conns])
  BY DEF Types, TypeOK
<1>2. i \in 1..Len(running)
  BY <1>1, LenProperties
<1>3. running[i] \in [key : Slow, conn : Conns]
  BY <1>1, <1>2, ElementOfSeq
<1> QED BY <1>3, WritesAssumption

LEMMA FinishTypes ==
  ASSUME Types, NEW i \in DOMAIN running, Finish(i)
  PROVE  Types'
<1>1. running[i].key \in Writes
  BY RunningKeys
<1>2. running' \in Seq([key : Slow, conn : Conns])
  BY WithoutProperties DEF Finish, Types, TypeOK
<1>3. /\ cache' \in Seq(Writes) /\ Len(cache') <= CacheLimit
      /\ used' \in Seq(Uses) /\ replies' \in Seq(Writes) /\ executed' \in Seq(Writes)
  BY <1>1, CompleteTypes DEF Finish
<1> QED BY <1>2, <1>3 DEF Finish, Types, TypeOK, ConnBound, Uses, client, transport

LEMMA TypesStep ==
  ASSUME Types, [Next]_vars
  PROVE  Types'
<1>1. CASE UNCHANGED vars
  BY <1>1 DEF vars, client, transport, host, Types, TypeOK, ConnBound
<1>2. CASE Next
  BY <1>2, EnqueueTypes, TakeAckTypes, TickTypes, FlushTypes, StallTypes, ForegroundTypes,
     ApplyTypes, LoseTypes, DialFailsTypes, BackoffEndsTypes, ReconnectTypes,
     EstablishedTypes, RelayTypes, RelaunchTypes, HandleTypes, FinishTypes
  DEF Next, Apply
<1> QED BY <1>1, <1>2

LEMMA InitTypes == Init => Types
<1> SUFFICES ASSUME Init PROVE Types
  OBVIOUS
<1>1. /\ outbox \in Seq(Entries) /\ Len(outbox) = 0 /\ stored \in Seq(Writes) /\ Len(stored) = 0
      /\ queue \in Seq(Writes) /\ Len(queue) = 0 /\ cache \in Seq(Writes) /\ Len(cache) = 0
      /\ replies \in Seq(Writes) /\ running \in Seq([key : Slow, conn : Conns])
      /\ used \in Seq(Uses) /\ executed \in Seq(Writes)
  BY EmptySeq DEF Init
<1>2. wire \in [Conns -> Seq(Writes)]
  BY EmptySeq DEF Init
<1>3. news \in Seq({"up", "down"})
  <2>1. <<>> \in Seq({"up", "down"})
    BY EmptySeq
  <2>2. Append(<<>>, "down") \in Seq({"up", "down"})
    BY <2>1, AppendProperties
  <2> QED BY <2>2 DEF Init
<1>4. conn \in Conns /\ ConnBound
  BY LimitsAssumption DEF Init, Conns, ConnBound
<1>5. /\ link \in {"up", "down"} /\ line \in {"backoff", "dialing", "relaying"}
      /\ acked \subseteq Writes /\ failed \subseteq Writes
  BY DEF Init
<1>6. issued \in 0..MaxWrites /\ faults \in 0..MaxFaults /\ wakes \in Nat
  BY LimitsAssumption, WritesAssumption DEF Init
<1>7. flushing \in BOOLEAN
  BY DEF Init
<1>8. /\ Len(outbox) <= OutboxLimit /\ Len(stored) <= OutboxLimit
      /\ Len(queue) <= QueueLimit /\ Len(cache) <= CacheLimit
  BY <1>1, LimitsAssumption
<1> QED BY <1>1, <1>2, <1>3, <1>4, <1>5, <1>6, <1>7, <1>8
        DEF Types, TypeOK, Entries, Uses

-------------------------------------------------------------------------------
(* What the outbox has sent, and what it has saved *)

\* A step that leaves every retained write in its place.
InPlace == Len(outbox') = Len(outbox) /\ \A i \in 1..Len(outbox) : outbox'[i].key = outbox[i].key

LEMMA OutboxType ==
  ASSUME Types
  PROVE  /\ outbox \in Seq(Entries) /\ Len(outbox) \in Nat /\ DOMAIN outbox = 1..Len(outbox)
         /\ stored \in Seq(Writes) /\ Len(stored) \in Nat /\ DOMAIN stored = 1..Len(stored)
         /\ \A i \in 1..Len(outbox) : outbox[i].key \in Writes /\ outbox[i].sent \in BOOLEAN
<1>1. outbox \in Seq(Entries) /\ stored \in Seq(Writes)
  BY DEF Types, TypeOK, Entries
<1>2. \A i \in 1..Len(outbox) : outbox[i] \in Entries
  BY <1>1, ElementOfSeq
<1> QED BY <1>1, <1>2, LenProperties DEF Entries

LEMMA UnsentInPlace ==
  ASSUME Types, Stall \/ ApplyDown
  PROVE  /\ InPlace
         /\ \A i \in 1..Len(outbox) : ~outbox'[i].sent
<1>1. outbox' = Unsent(outbox)
  BY DEF Stall, ApplyDown
<1>2. /\ Len(outbox') = Len(outbox)
      /\ \A i \in 1..Len(outbox) : outbox'[i].key = outbox[i].key /\ ~outbox'[i].sent
  BY <1>1, OutboxType, UnsentProperties
<1> QED BY <1>2 DEF InPlace

LEMMA FlushInPlace ==
  ASSUME Types, Flush
  PROVE  /\ InPlace
         /\ \E last \in SentCount(outbox)..Len(outbox) :
              \A i \in 1..Len(outbox) :
                outbox'[i].sent <=> outbox[i].sent \/ i \in (SentCount(outbox) + 1)..last
<1> DEFINE last == SentCount(outbox) + FlushCount
<1>1. SentCount(outbox) \in 0..Len(outbox) /\ Len(outbox) \in Nat
  BY OutboxType, SentCountProperties
<1>2. last \in SentCount(outbox)..Len(outbox) /\ Len(outbox') = Len(outbox)
  BY <1>1, MarkedProperties
<1>3. \A i \in 1..Len(outbox) :
        /\ outbox'[i].key = outbox[i].key
        /\ outbox'[i].sent <=> outbox[i].sent \/ i \in (SentCount(outbox) + 1)..last
  BY MarkedProperties
<1> HIDE DEF last
<1> QED BY <1>2, <1>3 DEF InPlace

LEMMA PrefixStep ==
  ASSUME Types, Types', SentIsPrefix, [Next]_vars
  PROVE  SentIsPrefix'
<1> USE OutboxType
<1>1. DOMAIN outbox' = 1..Len(outbox') /\ Len(outbox') \in Nat
  BY LenProperties DEF Types, TypeOK
<1>2. CASE UNCHANGED outbox
  BY <1>2 DEF SentIsPrefix
<1>3. CASE Enqueue
  <2>1. CASE Admitted
    <3>1. PICK kept : /\ kept = IF Len(Grown) > OutboxLimit THEN Tail(Grown) ELSE Grown
                      /\ outbox' = kept
      BY <2>1 DEF Admitted
    <3>2. /\ Len(Grown) = Len(outbox) + 1
          /\ \A i \in 1..Len(outbox) : Grown[i] = outbox[i]
          /\ Grown[Len(outbox) + 1] = [key |-> issued + 1, sent |-> FALSE]
          /\ Len(Grown) > OutboxLimit =>
               /\ Len(kept) = Len(outbox)
               /\ \A i \in 1..Len(kept) : kept[i] = Grown[i + 1]
      BY <1>3, <3>1, KeptProperties DEF Enqueue
    <3>3. \A i, j \in 1..(Len(outbox) + 1) : i < j /\ Grown[j].sent => Grown[i].sent
      BY SMTT(60), <3>2 DEF SentIsPrefix
    <3>4. CASE Len(Grown) > OutboxLimit
      BY SMTT(60), <1>1, <3>1, <3>2, <3>3, <3>4 DEF SentIsPrefix
    <3>5. CASE ~(Len(Grown) > OutboxLimit)
      BY ZenonT(60), <1>1, <3>1, <3>2, <3>3, <3>5 DEF SentIsPrefix
    <3> QED BY <3>4, <3>5
  <2>2. CASE Refused
    BY <1>2, <2>2 DEF Refused
  <2> QED BY <1>3, <2>1, <2>2 DEF Enqueue
<1>4. CASE TakeAck
  <2>1. ASSUME NEW k \in DOMAIN outbox, outbox' = Without(outbox, k)
        PROVE  SentIsPrefix'
    <3>1. /\ Len(outbox') = Len(outbox) - 1
          /\ \A i \in 1..(Len(outbox) - 1) :
               outbox'[i] = IF i < k THEN outbox[i] ELSE outbox[i + 1]
      BY ZenonT(60), <2>1, WithoutProperties
    <3>2. ASSUME NEW i \in 1..Len(outbox'), NEW j \in 1..Len(outbox'), i < j, outbox'[j].sent
          PROVE  outbox'[i].sent
      <4>1. PICK p \in 1..Len(outbox) :
              p \in {i, i + 1} /\ outbox'[i] = outbox[p] /\ (p = i + 1 => ~(i < k))
        BY <3>1, <3>2
      <4>2. PICK q \in 1..Len(outbox) :
              q \in {j, j + 1} /\ outbox'[j] = outbox[q] /\ (q = j => j < k)
        BY <3>1, <3>2
      <4>3. p < q
        BY <3>2, <4>1, <4>2
      <4> QED BY <3>2, <4>1, <4>2, <4>3 DEF SentIsPrefix
    <3> QED BY SMTT(60), <1>1, <3>2 DEF SentIsPrefix
  <2> QED BY <1>2, <1>4, <2>1 DEF TakeAck
<1>5. CASE Flush
  <2>1. PICK last \in SentCount(outbox)..Len(outbox) :
          \A i \in 1..Len(outbox) :
            outbox'[i].sent <=> outbox[i].sent \/ i \in (SentCount(outbox) + 1)..last
    BY <1>5, FlushInPlace
  <2>2. Len(outbox') = Len(outbox)
    BY <1>5, FlushInPlace DEF InPlace
  <2>3. /\ SentCount(outbox) \in 0..Len(outbox)
        /\ \A i \in 1..SentCount(outbox) : outbox[i].sent
    BY SentCountProperties
  <2>4. ASSUME NEW i \in 1..Len(outbox), NEW j \in 1..Len(outbox), i < j, outbox'[j].sent
        PROVE  outbox'[i].sent
    <3>1. CASE outbox[j].sent
      BY SMTT(60), <2>1, <2>4, <3>1 DEF SentIsPrefix
    <3>2. CASE j \in (SentCount(outbox) + 1)..last
      BY <2>1, <2>3, <2>4, <3>2
    <3> QED BY <2>1, <2>4, <3>1, <3>2
  <2> QED BY <1>1, <2>2, <2>4 DEF SentIsPrefix
<1>6. CASE Stall \/ ApplyDown
  BY ZenonT(60), <1>1, <1>6, UnsentInPlace DEF InPlace, SentIsPrefix
<1>7. CASE Relaunch
  <2>1. Len(outbox') = Len(stored) /\ \A i \in 1..Len(stored) : ~outbox'[i].sent
    BY <1>7, RestoredProperties
  <2> QED BY <1>1, <2>1 DEF SentIsPrefix
<1> QED BY <1>2, <1>3, <1>4, <1>5, <1>6, <1>7
        DEF Next, vars, client, Tick, Foreground, ApplyUp, Lose, DialFails, BackoffEnds,
            Reconnect, Established, Relay, Handle, Finish

LEMMA RetainedKeys ==
  ASSUME NEW box \in Seq(Entries), NEW w
  PROVE  w \in Elements(Keys(box)) <=> \E i \in 1..Len(box) : box[i].key = w
BY KeysProperties, MemberIsElement

LEMMA InPlaceStored ==
  ASSUME Types, Types', OutboxIsStored, InPlace, stored' = stored
  PROVE  OutboxIsStored'
<1>1. DOMAIN outbox' = DOMAIN outbox
  <2>1. DOMAIN outbox' = 1..Len(outbox')
    BY LenProperties DEF Types, TypeOK
  <2> QED BY <2>1, OutboxType DEF InPlace
<1>2. \A i \in DOMAIN outbox : outbox'[i].key = outbox[i].key
  BY OutboxType DEF InPlace
<1> QED BY <1>1, <1>2 DEF OutboxIsStored

LEMMA SavedStored ==
  ASSUME Types', Len(stored') = Len(outbox'),
         \A i \in 1..Len(outbox') : outbox'[i].key = stored'[i]
  PROVE  OutboxIsStored'
<1>1. /\ DOMAIN outbox' = 1..Len(outbox') /\ DOMAIN stored' = 1..Len(stored')
      /\ Len(outbox') \in Nat
  BY LenProperties DEF Types, TypeOK
<1> DEFINE at == [i \in DOMAIN outbox' |-> i]
<1>2. at \in [DOMAIN outbox' -> DOMAIN stored']
  BY <1>1
<1>3. \A i \in DOMAIN outbox' : outbox'[i].key = stored'[at[i]]
  BY <1>1
<1>4. \A i, j \in DOMAIN outbox' : i < j => at[i] < at[j]
  OBVIOUS
<1> HIDE DEF at
<1> QED BY <1>2, <1>3, <1>4 DEF OutboxIsStored

LEMMA StoredStep ==
  ASSUME Types, Types', OutboxIsStored, [Next]_vars
  PROVE  OutboxIsStored'
<1> USE OutboxType
<1>1. CASE UNCHANGED <<outbox, stored>>
  BY <1>1 DEF OutboxIsStored
<1>2. CASE Enqueue
  <2>1. CASE Admitted
    <3>1. stored' = Keys(outbox') /\ outbox' \in Seq(Entries)
      BY <2>1 DEF Admitted, Types, TypeOK, Entries
    <3> QED BY <3>1, KeysProperties, SavedStored
  <2>2. CASE Refused
    BY <1>1, <2>2 DEF Refused
  <2> QED BY <1>2, <2>1, <2>2 DEF Enqueue
<1>3. CASE TakeAck
  <2>1. CASE UNCHANGED <<outbox, stored>>
    BY <1>1, <2>1
  <2>2. CASE stored' = Keys(outbox')
    <3>1. outbox' \in Seq(Entries)
      BY DEF Types, TypeOK, Entries
    <3> QED BY <2>2, <3>1, KeysProperties, SavedStored
  <2>3. ASSUME NEW k \in DOMAIN outbox, outbox' = Without(outbox, k), stored' = stored
        PROVE  OutboxIsStored'
    <3>1. PICK at \in [DOMAIN outbox -> DOMAIN stored] :
            /\ \A i \in DOMAIN outbox : outbox[i].key = stored[at[i]]
            /\ \A i, j \in DOMAIN outbox : i < j => at[i] < at[j]
      BY DEF OutboxIsStored
    <3>2. /\ Len(outbox') = Len(outbox) - 1
          /\ \A i \in 1..(Len(outbox) - 1) :
               outbox'[i] = IF i < k THEN outbox[i] ELSE outbox[i + 1]
      BY ZenonT(60), <2>3, WithoutProperties
    <3>3. DOMAIN outbox' = 1..Len(outbox')
      BY LenProperties DEF Types, TypeOK
    <3> DEFINE from(i) == IF i < k THEN i ELSE i + 1
               rest == [i \in DOMAIN outbox' |-> at[from(i)]]
    <3>4. \A i \in DOMAIN outbox' : from(i) \in 1..Len(outbox) /\ outbox'[i] = outbox[from(i)]
      BY <3>2, <3>3
    <3>5. \A i, j \in DOMAIN outbox' : i < j => from(i) < from(j)
      BY <3>2, <3>3
    <3> HIDE DEF from
    <3>6. rest \in [DOMAIN outbox' -> DOMAIN stored']
      BY <2>3, <3>4
    <3>7. \A i \in DOMAIN outbox' : outbox'[i].key = stored'[rest[i]]
      BY <2>3, <3>1, <3>4
    <3>8. \A i, j \in DOMAIN outbox' : i < j => rest[i] < rest[j]
      BY <3>1, <3>4, <3>5
    <3> HIDE DEF rest
    <3> QED BY <3>6, <3>7, <3>8 DEF OutboxIsStored
  <2> QED BY <1>3, <2>1, <2>2, <2>3 DEF TakeAck
<1>4. CASE Flush
  BY <1>4, FlushInPlace, InPlaceStored DEF Flush
<1>5. CASE Stall \/ ApplyDown
  BY <1>5, UnsentInPlace, InPlaceStored DEF Stall, ApplyDown
<1>6. CASE Relaunch
  <2>1. Len(outbox') = Len(stored) /\ \A i \in 1..Len(stored) : outbox'[i].key = stored[i]
    BY <1>6, RestoredProperties
  <2>2. stored' = stored
    BY <1>6 DEF Relaunch
  <2> QED BY <2>1, <2>2, SavedStored
<1> QED BY <1>1, <1>2, <1>3, <1>4, <1>5, <1>6
        DEF Next, vars, client, Tick, Foreground, ApplyUp, Lose, DialFails, BackoffEnds,
            Reconnect, Established, Relay, Handle, Finish

\* A write that is still owed an end is retained.
Owed(w) == w \in 1..issued /\ w \notin acked \union failed

Retained(w) == \E i \in 1..Len(outbox) : outbox[i].key = w

LEMMA NothingIsLostMeans ==
  ASSUME Types
  PROVE  NothingIsLost <=> \A w : Owed(w) => Retained(w)
BY OutboxType, RetainedKeys DEF NothingIsLost, Owed, Retained

LEMMA NothingIsLostStep ==
  ASSUME Types, Types', OutboxIsStored, NothingIsLost, [Next]_vars
  PROVE  NothingIsLost'
<1> USE OutboxType
<1> SUFFICES ASSUME NEW w, Owed(w)' PROVE Retained(w)'
  <2>1. outbox' \in Seq(Entries)
    BY DEF Types, TypeOK, Entries
  <2> QED BY <2>1, RetainedKeys DEF NothingIsLost, Owed, Retained
<1>1. Owed(w) => Retained(w)
  BY NothingIsLostMeans
<1>2. CASE UNCHANGED <<outbox, issued, acked, failed>>
  BY <1>1, <1>2 DEF Owed, Retained
<1>3. CASE InPlace /\ UNCHANGED <<issued, acked, failed>>
  BY <1>1, <1>3 DEF Owed, Retained, InPlace
<1>4. CASE Enqueue
  <2>1. issued' = issued + 1 /\ acked' = acked /\ issued \in Nat
    BY <1>4, WritesAssumption DEF Enqueue, Types, TypeOK
  <2>2. CASE Admitted
    <3>1. PICK kept : /\ kept = IF Len(Grown) > OutboxLimit THEN Tail(Grown) ELSE Grown
                      /\ failed' = failed \union (Elements(Keys(Grown)) \ Elements(Keys(kept)))
                      /\ outbox' = kept
      BY <2>2 DEF Admitted
    <3>2. /\ Grown \in Seq(Entries) /\ Len(Grown) = Len(outbox) + 1
          /\ \A i \in 1..Len(outbox) : Grown[i] = outbox[i]
          /\ Grown[Len(outbox) + 1] = [key |-> issued + 1, sent |-> FALSE]
          /\ kept \in Seq(Entries)
      BY <1>4, <3>1, KeptProperties DEF Enqueue
    <3>3. \E i \in 1..Len(Grown) : Grown[i].key = w
      <4>1. CASE w = issued + 1
        <5>1. Grown[Len(outbox) + 1].key = w
          BY <3>2, <4>1
        <5> QED BY <3>2, <5>1
      <4>2. CASE w # issued + 1
        <5>1. Owed(w)
          BY <2>1, <3>1, <4>2 DEF Owed
        <5>2. PICK i \in 1..Len(outbox) : outbox[i].key = w
          BY <1>1, <5>1 DEF Retained
        <5> QED BY <3>2, <5>2
      <4> QED BY <4>1, <4>2
    <3>4. w \in Elements(Keys(Grown)) /\ w \notin failed'
      BY <3>2, <3>3, RetainedKeys DEF Owed
    <3>5. w \in Elements(Keys(kept))
      BY <3>1, <3>4
    <3> QED BY ZenonT(60), <3>1, <3>2, <3>5, RetainedKeys DEF Retained
  <2>3. CASE Refused
    BY <1>1, <2>1, <2>3 DEF Refused, Owed, Retained
  <2> QED BY <1>4, <2>2, <2>3 DEF Enqueue
<1>5. CASE TakeAck
  <2>1. ASSUME NEW k \in DOMAIN outbox, outbox[k].key = Head(replies),
               outbox' = Without(outbox, k), acked' = acked \union {Head(replies)}
        PROVE  Retained(w)'
    <3>1. Owed(w) /\ w # outbox[k].key
      BY <1>5, <2>1 DEF TakeAck, Owed
    <3>2. PICK i \in 1..Len(outbox) : outbox[i].key = w
      BY SMTT(60), <1>1, <3>1 DEF Retained
    <3>3. /\ Len(outbox') = Len(outbox) - 1
          /\ \A j \in 1..(Len(outbox) - 1) :
               outbox'[j] = IF j < k THEN outbox[j] ELSE outbox[j + 1]
      BY ZenonT(60), <2>1, WithoutProperties
    <3>4. i < k \/ i > k
      BY <3>1, <3>2
    <3>5. CASE i < k
      <4>1. i \in 1..Len(outbox') /\ outbox'[i] = outbox[i]
        BY <3>3, <3>5
      <4> QED BY <3>2, <4>1 DEF Retained
    <3>6. CASE i > k
      <4>1. i - 1 \in 1..Len(outbox') /\ outbox'[i - 1] = outbox[i]
        BY <3>3, <3>6
      <4> QED BY <3>2, <4>1 DEF Retained
    <3> QED BY <3>4, <3>5, <3>6
  <2> QED BY <1>2, <1>5, <2>1 DEF TakeAck
<1>6. CASE Flush
  BY <1>3, <1>6, FlushInPlace DEF Flush
<1>7. CASE Stall \/ ApplyDown
  BY <1>3, <1>7, UnsentInPlace DEF Stall, ApplyDown
<1>8. CASE Relaunch
  <2>1. Len(outbox') = Len(stored) /\ \A i \in 1..Len(stored) : outbox'[i].key = stored[i]
    BY <1>8, RestoredProperties
  <2>2. Owed(w)
    BY <1>8 DEF Relaunch, Owed
  <2>3. PICK i \in 1..Len(outbox) : outbox[i].key = w
    BY <1>1, <2>2 DEF Retained
  <2>4. PICK p \in 1..Len(stored) : outbox[i].key = stored[p]
    BY <2>3 DEF OutboxIsStored
  <2> QED BY <2>1, <2>3, <2>4 DEF Retained
<1> QED BY <1>2, <1>4, <1>5, <1>6, <1>7, <1>8
        DEF Next, vars, client, Tick, Foreground, ApplyUp, Lose, DialFails, BackoffEnds,
            Reconnect, Established, Relay, Handle, Finish

-------------------------------------------------------------------------------
(* What the host remembers *)

\* The keys of the last uses are still in the cache, each at least as far from its
\* end towards the back as the use is from the last one.
WindowCached ==
  \A i \in 1..Len(used) :
    Len(used) - i < CacheLimit =>
      \E p \in 1..Len(cache) :
        cache[p] = used[i].key /\ Len(cache) - p <= Len(used) - i

LEMMA HostType ==
  ASSUME Types
  PROVE  /\ cache \in Seq(Writes) /\ Len(cache) \in Nat /\ Len(cache) <= CacheLimit
         /\ used \in Seq(Uses) /\ Len(used) \in Nat /\ DOMAIN used = 1..Len(used)
         /\ CacheLimit \in Nat \ {0}
BY LenProperties, LimitsAssumption DEF Types, TypeOK, Uses

\* A use is recorded, and what it leaves of the cache is one step further away.
LEMMA UseKeepsWindow ==
  ASSUME Types, Types', WindowCached, NEW key \in Writes, NEW fresh \in BOOLEAN,
         used' = Append(used, [key |-> key, fresh |-> fresh]),
         Len(cache') \in 1..CacheLimit, cache'[Len(cache')] = key,
         \A p \in 1..Len(cache) :
           Len(cache) - p + 1 < CacheLimit =>
             \E q \in 1..Len(cache') :
               cache'[q] = cache[p] /\ Len(cache') - q <= Len(cache) - p + 1
  PROVE  WindowCached'
<1> USE HostType
<1>1. /\ Len(used') = Len(used) + 1
      /\ \A i \in 1..Len(used) : used'[i] = used[i]
      /\ used'[Len(used) + 1].key = key
  <2>1. [key |-> key, fresh |-> fresh] \in Uses
    BY DEF Uses
  <2> QED BY <2>1, AppendProperties
<1> SUFFICES ASSUME NEW i \in 1..Len(used'), Len(used') - i < CacheLimit
             PROVE  \E q \in 1..Len(cache') :
                      cache'[q] = used'[i].key /\ Len(cache') - q <= Len(used') - i
  BY DEF WindowCached
<1>2. CASE i = Len(used) + 1
  <2>1. Len(cache') \in 1..Len(cache') /\ Len(cache') - Len(cache') <= Len(used') - i
    BY <1>1, <1>2
  <2>2. cache'[Len(cache')] = used'[i].key
    BY <1>1, <1>2
  <2> QED BY <2>1, <2>2
<1>3. CASE i # Len(used) + 1
  <2>1. i \in 1..Len(used) /\ Len(used) - i < CacheLimit
    BY <1>1, <1>3
  <2>2. PICK p \in 1..Len(cache) : cache[p] = used[i].key /\ Len(cache) - p <= Len(used) - i
    BY <2>1 DEF WindowCached
  <2>3. Len(cache) - p + 1 < CacheLimit
    BY <1>1, <2>1, <2>2
  <2>4. PICK q \in 1..Len(cache') : cache'[q] = cache[p] /\ Len(cache') - q <= Len(cache) - p + 1
    BY <2>3
  <2>5. cache'[q] = used'[i].key
    BY <1>1, <2>1, <2>2, <2>4
  <2>6. Len(cache') - q <= Len(used') - i
    <3>1. Len(cache') \in Nat /\ q \in Nat /\ p \in Nat /\ i \in Nat
      BY SMTT(60), <2>4
    <3> QED BY <1>1, <2>1, <2>2, <2>4, <3>1
  <2> QED BY <2>5, <2>6
<1> QED BY <1>2, <1>3

LEMMA CompleteKeepsWindow ==
  ASSUME Types, Types', WindowCached, NEW c, NEW key \in Writes, Complete(c, key)
  PROVE  WindowCached'
<1> USE HostType
<1>1. cache' = Remember(cache, key) /\ used' = Append(used, [key |-> key, fresh |-> TRUE])
  BY DEF Complete
<1>2. Len(cache') \in 1..CacheLimit /\ cache'[Len(cache')] = key
  BY <1>1, RememberProperties
<1>3. ASSUME NEW p \in 1..Len(cache), Len(cache) - p + 1 < CacheLimit
      PROVE  \E q \in 1..Len(cache') :
               cache'[q] = cache[p] /\ Len(cache') - q <= Len(cache) - p + 1
  <2>1. p > 1 \/ Len(cache) < CacheLimit
    BY <1>3
  <2>2. \E q \in 1..Len(Remember(cache, key)) :
          /\ Remember(cache, key)[q] = cache[p]
          /\ Len(Remember(cache, key)) - q = Len(cache) - p + 1
    BY ZenonT(60), <2>1, RememberProperties
  <2>3. PICK q \in 1..Len(cache') : cache'[q] = cache[p] /\ Len(cache') - q = Len(cache) - p + 1
    BY <1>1, <2>2
  <2>4. Len(cache') - q <= Len(cache) - p + 1
    BY <1>2, <2>3
  <2> QED BY <2>3, <2>4
<1> QED BY <1>1, <1>2, <1>3, UseKeepsWindow

LEMMA RefreshKeepsWindow ==
  ASSUME Types, Types', WindowCached, NEW key \in Elements(cache),
         cache' = Refresh(cache, key),
         used' = Append(used, [key |-> key, fresh |-> FALSE])
  PROVE  WindowCached'
<1> USE HostType
<1>1. /\ key \in Writes /\ Len(cache) > 0
  BY MemberIsElement, ElementOfSeq
<1>2. /\ Len(cache') = Len(cache) /\ cache'[Len(cache)] = key
      /\ \A p \in 1..Len(cache) : cache[p] # key =>
           \E q \in 1..Len(cache) :
             cache'[q] = cache[p] /\ Len(cache) - q <= Len(cache) - p + 1
  BY RefreshProperties
<1>3. ASSUME NEW p \in 1..Len(cache)
      PROVE  \E q \in 1..Len(cache') :
               cache'[q] = cache[p] /\ Len(cache') - q <= Len(cache) - p + 1
  <2>1. CASE cache[p] # key
    BY <1>2, <2>1
  <2>2. CASE cache[p] = key
    <3>1. /\ Len(cache) \in 1..Len(cache') /\ cache'[Len(cache)] = cache[p]
          /\ Len(cache') - Len(cache) <= Len(cache) - p + 1
      BY <1>1, <1>2, <2>2
    <3> QED BY <3>1
  <2> QED BY <2>1, <2>2
<1>4. Len(cache') \in 1..CacheLimit /\ cache'[Len(cache')] = key
  BY <1>1, <1>2
<1> QED BY <1>1, <1>3, <1>4, UseKeepsWindow

LEMMA WireKeys ==
  ASSUME Types, NEW c \in Conns, wire[c] # <<>>
  PROVE  Head(wire[c]) \in Writes
BY HeadTailProperties DEF Types, TypeOK

LEMMA WindowStep ==
  ASSUME Types, Types', WindowCached, [Next]_vars
  PROVE  WindowCached'
<1>1. CASE UNCHANGED host
  BY <1>1 DEF host, WindowCached
<1>2. ASSUME NEW c \in Conns, Handle(c)
      PROVE  WindowCached'
  <2>1. Head(wire[c]) \in Writes
    BY <1>2, WireKeys DEF Handle
  <2>2. CASE Complete(c, Head(wire[c]))
    BY <2>1, <2>2, CompleteKeepsWindow
  <2>3. CASE /\ Head(wire[c]) \in Elements(cache)
             /\ cache' = Refresh(cache, Head(wire[c]))
             /\ used' = Append(used, [key |-> Head(wire[c]), fresh |-> FALSE])
    BY <2>3, RefreshKeepsWindow
  <2>4. CASE UNCHANGED <<cache, used>>
    BY <2>4 DEF WindowCached
  <2> QED BY <1>2, <2>2, <2>3, <2>4 DEF Handle
<1>3. ASSUME NEW i \in DOMAIN running, Finish(i)
      PROVE  WindowCached'
  BY <1>3, RunningKeys, CompleteKeepsWindow DEF Finish
<1> QED BY <1>1, <1>2, <1>3
        DEF Next, vars, Enqueue, TakeAck, Tick, Flush, Stall, Foreground, ApplyDown, ApplyUp,
            Lose, DialFails, BackoffEnds, Reconnect, Established, Relay, Relaunch, host

\* Only a key that is not remembered, or one of a task, is executed afresh.
LEMMA OnceStep ==
  ASSUME Types, Types', WindowCached, OnceInWindow, [Next]_vars
  PROVE  OnceInWindow'
<1> USE HostType
<1>1. CASE used' = used
  BY <1>1 DEF OnceInWindow
<1>2. ASSUME NEW key \in Writes, NEW fresh \in BOOLEAN,
             used' = Append(used, [key |-> key, fresh |-> fresh]),
             fresh => key \in Slow \/ key \notin Elements(cache)
      PROVE  OnceInWindow'
  <2>1. /\ Len(used') = Len(used) + 1 /\ DOMAIN used' = 1..(Len(used) + 1)
        /\ \A i \in 1..Len(used) : used'[i] = used[i]
        /\ used'[Len(used) + 1] = [key |-> key, fresh |-> fresh]
    <3>1. [key |-> key, fresh |-> fresh] \in Uses
      BY DEF Uses
    <3>2. /\ Append(used, [key |-> key, fresh |-> fresh]) \in Seq(Uses)
          /\ Len(used') = Len(used) + 1
          /\ \A i \in 1..Len(used) : used'[i] = used[i]
          /\ used'[Len(used) + 1] = [key |-> key, fresh |-> fresh]
      BY <1>2, <3>1, AppendProperties
    <3> QED BY <1>2, <3>2, LenProperties
  <2> SUFFICES ASSUME NEW i \in DOMAIN used', NEW j \in DOMAIN used',
                      i < j, used'[i].key = used'[j].key,
                      used'[j].fresh, used'[j].key \notin Slow
               PROVE  j - i > CacheLimit
    BY DEF OnceInWindow
  <2>2. CASE j = Len(used) + 1
    <3>1. i \in 1..Len(used) /\ used[i].key = key /\ key \notin Elements(cache)
      BY <1>2, <2>1, <2>2
    <3>2. \A p \in 1..Len(cache) : cache[p] # key
      BY <3>1, MemberIsElement
    <3>3. ~(Len(used) - i < CacheLimit)
      BY <3>1, <3>2 DEF WindowCached
    <3> QED BY <2>2, <3>1, <3>3
  <2>3. CASE j # Len(used) + 1
    BY <2>1, <2>3 DEF OnceInWindow
  <2> QED BY <2>2, <2>3
<1>3. ASSUME NEW c \in Conns, Handle(c)
      PROVE  OnceInWindow'
  <2>1. Head(wire[c]) \in Writes
    BY <1>3, WireKeys DEF Handle
  <2> QED BY <1>1, <1>2, <1>3, <2>1 DEF Handle, Complete
<1>4. ASSUME NEW i \in DOMAIN running, Finish(i)
      PROVE  OnceInWindow'
  BY <1>2, <1>4, RunningKeys DEF Finish, Complete
<1> QED BY <1>1, <1>3, <1>4
        DEF Next, vars, Enqueue, TakeAck, Tick, Flush, Stall, Foreground, ApplyDown, ApplyUp,
            Lose, DialFails, BackoffEnds, Reconnect, Established, Relay, Relaunch, host

-------------------------------------------------------------------------------
(* The theorems *)

IInv ==
  /\ Types /\ SentIsPrefix /\ OutboxIsStored /\ NothingIsLost
  /\ WindowCached /\ OnceInWindow

\* What holds of the outbox, its file and the cache holds at the start and is kept
\* by every step of the link, the transport and the host.
THEOREM DeliveryInvariance == Spec => []IInv
<1>1. Init => IInv
  <2> SUFFICES ASSUME Init, Types PROVE IInv
    BY InitTypes
  <2>1. Len(outbox) = 0 /\ Len(used) = 0 /\ issued = 0 /\ Len(stored) = 0
    BY EmptySeq DEF Init
  <2>2. outbox = <<>> /\ used = <<>>
    BY DEF Init
  <2>3. DOMAIN outbox = {}
    BY <2>1, OutboxType
  <2>6. SentIsPrefix /\ OutboxIsStored
    <3>1. [i \in DOMAIN outbox |-> i] \in [DOMAIN outbox -> DOMAIN stored]
      BY <2>3
    <3> QED BY <2>3, <3>1 DEF SentIsPrefix, OutboxIsStored
  <2>4. NothingIsLost
    BY <2>1 DEF NothingIsLost
  <2>5. WindowCached /\ OnceInWindow
    BY <2>1, HostType DEF WindowCached, OnceInWindow
  <2> QED BY <2>4, <2>5, <2>6 DEF IInv
<1>2. IInv /\ [Next]_vars => IInv'
  BY TypesStep, PrefixStep, StoredStep, NothingIsLostStep, WindowStep, OnceStep DEF IInv
<1> QED BY <1>1, <1>2, PTL DEF Spec

\* Every variable has its type, and outbox, queue and cache keep to their limits.
THEOREM DeliveryTypes == Spec => []TypeOK
<1>1. IInv => TypeOK
  BY DEF IInv, Types
<1> QED BY <1>1, DeliveryInvariance, PTL

\* flush_outbox may skip the sent writes at the head: no unsent one is among them.
THEOREM SentWritesLead == Spec => []SentIsPrefix
<1>1. IInv => SentIsPrefix
  BY DEF IInv
<1> QED BY <1>1, DeliveryInvariance, PTL

\* The file holds every retained write in its order, so a relaunch loses none.
THEOREM RetainedWritesAreStored == Spec => []OutboxIsStored
<1>1. IInv => OutboxIsStored
  BY DEF IInv
<1> QED BY <1>1, DeliveryInvariance, PTL

\* A write stays retained until it is acknowledged or reported as failed, across
\* reconnects, relaunches and failed saves.
THEOREM WritesAreNotLost == Spec => []NothingIsLost
<1>1. IInv => NothingIsLost
  BY DEF IInv
<1> QED BY <1>1, DeliveryInvariance, PTL

\* A command without a task runs again only after CacheLimit other uses.
THEOREM RememberedWritesRunOnce == Spec => []OnceInWindow
<1>1. IInv => OnceInWindow
  BY DEF IInv
<1> QED BY <1>1, DeliveryInvariance, PTL

-------------------------------------------------------------------------------
(* Sequences of writes *)

\* Each write of s comes after all older ones, but for those in done; n bounds them.
InOrder(s, done, n) ==
  \A i \in DOMAIN s :
    /\ s[i] <= n
    /\ \A w \in 1..(s[i] - 1) : w \in done \/ \E j \in 1..(i - 1) : s[j] = w

LEMMA EmptyInOrder ==
  ASSUME NEW done, NEW n
  PROVE  InOrder(<<>>, done, n)
BY DEF InOrder

LEMMA InOrderGrows ==
  ASSUME NEW s \in Seq(Writes), NEW done, NEW more, NEW n \in Nat, NEW m \in Nat,
         InOrder(s, done, n), done \subseteq more, n <= m
  PROVE  InOrder(s, more, m)
<1>1. \A i \in DOMAIN s : s[i] \in Nat
  <2>1. \A i \in DOMAIN s : s[i] \in Writes
    BY ElementOfSeq, LenProperties
  <2> QED BY <2>1, WritesAssumption DEF Writes
<1> QED BY <1>1 DEF InOrder

LEMMA PrefixElements ==
  ASSUME NEW s \in Seq(Writes), NEW k \in 0..Len(s)
  PROVE  /\ SubSeq(s, 1, k) \in Seq(Writes) /\ DOMAIN SubSeq(s, 1, k) = 1..k
         /\ \A i \in 1..k : i \in DOMAIN s /\ SubSeq(s, 1, k)[i] = s[i]
         /\ Elements(SubSeq(s, 1, k)) \subseteq Elements(s)
<1> DEFINE t == SubSeq(s, 1, k)
<1>1. Len(s) \in Nat /\ k \in Nat /\ DOMAIN s = 1..Len(s) /\ \A j \in 1..k : s[j] \in Writes
  BY LenProperties, ElementOfSeq
<1>2. t \in Seq(Writes) /\ Len(t) = k /\ \A j \in 1..k : t[j] = s[j]
  BY <1>1, SubSeqProperties
<1>3. DOMAIN t = 1..k
  BY <1>2, LenProperties
<1> HIDE DEF t
<1>4. Elements(t) \subseteq Elements(s)
  BY <1>1, <1>2, <1>3 DEF Elements
<1> QED BY <1>1, <1>2, <1>3, <1>4 DEF t

LEMMA PrefixInOrder ==
  ASSUME NEW s \in Seq(Writes), NEW k \in 0..Len(s), NEW done, NEW n \in Nat,
         InOrder(s, done, n)
  PROVE  InOrder(SubSeq(s, 1, k), done, n)
<1>1. k \in Nat
  BY LenProperties
<1>2. \A i \in 1..k : \A j \in 1..(i - 1) : SubSeq(s, 1, k)[j] = s[j]
  BY <1>1, PrefixElements
<1> QED BY <1>2, PrefixElements DEF InOrder

LEMMA TailElements ==
  ASSUME NEW S, NEW s \in Seq(S), s # <<>>
  PROVE  Tail(s) \in Seq(S) /\ Elements(s) = Elements(Tail(s)) \union {Head(s)}
<1> DEFINE t == Tail(s)
<1>1. /\ Len(s) \in Nat \ {0} /\ DOMAIN s = 1..Len(s) /\ Head(s) = s[1]
      /\ t \in Seq(S) /\ Len(t) = Len(s) - 1
      /\ \A i \in 1..(Len(s) - 1) : t[i] = s[i + 1]
  BY LenProperties, HeadTailProperties, EmptySeq
<1>2. DOMAIN t = 1..(Len(s) - 1)
  BY <1>1, LenProperties
<1> HIDE DEF t
<1>3. ASSUME NEW i \in DOMAIN s, i # 1 PROVE i - 1 \in DOMAIN t /\ t[i - 1] = s[i]
  BY <1>1, <1>2, <1>3
<1>4. ASSUME NEW i \in DOMAIN t PROVE i + 1 \in DOMAIN s /\ s[i + 1] = t[i]
  BY <1>1, <1>2, <1>4
<1>5. Head(s) \in Elements(s)
  BY <1>1 DEF Elements
<1>6. Elements(t) \subseteq Elements(s)
  BY <1>4 DEF Elements
<1>7. ASSUME NEW i \in DOMAIN s PROVE s[i] \in Elements(t) \union {Head(s)}
  <2>1. CASE i = 1
    BY <1>1, <2>1
  <2>2. CASE i # 1
    BY <1>3, <2>2 DEF Elements
  <2> QED BY <2>1, <2>2
<1>8. Elements(s) \subseteq Elements(t) \union {Head(s)}
  BY <1>7 DEF Elements
<1> QED BY <1>1, <1>5, <1>6, <1>8 DEF t

LEMMA TailInOrder ==
  ASSUME NEW s \in Seq(Writes), s # <<>>, NEW done, NEW more, NEW n \in Nat,
         InOrder(s, done, n), done \subseteq more, Head(s) \in more
  PROVE  InOrder(Tail(s), more, n)
<1> DEFINE t == Tail(s)
<1>1. /\ Len(s) \in Nat \ {0} /\ DOMAIN s = 1..Len(s) /\ Head(s) = s[1]
      /\ t \in Seq(Writes) /\ Len(t) = Len(s) - 1
      /\ \A i \in 1..(Len(s) - 1) : t[i] = s[i + 1]
  BY LenProperties, HeadTailProperties, EmptySeq
<1>2. DOMAIN t = 1..(Len(s) - 1)
  BY <1>1, LenProperties
<1> HIDE DEF t
<1>3. ASSUME NEW i \in DOMAIN t, NEW w \in 1..(t[i] - 1)
      PROVE  w \in more \/ \E j \in 1..(i - 1) : t[j] = w
  <2>1. i + 1 \in DOMAIN s /\ t[i] = s[i + 1]
    BY <1>1, <1>2
  <2>2. w \in done \/ \E j \in 1..((i + 1) - 1) : s[j] = w
    BY <1>3, <2>1 DEF InOrder
  <2>3. ASSUME NEW j \in 1..((i + 1) - 1), s[j] = w, j # 1
        PROVE  j - 1 \in 1..(i - 1) /\ t[j - 1] = w
    BY <1>1, <1>2, <2>3
  <2> QED BY <1>1, <2>2, <2>3
<1>4. \A i \in DOMAIN t : t[i] <= n
  BY SMTT(60), <1>1, <1>2 DEF InOrder
<1> QED BY <1>3, <1>4 DEF InOrder, t

\* Both ways to the back: a line that moves from the queue onto the wire, and the lines
\* that flush_outbox puts into the queue.
LEMMA ConcatElements ==
  ASSUME NEW s \in Seq(Writes), NEW t \in Seq(Writes)
  PROVE  /\ Len(s) \in Nat /\ DOMAIN s = 1..Len(s) /\ Len(t) \in Nat /\ DOMAIN t = 1..Len(t)
         /\ DOMAIN (s \o t) = 1..(Len(s) + Len(t))
         /\ \A i \in DOMAIN s : i \in DOMAIN (s \o t) /\ (s \o t)[i] = s[i]
         /\ \A i \in DOMAIN t :
              Len(s) + i \in DOMAIN (s \o t) /\ (s \o t)[Len(s) + i] = t[i]
         /\ \A i \in DOMAIN (s \o t) :
              \/ i \in DOMAIN s /\ (s \o t)[i] = s[i]
              \/ i > Len(s) /\ i - Len(s) \in DOMAIN t /\ (s \o t)[i] = t[i - Len(s)]
         /\ Elements(s \o t) = Elements(s) \union Elements(t)
<1> DEFINE both == s \o t
<1>1. /\ Len(s) \in Nat /\ DOMAIN s = 1..Len(s) /\ Len(t) \in Nat /\ DOMAIN t = 1..Len(t)
  BY LenProperties
<1>2. /\ both \in Seq(Writes) /\ Len(both) = Len(s) + Len(t)
      /\ \A i \in 1..(Len(s) + Len(t)) :
           both[i] = IF i <= Len(s) THEN s[i] ELSE t[i - Len(s)]
  BY ConcatProperties
<1>3. DOMAIN both = 1..(Len(s) + Len(t))
  BY <1>2, LenProperties
<1> HIDE DEF both
<1>4. \A i \in DOMAIN s : i \in DOMAIN both /\ both[i] = s[i]
  BY <1>1, <1>2, <1>3
<1>5. \A i \in DOMAIN t : Len(s) + i \in DOMAIN both /\ both[Len(s) + i] = t[i]
  BY <1>1, <1>2, <1>3
<1>6. \A i \in DOMAIN both : i \in DOMAIN s \/ (i - Len(s) \in DOMAIN t /\ i > Len(s))
  BY <1>1, <1>3
<1>7. /\ \A i \in DOMAIN s : both[i] = s[i]
      /\ \A i \in DOMAIN both : i \notin DOMAIN s => both[i] = t[i - Len(s)]
  BY <1>1, <1>2, <1>3
<1>8. Elements(both) = Elements(s) \union Elements(t)
  <2>1. Elements(s) \subseteq Elements(both) /\ Elements(t) \subseteq Elements(both)
    BY <1>4, <1>5 DEF Elements
  <2>2. ASSUME NEW i \in DOMAIN both PROVE both[i] \in Elements(s) \union Elements(t)
    <3>1. CASE i \in DOMAIN s
      BY <1>4, <3>1 DEF Elements
    <3>2. CASE i - Len(s) \in DOMAIN t /\ i > Len(s)
      <4>1. both[i] = t[i - Len(s)]
        BY <1>1, <1>2, <1>3, <3>2
      <4> QED BY <3>2, <4>1 DEF Elements
    <3> QED BY <1>6, <3>1, <3>2
  <2> QED BY <2>1, <2>2 DEF Elements
<1>9. \A i \in DOMAIN both :
        \/ i \in DOMAIN s /\ both[i] = s[i]
        \/ i > Len(s) /\ i - Len(s) \in DOMAIN t /\ both[i] = t[i - Len(s)]
  BY <1>1, <1>2, <1>3
<1> QED BY <1>1, <1>3, <1>4, <1>5, <1>8, <1>9 DEF both

LEMMA ConcatInOrder ==
  ASSUME NEW s \in Seq(Writes), NEW t \in Seq(Writes), NEW done, NEW n \in Nat,
         InOrder(s, done, n), InOrder(t, done \union Elements(s), n)
  PROVE  InOrder(s \o t, done, n)
<1> DEFINE both == s \o t
<1>1. /\ Len(s) \in Nat /\ DOMAIN s = 1..Len(s) /\ Len(t) \in Nat /\ DOMAIN t = 1..Len(t)
      /\ DOMAIN both = 1..(Len(s) + Len(t))
  BY ConcatElements
<1>2. \A i \in DOMAIN s : both[i] = s[i]
  BY ConcatElements
<1>3. \A i \in DOMAIN t : both[Len(s) + i] = t[i]
  BY ConcatElements
<1>4. \A i \in DOMAIN both :
        \/ i \in DOMAIN s /\ both[i] = s[i]
        \/ i > Len(s) /\ i - Len(s) \in DOMAIN t /\ both[i] = t[i - Len(s)]
  BY ConcatElements
<1> HIDE DEF both
<1>5. ASSUME NEW i \in DOMAIN both, NEW w \in 1..(both[i] - 1)
      PROVE  w \in done \/ \E j \in 1..(i - 1) : both[j] = w
  <2>1. CASE i \in DOMAIN s /\ both[i] = s[i]
    <3>1. w \in done \/ \E j \in 1..(i - 1) : s[j] = w
      BY <1>5, <2>1 DEF InOrder
    <3>2. \A j \in 1..(i - 1) : j \in DOMAIN s
      BY <1>1, <2>1
    <3> QED BY <1>2, <3>1, <3>2
  <2>2. CASE i > Len(s) /\ i - Len(s) \in DOMAIN t /\ both[i] = t[i - Len(s)]
    <3> DEFINE k == i - Len(s)
    <3>1. k \in DOMAIN t /\ both[i] = t[k] /\ k \in Nat /\ i \in Nat
      BY <1>1, <2>2
    <3>2. w \in done \/ w \in Elements(s) \/ \E j \in 1..(k - 1) : t[j] = w
      BY <1>5, <3>1 DEF InOrder
    <3>3. CASE w \in Elements(s)
      <4>1. PICK j \in DOMAIN s : s[j] = w
        BY <3>3 DEF Elements
      <4>2. j \in 1..(i - 1)
        BY <1>1, <2>2, <3>1, <4>1
      <4> QED BY <1>2, <4>1, <4>2
    <3>4. ASSUME NEW j \in 1..(k - 1), t[j] = w
          PROVE  Len(s) + j \in 1..(i - 1) /\ both[Len(s) + j] = w
      <4>1. j \in DOMAIN t
        BY <1>1, <3>1
      <4> QED BY SMTT(60), <1>1, <1>3, <3>1, <3>4, <4>1
    <3> QED BY <3>2, <3>3, <3>4
  <2> QED BY <1>4, <2>1, <2>2
<1>6. \A i \in DOMAIN both : both[i] <= n
  <2>1. \A i \in DOMAIN s : s[i] <= n
    BY DEF InOrder
  <2>2. \A i \in DOMAIN t : t[i] <= n
    BY DEF InOrder
  <2> QED BY <1>4, <2>1, <2>2
<1> QED BY <1>5, <1>6 DEF InOrder, both

LEMMA AppendElements ==
  ASSUME NEW s \in Seq(Writes), NEW w \in Writes
  PROVE  /\ Append(s, w) \in Seq(Writes)
         /\ Elements(Append(s, w)) = Elements(s) \union {w}
<1>1. /\ Append(s, w) \in Seq(Writes) /\ Len(Append(s, w)) = Len(s) + 1
      /\ \A i \in 1..Len(s) : Append(s, w)[i] = s[i]
      /\ Append(s, w)[Len(s) + 1] = w
  BY AppendProperties
<1>2. /\ Len(s) \in Nat /\ DOMAIN s = 1..Len(s) /\ DOMAIN Append(s, w) = 1..(Len(s) + 1)
  BY <1>1, LenProperties
<1> QED BY <1>1, <1>2 DEF Elements

LEMMA AppendInOrder ==
  ASSUME NEW s \in Seq(Writes), NEW w \in Writes, NEW done, NEW n \in Nat,
         InOrder(s, done, n), w <= n,
         \A older \in 1..(w - 1) : older \in done \union Elements(s)
  PROVE  InOrder(Append(s, w), done, n)
<1> DEFINE t == Append(s, w)
<1>1. /\ t \in Seq(Writes) /\ Len(t) = Len(s) + 1
      /\ \A i \in 1..Len(s) : t[i] = s[i]
      /\ t[Len(s) + 1] = w
  BY AppendProperties
<1>2. /\ Len(s) \in Nat /\ DOMAIN s = 1..Len(s) /\ DOMAIN t = 1..(Len(s) + 1)
  BY <1>1, LenProperties
<1> HIDE DEF t
<1>3. ASSUME NEW i \in DOMAIN t
      PROVE  /\ t[i] <= n
             /\ \A older \in 1..(t[i] - 1) :
                  older \in done \/ \E j \in 1..(i - 1) : t[j] = older
  <2>1. CASE i \in DOMAIN s
    <3>1. t[i] = s[i] /\ \A j \in 1..(i - 1) : t[j] = s[j]
      BY <1>1, <1>2, <2>1
    <3> QED BY <2>1, <3>1 DEF InOrder
  <2>2. CASE i = Len(s) + 1
    <3>1. t[i] = w /\ \A j \in DOMAIN s : j \in 1..(i - 1) /\ t[j] = s[j]
      BY <1>1, <1>2, <2>2
    <3> QED BY <3>1 DEF Elements
  <2> QED BY <1>2, <2>1, <2>2
<1> QED BY <1>3 DEF InOrder, t

-------------------------------------------------------------------------------
(* The host *)

\* The link hears of a lost connection before it sends, and the host executes on the
\* spot and forgets nothing.
Orderly == Slow = {} /\ Prompt /\ MaxWrites <= CacheLimit

Distinct(s) == \A i, j \in DOMAIN s : s[i] = s[j] => i = j

\* A key that is not remembered finds room: there are no more writes than places.
LEMMA CacheHasRoom ==
  ASSUME NEW keys \in Seq(Writes), NEW key \in Writes, key \notin Elements(keys),
         Distinct(keys), MaxWrites <= CacheLimit
  PROVE  /\ Remember(keys, key) = Append(keys, key)
         /\ Elements(Remember(keys, key)) = Elements(keys) \union {key}
         /\ Distinct(Remember(keys, key))
<1> DEFINE grown == Append(keys, key)
           n == Len(keys)
<1>1. n \in Nat /\ DOMAIN keys = 1..n /\ CacheLimit \in Nat /\ MaxWrites \in Nat
  BY LenProperties, LimitsAssumption, WritesAssumption
<1>2. /\ grown \in Seq(Writes) /\ Len(grown) = n + 1
      /\ \A i \in 1..n : grown[i] = keys[i]
      /\ grown[n + 1] = key
  BY AppendProperties
<1>3. DOMAIN grown = 1..(n + 1)
  BY <1>2, LenProperties
<1>4. \A i \in 1..n : keys[i] # key
  BY <1>1 DEF Elements
<1> HIDE DEF grown, n
<1>5. Distinct(grown)
  <2> SUFFICES ASSUME NEW i \in 1..(n + 1), NEW j \in 1..(n + 1), grown[i] = grown[j]
               PROVE  i = j
    BY <1>3 DEF Distinct
  <2>1. CASE i \in 1..n /\ j \in 1..n
    BY <1>1, <1>2, <2>1 DEF Distinct
  <2>2. CASE i \notin 1..n \/ j \notin 1..n
    <3>1. i = n + 1 \/ j = n + 1
      BY <1>1, <2>2
    <3>2. i \in 1..n => j # n + 1
      BY <1>2, <1>4
    <3>3. j \in 1..n => i # n + 1
      BY <1>2, <1>4
    <3> QED BY <1>1, <3>1, <3>2, <3>3
  <2> QED BY <2>1, <2>2
<1>6. n + 1 <= MaxWrites
  <2> SUFFICES ASSUME ~(n + 1 <= MaxWrites) PROVE FALSE
    OBVIOUS
  <2>1. IsFiniteSet(1..(n + 1)) /\ Cardinality(1..(n + 1)) = n + 1
    BY <1>1, FS_Interval
  <2>2. IsFiniteSet(Writes) /\ Cardinality(Writes) = MaxWrites
    BY <1>1, FS_Interval DEF Writes
  <2>3. Cardinality(Writes) < Cardinality(1..(n + 1))
    BY <1>1, <2>1, <2>2
  <2>4. grown \in [1..(n + 1) -> Writes]
    BY <1>2, LenProperties
  <2>5. \E i, j \in 1..(n + 1) : i # j /\ grown[i] = grown[j]
    BY <2>1, <2>2, <2>3, <2>4, FS_PigeonHole
  <2> QED BY <1>3, <1>5, <2>5 DEF Distinct
<1>7. Remember(keys, key) = grown
  BY <1>1, <1>2, <1>6 DEF Remember, grown
<1>8. Elements(grown) = Elements(keys) \union {key}
  BY AppendElements DEF grown
<1> QED BY <1>5, <1>7, <1>8 DEF grown

LEMMA RefreshMoves ==
  ASSUME NEW keys \in Seq(Writes), NEW key \in Elements(keys), Distinct(keys)
  PROVE  /\ Elements(Refresh(keys, key)) = Elements(keys)
         /\ Distinct(Refresh(keys, key))
<1> DEFINE First(i) == keys[i] = key /\ \A j \in 1..(i - 1) : keys[j] # key
           i0 == CHOOSE i \in DOMAIN keys : First(i)
           rest == Without(keys, i0)
           n == Len(keys)
           moved == Append(rest, key)
<1>1. n \in Nat /\ DOMAIN keys = 1..n /\ \A i \in 1..n : keys[i] \in Writes
  BY LenProperties, ElementOfSeq
<1>2. PICK i \in 1..n : keys[i] = key
  BY <1>1 DEF Elements
<1>3. i \in DOMAIN keys /\ First(i)
  <2>1. \A j \in 1..(i - 1) : j \in 1..n /\ j # i
    BY <1>1
  <2> QED BY <1>1, <1>2, <2>1 DEF Distinct
<1>4. i0 \in 1..n /\ keys[i0] = key
  BY SMTT(60), <1>1, <1>3
<1> HIDE DEF i0
<1>5. /\ rest \in Seq(Writes) /\ Len(rest) = n - 1
      /\ \A j \in 1..(n - 1) : rest[j] = IF j < i0 THEN keys[j] ELSE keys[j + 1]
  BY ZenonT(60), <1>1, <1>4, WithoutProperties
<1>6. Refresh(keys, key) = moved
  BY DEF Refresh, i0, rest, moved
<1> HIDE DEF rest
<1>7. /\ moved \in Seq(Writes) /\ Len(moved) = n
      /\ \A j \in 1..(n - 1) : moved[j] = rest[j]
      /\ moved[n] = key
  <2>1. /\ moved \in Seq(Writes) /\ Len(moved) = Len(rest) + 1
        /\ \A j \in 1..Len(rest) : moved[j] = rest[j]
        /\ moved[Len(rest) + 1] = key
    <3>1. key \in Writes /\ rest \in Seq(Writes)
      BY <1>1, <1>4, <1>5
    <3> HIDE DEF n
    <3> QED BY <3>1, AppendProperties DEF moved
  <2> QED BY <1>1, <1>5, <2>1
<1>8. DOMAIN moved = 1..n
  BY <1>7, LenProperties
<1> HIDE DEF moved, n
\* Where each place of the new order was in the old one.
<1> DEFINE at(j) == IF j = n THEN i0 ELSE IF j < i0 THEN j ELSE j + 1
<1>9. \A j \in 1..n : at(j) \in 1..n /\ moved[j] = keys[at(j)]
  <2>1. ASSUME NEW j \in 1..n, j # n PROVE j \in 1..(n - 1) /\ at(j) \in 1..n
    BY <1>1, <1>4, <2>1
  <2> QED BY <1>4, <1>5, <1>7, <2>1
<1>10. \A j, k \in 1..n : at(j) = at(k) => j = k
  BY <1>1, <1>4
<1>11. \A k \in 1..n : \E j \in 1..n : at(j) = k
  <2> SUFFICES ASSUME NEW k \in 1..n PROVE \E j \in 1..n : at(j) = k
    OBVIOUS
  <2>1. CASE k = i0
    <3>1. n \in 1..n /\ at(n) = k
      BY <1>1, <2>1
    <3> QED BY <3>1
  <2>2. CASE k < i0
    <3>1. k \in 1..n /\ at(k) = k
      BY <1>1, <1>4, <2>2
    <3> QED BY <3>1
  <2>3. CASE k > i0
    <3>1. k - 1 \in 1..n /\ at(k - 1) = k
      BY <1>1, <1>4, <2>3
    <3> QED BY <3>1
  <2> QED BY <1>1, <1>4, <2>1, <2>2, <2>3
<1> HIDE DEF at
<1>12. Elements(moved) = Elements(keys)
  <2>1. Elements(moved) \subseteq Elements(keys)
    BY <1>1, <1>8, <1>9 DEF Elements
  <2>2. Elements(keys) \subseteq Elements(moved)
    BY <1>1, <1>8, <1>9, <1>11 DEF Elements
  <2> QED BY <2>1, <2>2
<1>13. Distinct(moved)
  <2> SUFFICES ASSUME NEW j \in 1..n, NEW k \in 1..n, moved[j] = moved[k] PROVE j = k
    BY <1>8 DEF Distinct
  <2>1. at(j) = at(k)
    BY <1>1, <1>9 DEF Distinct
  <2> QED BY <1>10, <2>1
<1> QED BY <1>6, <1>12, <1>13

HostPart ==
  /\ running = <<>>
  /\ Elements(cache) = Elements(executed)
  /\ Distinct(cache)
  /\ Elements(replies) \subseteq Elements(executed)
  /\ acked \subseteq Elements(executed)

LEMMA HostTypes ==
  ASSUME Types
  PROVE  /\ cache \in Seq(Writes) /\ executed \in Seq(Writes) /\ replies \in Seq(Writes)
         /\ queue \in Seq(Writes) /\ wire \in [Conns -> Seq(Writes)]
         /\ conn \in Conns /\ wire[conn] \in Seq(Writes)
         /\ issued \in Nat
BY WritesAssumption DEF Types, TypeOK

LEMMA AnswerElements ==
  ASSUME Types, NEW c, NEW key \in Writes, Answer(c, key)
  PROVE  Elements(replies') \subseteq Elements(replies) \union {key}
BY HostTypes, AppendElements DEF Answer

LEMMA HangUpElements ==
  ASSUME Types, HangUp
  PROVE  Elements(replies') \subseteq Elements(replies)
<1>1. CASE Cut
  BY <1>1, HostTypes, PrefixElements DEF Cut
<1>2. CASE UNCHANGED <<wire, replies>>
  BY <1>2
<1> QED BY <1>1, <1>2 DEF HangUp

\* What the host does with one line: it executes it or has executed it before.
LEMMA HandleCases ==
  ASSUME Types, HostPart, Orderly, NEW c \in Conns, Handle(c)
  PROVE  /\ Head(wire[c]) \in Writes /\ Answer(c, Head(wire[c])) /\ running' = running
         /\ \/ /\ Head(wire[c]) \in Elements(executed)
               /\ cache' = Refresh(cache, Head(wire[c])) /\ executed' = executed
            \/ /\ Head(wire[c]) \notin Elements(executed)
               /\ cache' = Remember(cache, Head(wire[c]))
               /\ executed' = Append(executed, Head(wire[c]))
<1>1. Head(wire[c]) \in Writes
  BY WireKeys DEF Handle
<1>2. Slow = {} /\ Elements(cache) = Elements(executed)
  BY DEF Orderly, HostPart
<1> QED BY <1>1, <1>2 DEF Handle, Complete

LEMMA NothingFinishes ==
  ASSUME HostPart, NEW i \in DOMAIN running
  PROVE  FALSE
BY EmptySeq DEF HostPart

LEMMA HostStep ==
  ASSUME Types, Types', HostPart, Orderly, [Next]_vars
  PROVE  HostPart'
<1> USE HostTypes
<1>1. CASE UNCHANGED <<host, replies, acked>>
  BY <1>1 DEF HostPart, host
<1>2. CASE TakeAck
  <2>1. UNCHANGED host /\ replies # <<>> /\ replies' = Tail(replies)
    BY <1>2 DEF TakeAck
  <2>2. Elements(replies) = Elements(replies') \union {Head(replies)}
    BY <2>1, TailElements
  <2>3. acked' \subseteq acked \union {Head(replies)}
    BY <1>2 DEF TakeAck
  <2> QED BY <2>1, <2>2, <2>3 DEF HostPart, host
<1>3. CASE (Lose \/ Reconnect) /\ HangUp
  <2>1. UNCHANGED <<host, acked>>
    BY <1>3 DEF Lose, Reconnect
  <2> QED BY <1>3, <2>1, HangUpElements DEF HostPart, host
<1>4. CASE Relaunch
  <2>1. UNCHANGED <<host, acked>> /\ Elements(replies') = {}
    BY <1>4, EmptySeq DEF Relaunch, Elements
  <2> QED BY <2>1 DEF HostPart, host
<1>5. ASSUME NEW c \in Conns, Handle(c)
      PROVE  HostPart'
  <2> DEFINE key == Head(wire[c])
  <2>1. key \in Writes /\ Answer(c, key) /\ running' = running /\ acked' = acked
    BY <1>5, HandleCases DEF Handle
  <2>2. Elements(replies') \subseteq Elements(replies) \union {key}
    BY <2>1, AnswerElements
  <2>3. CASE key \in Elements(executed) /\ cache' = Refresh(cache, key) /\ executed' = executed
    <3>1. Elements(cache') = Elements(cache) /\ Distinct(cache')
      BY <2>3, RefreshMoves DEF HostPart
    <3> QED BY <2>1, <2>2, <2>3, <3>1 DEF HostPart
  <2>4. CASE /\ key \notin Elements(executed) /\ cache' = Remember(cache, key)
             /\ executed' = Append(executed, key)
    <3>1. Elements(cache') = Elements(cache) \union {key} /\ Distinct(cache')
      BY <2>1, <2>4, CacheHasRoom DEF HostPart, Orderly
    <3>2. Elements(executed') = Elements(executed) \union {key}
      BY <2>1, <2>4, AppendElements
    <3> QED BY <2>1, <2>2, <3>1, <3>2 DEF HostPart
  <2> QED BY <1>5, <2>3, <2>4, HandleCases
<1> QED BY <1>1, <1>2, <1>3, <1>4, <1>5, NothingFinishes
        DEF Next, vars, Enqueue, Tick, Flush, Stall, Foreground, ApplyDown, ApplyUp, Lose,
            DialFails, BackoffEnds, Reconnect, Established, Relay

-------------------------------------------------------------------------------
(* The outbox and its file *)

Rising(s, n) ==
  /\ \A i \in DOMAIN s : s[i] <= n
  /\ \A i, j \in DOMAIN s : i < j => s[i] < s[j]

BoxPart == Rising(Keys(outbox), issued) /\ Rising(stored, issued)

\* What is left of a rising sequence rises.
LEMMA SomeOfRising ==
  ASSUME NEW s, NEW n, Rising(s, n), NEW t, NEW at \in [DOMAIN t -> DOMAIN s],
         \A i \in DOMAIN t : t[i] = s[at[i]],
         \A i, j \in DOMAIN t : i < j => at[i] < at[j]
  PROVE  Rising(t, n)
BY DEF Rising

LEMMA KeysDomain ==
  ASSUME NEW box \in Seq(Entries)
  PROVE  /\ DOMAIN Keys(box) = 1..Len(box) /\ DOMAIN box = 1..Len(box)
         /\ \A i \in 1..Len(box) : Keys(box)[i] = box[i].key /\ box[i].key \in Nat
<1>1. Writes \subseteq Nat
  BY WritesAssumption DEF Writes
<1> QED BY <1>1, KeysProperties, LenProperties DEF Keys

LEMMA GrownRises ==
  ASSUME Types, BoxPart, issued < MaxWrites,
         NEW kept, kept = IF Len(Grown) > OutboxLimit THEN Tail(Grown) ELSE Grown
  PROVE  Rising(Keys(Grown), issued + 1) /\ Rising(Keys(kept), issued + 1)
<1> USE OutboxType
<1>1. /\ Grown \in Seq(Entries) /\ Len(Grown) = Len(outbox) + 1
      /\ \A i \in 1..Len(outbox) : Grown[i] = outbox[i]
      /\ Grown[Len(outbox) + 1].key = issued + 1
      /\ kept \in Seq(Entries)
      /\ Len(Grown) > OutboxLimit =>
           Len(kept) = Len(outbox) /\ \A i \in 1..Len(kept) : kept[i] = Grown[i + 1]
  BY KeptProperties
<1>2. \A i \in 1..Len(outbox) : outbox[i].key \in Nat /\ outbox[i].key <= issued
  BY KeysDomain DEF BoxPart, Rising
<1>3. \A i, j \in 1..Len(outbox) : i < j => outbox[i].key < outbox[j].key
  BY KeysDomain DEF BoxPart, Rising
<1>4. issued \in Nat
  BY HostTypes
<1>5. \A i \in 1..(Len(outbox) + 1) : i \in 1..Len(outbox) \/ i = Len(outbox) + 1
  OBVIOUS
<1>6. /\ DOMAIN Keys(Grown) = 1..(Len(outbox) + 1)
      /\ \A i \in 1..(Len(outbox) + 1) : Keys(Grown)[i] = Grown[i].key
  BY ZenonT(60), <1>1, KeysDomain
<1>7. \A i \in 1..Len(outbox) : Keys(Grown)[i] = outbox[i].key
  <2>1. \A i \in 1..Len(outbox) : i \in 1..(Len(outbox) + 1)
    BY SMTT(60)
  <2> QED BY ZenonT(60), <1>1, <1>6, <2>1
<1>8. Keys(Grown)[Len(outbox) + 1] = issued + 1
  <2>1. Len(outbox) + 1 \in 1..(Len(outbox) + 1)
    OBVIOUS
  <2> QED BY ZenonT(60), <1>1, <1>6, <2>1
<1>9. Rising(Keys(Grown), issued + 1)
  <2>1. \A i \in 1..(Len(outbox) + 1) : Keys(Grown)[i] <= issued + 1
    BY SMTT(60), <1>2, <1>4, <1>5, <1>7, <1>8
  <2>2. ASSUME NEW i \in 1..(Len(outbox) + 1), NEW j \in 1..(Len(outbox) + 1), i < j
        PROVE  Keys(Grown)[i] < Keys(Grown)[j]
    <3>1. i \in 1..Len(outbox)
      BY <2>2
    <3> QED BY <1>2, <1>3, <1>4, <1>5, <1>7, <1>8, <2>2, <3>1
  <2> QED BY <1>6, <2>1, <2>2 DEF Rising
<1>10. CASE Len(Grown) > OutboxLimit
  <2> DEFINE at == [i \in 1..Len(kept) |-> i + 1]
  <2>1. /\ Len(kept) = Len(outbox) /\ DOMAIN Keys(kept) = 1..Len(kept)
        /\ \A i \in 1..Len(kept) : Keys(kept)[i] = kept[i].key /\ kept[i] = Grown[i + 1]
    BY <1>1, <1>10, KeysDomain
  <2>2. at \in [DOMAIN Keys(kept) -> DOMAIN Keys(Grown)]
    BY <1>6, <2>1
  <2>3. \A i \in 1..Len(kept) : at[i] = i + 1 /\ i + 1 \in 1..(Len(outbox) + 1)
    BY <2>1
  <2>4. \A i, j \in 1..Len(kept) : i < j => at[i] < at[j]
    OBVIOUS
  <2> HIDE DEF at
  <2>5. \A i \in 1..Len(kept) : Keys(kept)[i] = Keys(Grown)[at[i]]
    BY SMTT(60), <1>6, <2>1, <2>3
  <2>6. Rising(Keys(kept), issued + 1)
    <3>1. /\ \A i \in DOMAIN Keys(kept) : Keys(kept)[i] = Keys(Grown)[at[i]]
          /\ \A i, j \in DOMAIN Keys(kept) : i < j => at[i] < at[j]
      BY <2>1, <2>4, <2>5
    <3> QED BY ONLY <1>9, <2>2, <3>1, SomeOfRising
  <2> QED BY <1>9, <2>6
<1> QED BY <1>9, <1>10

LEMMA BoxStep ==
  ASSUME Types, Types', BoxPart, [Next]_vars
  PROVE  BoxPart'
<1> USE OutboxType
<1>1. CASE InPlace /\ UNCHANGED <<stored, issued>>
  <2>1. outbox' \in Seq(Entries) /\ Len(outbox') = Len(outbox)
    BY <1>1 DEF Types, TypeOK, Entries, InPlace
  <2>2. Keys(outbox') = Keys(outbox)
    BY <1>1, <2>1, KeysDomain DEF InPlace, Keys
  <2> QED BY <1>1, <2>2 DEF BoxPart
<1>2. CASE UNCHANGED <<outbox, stored, issued>>
  BY <1>2 DEF BoxPart
<1>3. CASE Enqueue
  <2>1. issued < MaxWrites /\ issued' = issued + 1 /\ issued \in Nat
    BY <1>3, HostTypes DEF Enqueue
  <2>2. CASE Admitted
    <3>1. PICK kept : /\ kept = IF Len(Grown) > OutboxLimit THEN Tail(Grown) ELSE Grown
                      /\ stored' = Keys(kept) /\ outbox' = kept
      BY <2>2 DEF Admitted
    <3> QED BY <2>1, <3>1, GrownRises DEF BoxPart
  <2>3. CASE Refused
    <3>1. \A i \in DOMAIN Keys(outbox) : Keys(outbox)[i] \in Nat
      BY KeysDomain
    <3>2. \A i \in DOMAIN stored : stored[i] \in Nat
      BY ElementOfSeq, WritesAssumption DEF Writes
    <3>3. UNCHANGED <<outbox, stored>>
      BY <2>3 DEF Refused
    <3> QED BY <2>1, <3>1, <3>2, <3>3 DEF BoxPart, Rising
  <2> QED BY <1>3, <2>2, <2>3 DEF Enqueue
<1>4. CASE TakeAck
  <2>1. issued' = issued
    BY <1>4 DEF TakeAck
  <2>2. ASSUME NEW k \in DOMAIN outbox, outbox' = Without(outbox, k)
        PROVE  Rising(Keys(outbox'), issued)
    <3> DEFINE at == [i \in 1..Len(outbox') |-> IF i < k THEN i ELSE i + 1]
    <3>1. /\ outbox' \in Seq(Entries) /\ Len(outbox') = Len(outbox) - 1
          /\ \A i \in 1..Len(outbox') : outbox'[i] = IF i < k THEN outbox[i] ELSE outbox[i + 1]
      BY ZenonT(60), <2>2, WithoutProperties
    <3>2. /\ DOMAIN Keys(outbox') = 1..Len(outbox') /\ DOMAIN Keys(outbox) = 1..Len(outbox)
          /\ \A i \in 1..Len(outbox') : Keys(outbox')[i] = outbox'[i].key
          /\ \A i \in 1..Len(outbox) : Keys(outbox)[i] = outbox[i].key
      BY <3>1, KeysDomain
    <3>3. at \in [1..Len(outbox') -> 1..Len(outbox)]
      BY <3>1
    <3>4. \A i \in 1..Len(outbox') : outbox'[i] = outbox[at[i]] /\ at[i] \in 1..Len(outbox)
      BY <3>1, <3>3
    <3>5. \A i, j \in 1..Len(outbox') : i < j => at[i] < at[j]
      BY <3>1
    <3> HIDE DEF at
    <3>6. \A i \in 1..Len(outbox') : Keys(outbox')[i] = Keys(outbox)[at[i]]
      BY ZenonT(60), <3>2, <3>4
    <3>7. /\ at \in [DOMAIN Keys(outbox') -> DOMAIN Keys(outbox)]
          /\ \A i \in DOMAIN Keys(outbox') : Keys(outbox')[i] = Keys(outbox)[at[i]]
          /\ \A i, j \in DOMAIN Keys(outbox') : i < j => at[i] < at[j]
      BY <3>2, <3>3, <3>5, <3>6
    <3>8. Rising(Keys(outbox), issued)
      BY DEF BoxPart
    <3> QED BY ONLY SMTT(60), <3>7, <3>8, SomeOfRising
  <2>3. CASE UNCHANGED <<outbox, stored>>
    BY <1>2, <2>1, <2>3
  <2>4. ASSUME NEW k \in DOMAIN outbox, outbox' = Without(outbox, k),
               stored' = Keys(outbox') \/ stored' = stored
        PROVE  BoxPart'
    BY <2>1, <2>2, <2>4 DEF BoxPart
  <2> QED BY <1>4, <2>3, <2>4 DEF TakeAck
<1>5. CASE Flush
  BY <1>1, <1>5, FlushInPlace DEF Flush
<1>6. CASE Stall \/ ApplyDown
  BY <1>1, <1>6, UnsentInPlace DEF Stall, ApplyDown
<1>7. CASE Relaunch
  <2>1. /\ outbox' \in Seq(Entries) /\ Len(outbox') = Len(stored)
        /\ \A i \in 1..Len(stored) : outbox'[i].key = stored[i]
    BY <1>7, RestoredProperties
  <2>2. Keys(outbox') = stored
    BY <2>1, KeysDomain DEF Keys
  <2>3. UNCHANGED <<stored, issued>>
    BY <1>7 DEF Relaunch
  <2> QED BY <2>2, <2>3 DEF BoxPart
<1> QED BY <1>2, <1>3, <1>4, <1>5, <1>6, <1>7
        DEF Next, vars, client, Tick, Foreground, ApplyUp, Lose, DialFails, BackoffEnds,
            Reconnect, Established, Relay, Handle, Finish

-------------------------------------------------------------------------------
(* The lines on their way *)

\* What holds no other write back any more, and what is on its way by a connection
\* that still is.
Done == Elements(executed) \union failed
OnWire == IF line = "relaying" THEN Elements(wire[conn]) ELSE {}

LEMMA DoneGrows ==
  ASSUME Types, Types', [Next]_vars
  PROVE  Done \subseteq Done' /\ issued \in Nat /\ issued' \in Nat /\ issued <= issued'
<1> USE HostTypes
<1>1. issued' = issued \/ issued' = issued + 1
  BY DEF Next, vars, Enqueue, TakeAck, Tick, Flush, Stall, Foreground, ApplyDown, ApplyUp,
         Lose, DialFails, BackoffEnds, Reconnect, Established, Relay, Relaunch, Handle, Finish
<1>2. failed \subseteq failed'
  BY DEF Next, vars, Enqueue, Admitted, Refused, TakeAck, Tick, Flush, Stall, Foreground,
         ApplyDown, ApplyUp, Lose, DialFails, BackoffEnds, Reconnect, Established, Relay,
         Relaunch, Handle, Finish
<1>3. Elements(executed) \subseteq Elements(executed')
  <2>1. CASE executed' = executed
    BY <2>1
  <2>2. ASSUME NEW c, NEW key \in Writes, Complete(c, key)
        PROVE  Elements(executed) \subseteq Elements(executed')
    BY <2>2, AppendElements DEF Complete
  <2>3. ASSUME NEW c \in Conns, Handle(c)
        PROVE  Elements(executed) \subseteq Elements(executed')
    <3>1. Head(wire[c]) \in Writes
      BY <2>3, WireKeys DEF Handle
    <3> QED BY <2>1, <2>2, <2>3, <3>1 DEF Handle
  <2>4. ASSUME NEW i \in DOMAIN running, Finish(i)
        PROVE  Elements(executed) \subseteq Elements(executed')
    BY <2>2, <2>4, RunningKeys DEF Finish
  <2> QED BY <2>1, <2>3, <2>4
          DEF Next, vars, host, Enqueue, TakeAck, Tick, Flush, Stall, Foreground, ApplyDown,
              ApplyUp, Lose, DialFails, BackoffEnds, Reconnect, Established, Relay, Relaunch
<1>4. issued' \in Nat
  BY WritesAssumption DEF Types, TypeOK
<1> QED BY <1>1, <1>2, <1>3, <1>4 DEF Done

LEMMA HandledIsDone ==
  ASSUME Types, HostPart, Orderly, NEW c \in Conns, Handle(c)
  PROVE  /\ wire[c] \in Seq(Writes) /\ wire[c] # <<>>
         /\ wire' = [wire EXCEPT ![c] = Tail(@)]
         /\ UNCHANGED <<line, conn, queue, news, outbox>>
         /\ Head(wire[c]) \in Done'
<1>1. /\ wire[c] \in Seq(Writes) /\ wire[c] # <<>>
      /\ wire' = [wire EXCEPT ![c] = Tail(@)]
      /\ UNCHANGED <<line, conn, queue, news, outbox>>
  BY HostTypes DEF Handle, transport, client
<1>2. Head(wire[c]) \in Elements(executed')
  <2>1. /\ Head(wire[c]) \in Writes /\ executed \in Seq(Writes)
        /\ \/ Head(wire[c]) \in Elements(executed) /\ executed' = executed
           \/ executed' = Append(executed, Head(wire[c]))
    BY HandleCases, HostTypes
  <2> QED BY <2>1, AppendElements
<1> QED BY <1>1, <1>2 DEF Done

Breaks == Lose \/ Reconnect \/ Relaunch

LEMMA RelayedOnWire ==
  ASSUME Types, Relay
  PROVE  /\ queue # <<>> /\ Head(queue) \in Writes /\ queue' = Tail(queue)
         /\ wire' = [wire EXCEPT ![conn] = Append(@, Head(queue))]
         /\ UNCHANGED <<line, conn, executed, failed, issued, news, outbox>>
         /\ line = "relaying"
         /\ Elements(wire'[conn]) = Elements(wire[conn]) \union {Head(queue)}
<1>1. /\ queue # <<>> /\ queue' = Tail(queue) /\ line = "relaying"
      /\ wire' = [wire EXCEPT ![conn] = Append(@, Head(queue))]
      /\ UNCHANGED <<line, conn, executed, failed, issued, news, outbox>>
  BY DEF Relay, host, client
<1>2. Head(queue) \in Writes
  BY <1>1, HostTypes, HeadTailProperties
<1>3. wire'[conn] = Append(wire[conn], Head(queue))
  BY <1>1, HostTypes
<1> QED BY <1>1, <1>2, <1>3, HostTypes, AppendElements

\* A line that is carried stays so until it is done, unless its connection breaks.
LEMMA CarriedStep ==
  ASSUME Types, Types', HostPart, Orderly, [Next]_vars, ~Breaks
  PROVE  Done \union OnWire \subseteq Done' \union OnWire'
<1> USE HostTypes, DoneGrows
<1>1. CASE UNCHANGED <<line, conn, wire>>
  BY <1>1 DEF OnWire
<1>2. CASE line # "relaying"
  BY <1>2 DEF OnWire
<1>3. CASE Relay
  BY <1>3, RelayedOnWire DEF OnWire
<1>4. ASSUME NEW c \in Conns, Handle(c)
      PROVE  Done \union OnWire \subseteq Done' \union OnWire'
  <2>1. /\ wire[c] \in Seq(Writes) /\ wire[c] # <<>> /\ Head(wire[c]) \in Done'
        /\ wire' = [wire EXCEPT ![c] = Tail(@)] /\ UNCHANGED <<line, conn>>
    BY <1>4, HandledIsDone
  <2>2. CASE c = conn
    <3>1. Elements(wire[conn]) = Elements(wire'[conn]) \union {Head(wire[c])}
      BY <2>1, <2>2, TailElements
    <3> QED BY <2>1, <3>1 DEF OnWire
  <2>3. CASE c # conn
    <3>1. wire'[conn] = wire[conn]
      BY <2>1, <2>3
    <3> QED BY <2>1, <3>1 DEF OnWire
  <2> QED BY <2>2, <2>3
<1> QED BY <1>1, <1>2, <1>3, <1>4, NothingFinishes
        DEF Next, vars, transport, Enqueue, TakeAck, Tick, Flush, Stall, Foreground, ApplyDown,
            ApplyUp, DialFails, BackoffEnds, Established, Breaks

WirePart == \A c \in Conns : InOrder(wire[c], Done, issued)

QueuePart == line # "backoff" => InOrder(queue, Done \union OnWire, issued)

\* Until it hears that its connection is gone, the link has sent nothing that is
\* neither done nor still on its way.
SentPart ==
  "down" \notin Elements(news) =>
    \A i \in 1..Len(outbox) :
      outbox[i].sent => outbox[i].key \in Done \union OnWire \union Elements(queue)

LEMMA WireStep ==
  ASSUME Types, Types', HostPart, WirePart, QueuePart, Orderly, [Next]_vars
  PROVE  WirePart'
<1> USE HostTypes, DoneGrows
<1>1. \A c \in Conns : wire[c] \in Seq(Writes) /\ InOrder(wire[c], Done', issued')
  BY InOrderGrows DEF WirePart
<1>2. CASE wire' = wire
  BY <1>1, <1>2 DEF WirePart
<1>3. ASSUME NEW n \in 0..Len(wire[conn]), wire' = [wire EXCEPT ![conn] = SubSeq(@, 1, n)]
      PROVE  WirePart'
  <2>1. InOrder(SubSeq(wire[conn], 1, n), Done', issued')
    BY <1>1, PrefixInOrder
  <2>2. \A c \in Conns : wire'[c] = IF c = conn THEN SubSeq(wire[conn], 1, n) ELSE wire[c]
    BY <1>3
  <2> QED BY <1>1, <2>1, <2>2 DEF WirePart
<1>4. CASE (Lose \/ Reconnect) /\ HangUp
  BY <1>2, <1>3, <1>4 DEF HangUp, Cut
<1>5. CASE Relaunch
  BY <1>3, <1>5 DEF Relaunch
<1>6. CASE Relay
  <2> DEFINE key == Head(queue)
  <2>1. /\ queue # <<>> /\ key \in Writes /\ line = "relaying"
        /\ wire' = [wire EXCEPT ![conn] = Append(@, key)]
        /\ Done' = Done /\ issued' = issued
    BY <1>6, RelayedOnWire DEF Done
  <2>2. InOrder(queue, Done \union Elements(wire[conn]), issued)
    BY <2>1 DEF QueuePart, OnWire
  <2>3. 1 \in DOMAIN queue /\ queue[1] = key
    BY <2>1, EmptySeq, LenProperties, HeadTailProperties
  <2>4. key <= issued /\ \A w \in 1..(key - 1) : w \in Done \union Elements(wire[conn])
    BY <2>2, <2>3 DEF InOrder
  <2>5. InOrder(Append(wire[conn], key), Done, issued)
    <3>1. wire[conn] \in Seq(Writes) /\ InOrder(wire[conn], Done, issued)
      BY DEF WirePart
    <3> QED BY <2>1, <2>4, <3>1, AppendInOrder
  <2>6. \A c \in Conns : wire'[c] = IF c = conn THEN Append(wire[conn], key) ELSE wire[c]
    BY <2>1
  <2> QED BY <1>1, <2>1, <2>5, <2>6 DEF WirePart
<1>7. ASSUME NEW d \in Conns, Handle(d)
      PROVE  WirePart'
  <2>1. /\ wire[d] \in Seq(Writes) /\ wire[d] # <<>> /\ Head(wire[d]) \in Done'
        /\ wire' = [wire EXCEPT ![d] = Tail(@)]
    BY <1>7, HandledIsDone
  <2>2. InOrder(Tail(wire[d]), Done', issued')
    BY <1>1, <2>1, TailInOrder
  <2>3. \A c \in Conns : wire'[c] = IF c = d THEN Tail(wire[d]) ELSE wire[c]
    BY <2>1
  <2> QED BY <1>1, <2>2, <2>3 DEF WirePart
<1> QED BY <1>2, <1>4, <1>5, <1>6, <1>7, NothingFinishes
        DEF Next, vars, Enqueue, TakeAck, Tick, Flush, Stall, Foreground, ApplyDown, ApplyUp,
            Lose, DialFails, BackoffEnds, Reconnect, Established

LEMMA NewsGrows ==
  ASSUME Types, NEW state \in {"up", "down"}, news' = Append(news, state)
  PROVE  Elements(news') = Elements(news) \union {state}
<1>1. /\ news \in Seq({"up", "down"}) /\ Len(news) \in Nat /\ DOMAIN news = 1..Len(news)
  BY LenProperties DEF Types, TypeOK
<1>2. /\ news' \in Seq({"up", "down"}) /\ Len(news') = Len(news) + 1
      /\ \A i \in 1..Len(news) : news'[i] = news[i]
      /\ news'[Len(news) + 1] = state
  BY <1>1, AppendProperties
<1>3. DOMAIN news' = 1..(Len(news) + 1)
  BY <1>2, LenProperties
<1> QED BY <1>1, <1>2, <1>3 DEF Elements

LEMMA NewsShrinks ==
  ASSUME Types, news # <<>>, news' = Tail(news), Head(news) = "up"
  PROVE  "down" \in Elements(news) => "down" \in Elements(news')
BY TailElements DEF Types, TypeOK

\* What flush_outbox puts into the queue comes after what is sent already: older
\* writes are done, sent, or among the lines before it.
LEMMA FlushedInOrder ==
  ASSUME Types, NothingIsLost, HostPart, BoxPart, SentPart, Orderly, Flush,
         NEW first, first = SentCount(outbox) + 1,
         NEW last, last = SentCount(outbox) + FlushCount
  PROVE  LET lines == SubSeq(Keys(outbox), first, last)
         IN  /\ lines \in Seq(Writes)
             /\ InOrder(lines, (Done \union OnWire) \union Elements(queue), issued)
             /\ \A i \in first..last : outbox[i].key \in Elements(lines)
<1> DEFINE lines == SubSeq(Keys(outbox), first, last)
           reached == (Done \union OnWire) \union Elements(queue)
<1> USE OutboxType
<1>1. /\ first \in 1..(Len(outbox) + 1) /\ last \in (first - 1)..Len(outbox)
      /\ first \in Nat /\ last \in Nat
  BY SMTT(60), MarkedProperties
<1>2. /\ Keys(outbox) \in Seq(Writes) /\ Len(Keys(outbox)) = Len(outbox)
      /\ \A i \in 1..Len(outbox) : Keys(outbox)[i] = outbox[i].key
      /\ \A i \in 1..Len(outbox) : outbox[i].key \in Nat
  BY KeysProperties, KeysDomain
<1>3. /\ lines \in Seq(Writes) /\ Len(lines) = last - first + 1
      /\ \A i \in 1..(last - first + 1) : lines[i] = Keys(outbox)[first + i - 1]
  <2>1. \A i \in first..last : i \in 1..Len(outbox) /\ Keys(outbox)[i] \in Writes
    BY <1>1, <1>2
  <2>2. \A i \in first..last : Keys(outbox)[i] \in Writes
    BY <2>1
  <2> QED BY SMTT(60), <1>1, <2>2, SubSeqProperties
<1>4. DOMAIN lines = 1..(last - first + 1)
  BY <1>3, LenProperties
<1> HIDE DEF lines
<1>5. \A i \in DOMAIN lines :
        /\ first + i - 1 \in first..last /\ first + i - 1 \in 1..Len(outbox)
        /\ lines[i] = outbox[first + i - 1].key
  <2>1. \A i \in DOMAIN lines : first + i - 1 \in first..last /\ first + i - 1 \in 1..Len(outbox)
    BY <1>1, <1>4
  <2> QED BY <1>2, <1>3, <1>4, <2>1
<1>6. \A i \in first..last : i - first + 1 \in DOMAIN lines /\ lines[i - first + 1] = outbox[i].key
  <2>1. ASSUME NEW i \in first..last
        PROVE  i - first + 1 \in DOMAIN lines /\ first + (i - first + 1) - 1 = i
    BY SMTT(60), <1>1, <1>4, <2>1
  <2> QED BY <1>5, <2>1
<1>7. /\ \A i \in 1..Len(outbox) : outbox[i].key <= issued
      /\ \A i, j \in 1..Len(outbox) : i < j => outbox[i].key < outbox[j].key
  <2>1. DOMAIN Keys(outbox) = 1..Len(outbox)
    BY KeysDomain
  <2> QED BY <1>2, <2>1 DEF BoxPart, Rising
<1>8. ASSUME NEW i \in 1..Len(outbox), i < first
      PROVE  outbox[i].key \in reached
  <2>1. outbox[i].sent
    BY <1>8, SentCountProperties
  <2>2. "down" \notin Elements(news)
    <3>1. news = <<>>
      BY DEF Flush, Orderly
    <3> QED BY <3>1, EmptySeq DEF Elements
  <2> QED BY <2>1, <2>2 DEF SentPart
<1>9. ASSUME NEW i \in DOMAIN lines, NEW w \in 1..(lines[i] - 1)
      PROVE  w \in reached \/ \E j \in 1..(i - 1) : lines[j] = w
  <2> DEFINE k == first + i - 1
  <2>1. k \in 1..Len(outbox) /\ lines[i] = outbox[k].key /\ i \in Nat /\ i >= 1
    BY <1>4, <1>5
  <2>2. w \in 1..issued /\ w < outbox[k].key
    BY SMTT(60), <1>2, <1>7, <2>1, HostTypes
  <2>3. w \in acked \union failed \/ \E j \in 1..Len(outbox) : outbox[j].key = w
    BY <2>2, RetainedKeys DEF NothingIsLost
  <2>4. CASE w \in acked \union failed
    BY <2>4 DEF HostPart, Done
  <2>5. ASSUME NEW j \in 1..Len(outbox), outbox[j].key = w
        PROVE  w \in reached \/ \E m \in 1..(i - 1) : lines[m] = w
    <3>1. j < k
      <4>1. ~(k < j) /\ k # j
        BY SMTT(60), <1>2, <1>7, <2>1, <2>2, <2>5
      <4> QED BY <2>1, <4>1
    <3>2. CASE j < first
      BY <1>8, <2>5, <3>2
    <3>3. CASE ~(j < first)
      <4>1. j \in first..last
        BY <1>1, <1>5, <2>1, <3>1, <3>3
      <4>2. j - first + 1 \in 1..(i - 1)
        BY SMTT(60), <1>1, <2>1, <3>1, <3>3
      <4>3. lines[j - first + 1] = w
        BY <1>6, <2>5, <4>1
      <4> QED BY <4>2, <4>3
    <3> QED BY <3>2, <3>3
  <2> QED BY <2>3, <2>4, <2>5
<1>10. \A i \in DOMAIN lines : lines[i] <= issued
  BY <1>5, <1>7
<1>11. InOrder(lines, reached, issued)
  BY <1>9, <1>10 DEF InOrder
<1>12. \A i \in first..last : outbox[i].key \in Elements(lines)
  BY <1>6 DEF Elements
<1> QED BY <1>3, <1>11, <1>12 DEF lines

LEMMA QueueStep ==
  ASSUME Types, Types', NothingIsLost, HostPart, BoxPart, QueuePart, SentPart, Orderly,
         [Next]_vars
  PROVE  QueuePart'
<1> USE HostTypes, DoneGrows
<1>1. CASE UNCHANGED queue /\ ~Breaks /\ (line' # "backoff" => line # "backoff")
  <2>1. Done \union OnWire \subseteq Done' \union OnWire'
    BY <1>1, CarriedStep
  <2> QED BY <1>1, <2>1, InOrderGrows DEF QueuePart
<1>2. CASE line' = "backoff"
  BY <1>2 DEF QueuePart
<1>3. CASE queue' = <<>>
  BY <1>3, EmptyInOrder DEF QueuePart
<1>4. CASE Flush
  <2> DEFINE first == SentCount(outbox) + 1
             last == SentCount(outbox) + FlushCount
             lines == SubSeq(Keys(outbox), first, last)
  <2>1. /\ lines \in Seq(Writes)
        /\ InOrder(lines, (Done \union OnWire) \union Elements(queue), issued)
    BY <1>4, FlushedInOrder
  <2>2. /\ queue' = queue \o lines
        /\ UNCHANGED <<line, conn, wire, executed, failed, issued>>
    BY <1>4 DEF Flush, host
  <2> HIDE DEF lines
  <2>3. Done' = Done /\ OnWire' = OnWire
    BY <2>2 DEF Done, OnWire
  <2>4. line # "backoff" => InOrder(queue \o lines, Done \union OnWire, issued)
    BY <2>1, ConcatInOrder DEF QueuePart
  <2> QED BY <2>2, <2>3, <2>4 DEF QueuePart
<1>5. CASE Relay
  <2> DEFINE key == Head(queue)
  <2>1. /\ queue # <<>> /\ queue' = Tail(queue) /\ line = "relaying" /\ line' = line
        /\ Done' = Done /\ issued' = issued /\ OnWire' = OnWire \union {key}
    BY <1>5, RelayedOnWire DEF Done, OnWire
  <2>2. InOrder(queue, Done \union OnWire, issued)
    BY <2>1 DEF QueuePart
  <2>3. InOrder(Tail(queue), Done \union (OnWire \union {key}), issued)
    BY <2>1, <2>2, TailInOrder
  <2>4. Done' \union OnWire' = Done \union (OnWire \union {key})
    BY <2>1
  <2>5. InOrder(queue', Done' \union OnWire', issued')
    BY <2>1, <2>3, <2>4
  <2> QED BY <2>5 DEF QueuePart
<1>6. ASSUME NEW c \in Conns, Handle(c), ~Breaks
      PROVE  QueuePart'
  BY <1>1, <1>6, HandledIsDone
<1>7. CASE Breaks
  BY <1>2, <1>3, <1>7 DEF Breaks, Lose, Reconnect, Relaunch, Redial
<1>8. CASE DialFails \/ BackoffEnds
  BY <1>2, <1>3, <1>8 DEF DialFails, BackoffEnds, Redial
<1>9. CASE Established /\ ~Breaks
  BY <1>1, <1>9 DEF Established
<1>10. ASSUME ~Breaks, [Next]_vars
       PROVE  QueuePart'
  <2>1. CASE UNCHANGED <<queue, line>>
    BY <1>1, <1>10, <2>1
  <2> QED BY <1>4, <1>5, <1>6, <1>8, <1>9, <1>10, <2>1, NothingFinishes
          DEF Next, Breaks, vars, transport, Enqueue, TakeAck, Tick, Stall, Foreground,
              ApplyDown, ApplyUp
<1> QED BY <1>7, <1>10

LEMMA SentStep ==
  ASSUME Types, Types', NothingIsLost, HostPart, BoxPart, SentPart, Orderly, [Next]_vars
  PROVE  SentPart'
<1> USE OutboxType, HostTypes
<1> DEFINE reached == (Done \union OnWire) \union Elements(queue)
\* Nothing is sent, or nothing that was not before, and the link has heard no more.
<1>1. CASE \A i \in 1..Len(outbox') : ~outbox'[i].sent
  BY <1>1 DEF SentPart
<1>2. CASE "down" \in Elements(news')
  BY <1>2 DEF SentPart
<1>3. ASSUME "down" \in Elements(news) => "down" \in Elements(news'),
             \A i \in 1..Len(outbox') : outbox'[i].sent =>
               \E j \in 1..Len(outbox) : outbox[j].sent /\ outbox[j].key = outbox'[i].key,
             reached \subseteq reached'
      PROVE  SentPart'
  BY <1>3 DEF SentPart
<1>4. ASSUME UNCHANGED queue, ~Breaks
      PROVE  reached \subseteq reached'
  <2>1. Done \union OnWire \subseteq Done' \union OnWire'
    BY <1>4, CarriedStep
  <2> QED BY <1>4, <2>1
<1>5. CASE UNCHANGED <<outbox, queue, news>> /\ ~Breaks
  BY <1>3, <1>4, <1>5
<1>6. CASE Breaks \/ DialFails \/ BackoffEnds
  <2>1. CASE Relaunch
    BY <1>1, <2>1, RestoredProperties
  <2>2. CASE ~Relaunch
    <3>1. news' = Append(news, "down")
      BY <1>6, <2>2 DEF Breaks, Lose, Reconnect, DialFails, BackoffEnds, Redial
    <3> QED BY <1>2, <3>1, NewsGrows
  <2> QED BY <2>1, <2>2
<1>7. CASE Stall \/ ApplyDown
  <2>1. Len(outbox') = Len(outbox) /\ \A i \in 1..Len(outbox) : ~outbox'[i].sent
    BY <1>7, UnsentInPlace DEF InPlace
  <2> QED BY <1>1, <2>1
<1>8. CASE ApplyUp /\ ~Breaks
  <2>1. UNCHANGED <<outbox, queue>> /\ ("down" \in Elements(news) => "down" \in Elements(news'))
    BY <1>8, NewsShrinks DEF ApplyUp, transport
  <2> QED BY <1>3, <1>4, <1>8, <2>1
<1>9. CASE Established /\ ~Breaks
  <2>1. UNCHANGED <<outbox, queue>> /\ ("down" \in Elements(news) => "down" \in Elements(news'))
    BY <1>9, NewsGrows DEF Established, client
  <2> QED BY <1>3, <1>4, <1>9, <2>1
<1>10. CASE Enqueue /\ ~Breaks
  <2>1. UNCHANGED <<news, queue>> /\ issued < MaxWrites
    BY <1>10 DEF Enqueue, transport
  <2>2. CASE Admitted
    <3>1. PICK kept : /\ kept = IF Len(Grown) > OutboxLimit THEN Tail(Grown) ELSE Grown
                      /\ outbox' = kept
      BY <2>2 DEF Admitted
    <3>2. /\ Len(Grown) = Len(outbox) + 1
          /\ \A i \in 1..Len(outbox) : Grown[i] = outbox[i]
          /\ ~Grown[Len(outbox) + 1].sent
          /\ Len(Grown) > OutboxLimit =>
               Len(kept) = Len(outbox) /\ \A i \in 1..Len(kept) : kept[i] = Grown[i + 1]
      BY SMTT(60), <2>1, <3>1, KeptProperties
    <3>3. ASSUME NEW i \in 1..Len(Grown), Grown[i].sent
          PROVE  i \in 1..Len(outbox) /\ outbox[i] = Grown[i]
      <4>1. i # Len(outbox) + 1
        BY <3>2, <3>3
      <4>2. i \in 1..Len(outbox)
        BY <3>2, <4>1
      <4> QED BY <3>2, <4>2
    <3>4. ASSUME NEW i \in 1..Len(kept), kept[i].sent
          PROVE  \E j \in 1..Len(outbox) : outbox[j] = kept[i]
      <4>1. CASE Len(Grown) > OutboxLimit
        <5>1. i + 1 \in 1..Len(Grown) /\ kept[i] = Grown[i + 1]
          BY <3>2, <4>1
        <5> QED BY <3>3, <3>4, <5>1
      <4>2. CASE ~(Len(Grown) > OutboxLimit)
        BY <3>1, <3>3, <3>4, <4>2
      <4> QED BY <4>1, <4>2
    <3> QED BY <1>3, <1>4, <1>10, <2>1, <3>1, <3>4
  <2>3. CASE Refused
    BY <1>5, <1>10, <2>1, <2>3 DEF Refused
  <2> QED BY <1>10, <2>2, <2>3 DEF Enqueue
<1>11. CASE TakeAck /\ ~Breaks
  <2>1. UNCHANGED <<news, queue>>
    BY <1>11 DEF TakeAck, transport
  <2>2. ASSUME NEW k \in DOMAIN outbox, outbox' = Without(outbox, k)
        PROVE  \A i \in 1..Len(outbox') : \E j \in 1..Len(outbox) : outbox[j] = outbox'[i]
    <3>1. /\ Len(outbox') = Len(outbox) - 1
          /\ \A i \in 1..(Len(outbox) - 1) :
               outbox'[i] = IF i < k THEN outbox[i] ELSE outbox[i + 1]
      BY ZenonT(60), <2>2, WithoutProperties
    <3>2. ASSUME NEW i \in 1..Len(outbox')
          PROVE  \E j \in 1..Len(outbox) : outbox[j] = outbox'[i]
      <4>1. i \in 1..Len(outbox) /\ i + 1 \in 1..Len(outbox)
        BY <3>1
      <4> QED BY <3>1, <4>1
    <3> QED BY SMTT(60), <3>2
  <2>3. CASE outbox' = outbox
    BY <1>5, <1>11, <2>1, <2>3
  <2> QED BY <1>3, <1>4, <1>11, <2>1, <2>2, <2>3 DEF TakeAck
<1>12. CASE Flush
  <2> DEFINE first == SentCount(outbox) + 1
             last == SentCount(outbox) + FlushCount
             lines == SubSeq(Keys(outbox), first, last)
  <2>1. /\ lines \in Seq(Writes)
        /\ \A i \in first..last : outbox[i].key \in Elements(lines)
        /\ InOrder(lines, (Done \union OnWire) \union Elements(queue), issued)
    BY <1>12, FlushedInOrder
  <2>2. /\ Len(outbox') = Len(outbox) /\ queue' = queue \o lines
        /\ \A i \in 1..Len(outbox) :
             /\ outbox'[i].key = outbox[i].key
             /\ outbox'[i].sent <=> outbox[i].sent \/ i \in first..last
    BY <1>12, MarkedProperties
  <2>3. UNCHANGED <<news, line, conn, wire, executed, failed>>
    BY <1>12 DEF Flush, host
  <2> HIDE DEF lines, first, last
  <2>4. Elements(queue') = Elements(queue) \union Elements(lines)
    BY <2>1, <2>2, ConcatElements
  <2>5. reached' = reached \union Elements(lines)
    BY <2>3, <2>4 DEF Done, OnWire
  <2> QED BY <2>1, <2>2, <2>3, <2>5 DEF SentPart
<1>13. CASE Relay
  <2> DEFINE key == Head(queue)
  <2>1. /\ queue # <<>> /\ queue' = Tail(queue) /\ UNCHANGED <<news, outbox>>
        /\ Done' = Done /\ OnWire' = OnWire \union {key}
    BY <1>13, RelayedOnWire DEF Done, OnWire
  <2>2. Elements(queue) = Elements(queue') \union {key}
    BY <2>1, TailElements
  <2>3. reached' = reached
    BY <2>1, <2>2
  <2> QED BY <1>3, <2>1, <2>3
<1>14. ASSUME NEW c \in Conns, Handle(c), ~Breaks
       PROVE  SentPart'
  BY <1>5, <1>14, HandledIsDone
<1>15. ASSUME ~Breaks, [Next]_vars
       PROVE  SentPart'
  BY <1>5, <1>6, <1>7, <1>8, <1>9, <1>10, <1>11, <1>12, <1>13, <1>14, <1>15, NothingFinishes
     DEF Next, Breaks, vars, client, transport, Tick, Foreground
<1> QED BY <1>6, <1>15

-------------------------------------------------------------------------------
(* The promise *)

OrderInv == IInv /\ HostPart /\ BoxPart /\ WirePart /\ QueuePart /\ SentPart

LEMMA OrderInit ==
  ASSUME Init, IInv
  PROVE  OrderInv
<1> USE HostTypes DEF IInv
<1>1. /\ outbox = <<>> /\ stored = <<>> /\ queue = <<>> /\ replies = <<>> /\ cache = <<>>
      /\ executed = <<>> /\ running = <<>> /\ acked = {} /\ \A c \in Conns : wire[c] = <<>>
  BY DEF Init
<1>2. DOMAIN cache = {} /\ DOMAIN stored = {} /\ DOMAIN outbox = {} /\ Len(outbox) = 0
  BY <1>1, EmptySeq
<1>3. HostPart
  BY <1>1, <1>2 DEF HostPart, Distinct, Elements
<1>4. BoxPart
  BY <1>2 DEF BoxPart, Rising, Keys
<1>5. WirePart /\ QueuePart
  BY <1>1, EmptyInOrder DEF WirePart, QueuePart
<1>6. SentPart
  BY <1>2 DEF SentPart
<1> QED BY <1>3, <1>4, <1>5, <1>6 DEF OrderInv

LEMMA OrderStep ==
  ASSUME OrderInv, IInv', Orderly, [Next]_vars
  PROVE  OrderInv'
<1>1. IInv /\ Types /\ Types' /\ NothingIsLost
  BY DEF OrderInv, IInv
<1>2. HostPart /\ BoxPart /\ WirePart /\ QueuePart /\ SentPart
  BY DEF OrderInv
<1>3. HostPart' /\ BoxPart'
  BY <1>1, <1>2, HostStep, BoxStep
<1>4. WirePart' /\ QueuePart'
  BY <1>1, <1>2, WireStep, QueueStep
<1>5. SentPart'
  BY <1>1, <1>2, SentStep
<1> QED BY <1>3, <1>4, <1>5 DEF OrderInv

LEMMA RanIsExecuted ==
  ASSUME NEW w
  PROVE  Promise!Ran(w) <=> w \in Elements(executed)
BY DEF Promise!Ran, Elements

\* Making a write costs at most one: the one that falls out of a full outbox, or the
\* new one where it could not be saved.
LEMMA EnqueueIsIssue ==
  ASSUME Types, BoxPart, Enqueue
  PROVE  Promise!Issue
<1> USE OutboxType
<1>1. /\ issued < MaxWrites /\ issued' = issued + 1 /\ issued \in Nat
      /\ UNCHANGED <<executed, acked>>
  BY HostTypes DEF Enqueue, host
<1>2. CASE Admitted
  <2>1. PICK kept : /\ kept = IF Len(Grown) > OutboxLimit THEN Tail(Grown) ELSE Grown
                    /\ failed' = failed \union (Elements(Keys(Grown)) \ Elements(Keys(kept)))
    BY <1>2 DEF Admitted
  <2>2. CASE Len(Grown) > OutboxLimit
    <3>1. Grown \in Seq(Entries) /\ Len(Grown) = Len(outbox) + 1 /\ kept = Tail(Grown)
      BY <1>1, <2>1, <2>2, KeptProperties
    <3>2. /\ Keys(Grown) \in Seq(Writes) /\ Len(Keys(Grown)) = Len(outbox) + 1
          /\ Keys(Grown) # <<>> /\ DOMAIN Keys(Grown) = 1..(Len(outbox) + 1)
      BY <3>1, KeysProperties, KeysDomain, EmptySeq
    <3>3. Keys(kept) = Tail(Keys(Grown))
      <4>1. /\ kept \in Seq(Entries) /\ Len(kept) = Len(outbox)
            /\ \A i \in 1..Len(outbox) : kept[i] = Grown[i + 1]
        BY <3>1, HeadTailProperties, EmptySeq
      <4>2. /\ Keys(kept) \in Seq(Writes) /\ Len(Keys(kept)) = Len(outbox)
            /\ \A i \in 1..Len(outbox) : Keys(kept)[i] = kept[i].key
        BY <4>1, KeysProperties
      <4>3. /\ Tail(Keys(Grown)) \in Seq(Writes) /\ Len(Tail(Keys(Grown))) = Len(outbox)
            /\ \A i \in 1..Len(outbox) : Tail(Keys(Grown))[i] = Keys(Grown)[i + 1]
        BY <3>2, HeadTailProperties
      <4>4. \A i \in 1..Len(outbox) : Keys(Grown)[i + 1] = Grown[i + 1].key
        <5>1. \A i \in 1..Len(outbox) : i + 1 \in 1..Len(Grown)
          BY <3>1
        <5> QED BY <3>1, <5>1, KeysProperties
      <4>5. \A i \in 1..Len(outbox) : Keys(kept)[i] = Tail(Keys(Grown))[i]
        BY <4>1, <4>2, <4>3, <4>4
      <4> QED BY <4>2, <4>3, <4>5, SeqEqual
    <3> DEFINE first == Head(Keys(Grown))
    <3>4. Elements(Keys(Grown)) \ Elements(Keys(kept)) \subseteq {first}
      BY <3>2, <3>3, TailElements
    <3>5. first \in 1..issued'
      <4>1. first = Keys(Grown)[1] /\ 1 \in DOMAIN Keys(Grown) /\ first \in Writes
        BY <3>2, HeadTailProperties
      <4>2. first <= issued + 1
        BY <1>1, <2>1, <4>1, GrownRises DEF Rising
      <4> QED BY <1>1, <4>1, <4>2, WritesAssumption DEF Writes
    <3>6. failed' = failed \/ failed' = failed \union {first}
      BY <2>1, <3>4
    <3> QED BY <1>1, <3>5, <3>6 DEF Promise!Issue
  <2>3. CASE ~(Len(Grown) > OutboxLimit)
    BY <1>1, <2>1, <2>3 DEF Promise!Issue
  <2> QED BY <2>2, <2>3
<1>3. CASE Refused
  <2>1. failed' = failed \union {issued + 1} /\ issued + 1 \in 1..issued'
    BY <1>1, <1>3 DEF Refused
  <2> QED BY <1>1, <2>1 DEF Promise!Issue
<1> QED BY <1>2, <1>3 DEF Enqueue

LEMMA HandleExecutes ==
  ASSUME Types, HostPart, WirePart, Orderly, NEW c \in Conns, Handle(c)
  PROVE  \/ Promise!Execute(Head(wire[c]))
         \/ UNCHANGED <<issued, executed, acked, failed>>
<1> DEFINE key == Head(wire[c])
<1>1. UNCHANGED <<issued, acked, failed>> /\ wire[c] \in Seq(Writes) /\ wire[c] # <<>>
  BY HostTypes DEF Handle
<1>2. CASE executed' = executed
  BY <1>1, <1>2
<1>3. CASE key \notin Elements(executed) /\ executed' = Append(executed, key)
  <2>1. 1 \in DOMAIN wire[c] /\ wire[c][1] = key
    BY <1>1, LenProperties, EmptySeq, HeadTailProperties
  <2>2. key <= issued /\ \A w \in 1..(key - 1) : w \in Elements(executed) \union failed
    <3>1. InOrder(wire[c], Done, issued)
      BY DEF WirePart
    <3> QED BY <2>1, <3>1 DEF InOrder, Done
  <2> QED BY <1>1, <1>3, <2>2, RanIsExecuted DEF Promise!Execute
<1> QED BY <1>2, <1>3, HandleCases

LEMMA TakeAckAcknowledges ==
  ASSUME Types, HostPart, TakeAck
  PROVE  \/ Promise!Acknowledge(Head(replies)) /\ Head(replies) \in 1..MaxWrites
         \/ UNCHANGED <<issued, executed, acked, failed>>
<1>1. /\ UNCHANGED <<issued, executed, failed>> /\ replies # <<>>
      /\ acked' = acked \/ acked' = acked \union {Head(replies)}
  BY DEF TakeAck, host
<1>2. Head(replies) \in Elements(executed) /\ Head(replies) \in Writes
  BY <1>1, TailElements, HeadTailProperties, HostTypes DEF HostPart
<1>3. CASE Head(replies) \in acked
  BY <1>1, <1>3
<1>4. CASE Head(replies) \notin acked /\ acked' # acked
  BY <1>1, <1>2, <1>4, RanIsExecuted DEF Promise!Acknowledge, Writes
<1> QED BY <1>1, <1>3, <1>4

LEMMA PromiseStep ==
  ASSUME OrderInv, Orderly, [Next]_vars
  PROVE  [Promise!Next]_Promise!vars
<1>1. Types /\ HostPart /\ BoxPart /\ WirePart
  BY DEF OrderInv, IInv
<1>2. CASE UNCHANGED <<issued, executed, acked, failed>>
  BY <1>2 DEF Promise!vars
<1>3. CASE Enqueue
  BY <1>1, <1>3, EnqueueIsIssue DEF Promise!Next
<1>4. CASE TakeAck
  BY <1>1, <1>2, <1>4, TakeAckAcknowledges DEF Promise!Next
<1>5. ASSUME NEW c \in Conns, Handle(c)
      PROVE  [Promise!Next]_Promise!vars
  <2>1. Head(wire[c]) \in 1..MaxWrites
    BY <1>1, <1>5, HandleCases DEF Writes
  <2> QED BY <1>1, <1>2, <1>5, <2>1, HandleExecutes DEF Promise!Next
<1> QED BY <1>1, <1>2, <1>3, <1>4, <1>5, NothingFinishes
        DEF Next, vars, host, Tick, Flush, Stall, Foreground, ApplyDown, ApplyUp, Lose,
            DialFails, BackoffEnds, Reconnect, Established, Relay, Relaunch

\* Where the link hears of a lost connection before it sends again, no command needs a
\* task and no write outlives the cache's memory, the host executes each write once
\* and in order, but for those given up, and acknowledges none it has not executed:
\* enqueue, the flushes, the redials, the relaunches and the cache together keep the
\* promise of RetainedWrites.
THEOREM DeliveryKeepsItsPromise ==
  ASSUME Orderly
  PROVE  Spec => Refines
<1>1. Init /\ IInv => OrderInv
  BY OrderInit
<1>2. OrderInv /\ IInv' /\ [Next]_vars => OrderInv'
  BY OrderStep
<1>3. Init => Promise!Init
  BY DEF Init, Promise!Init
<1>4. OrderInv /\ [Next]_vars => [Promise!Next]_Promise!vars
  BY PromiseStep
<1> QED BY <1>1, <1>2, <1>3, <1>4, DeliveryInvariance, PTL DEF Spec, Refines, Promise!Spec

===============================================================================
