--------------------------- MODULE GroupStateProofs ---------------------------
(***************************************************************************)
(* What the operators of GroupState do for every state: the order of       *)
(* entries is a strict total order, taking the higher entry is commutative,*)
(* associative and idempotent, and merging raises entries and invents none.*)
(***************************************************************************)
EXTENDS GroupState, TLAPS

LEMMA EntryTypes ==
  ASSUME NEW e \in Entries
  PROVE  e.member \in BOOLEAN /\ e.counter \in Nat /\ e.by \in Nat
<1>1. CASE e = NoEntry
  BY <1>1 DEF NoEntry
<1>2. CASE e \in [member : BOOLEAN, counter : Nat \ {0}, by : Machines]
  <2>1. e.member \in BOOLEAN /\ e.counter \in Nat /\ e.by \in Machines
    BY <1>2
  <2> QED BY <2>1, MachinesAssumption
<1> QED BY <1>1, <1>2 DEF Entries

\* Two entries of the same rank are the same entry.
LEMMA EntryEquality ==
  ASSUME NEW e \in Entries, NEW f \in Entries,
         e.member = f.member, e.counter = f.counter, e.by = f.by
  PROVE  e = f
BY DEF Entries, NoEntry

\* The rank of Entry orders entries strictly, and any two that differ: a machine
\* that merges never meets two entries between which it cannot choose.
THEOREM OutranksIsTotalOrder ==
  /\ \A e \in Entries : ~Outranks(e, e)
  /\ \A e, f \in Entries : Outranks(e, f) => ~Outranks(f, e)
  /\ \A e, f, g \in Entries : Outranks(e, f) /\ Outranks(f, g) => Outranks(e, g)
  /\ \A e, f \in Entries : e = f \/ Outranks(e, f) \/ Outranks(f, e)
<1>1. \A e \in Entries : ~Outranks(e, e)
  BY EntryTypes DEF Outranks
<1>2. \A e, f \in Entries : Outranks(e, f) => ~Outranks(f, e)
  BY EntryTypes DEF Outranks
<1>3. ASSUME NEW e \in Entries, NEW f \in Entries, NEW g \in Entries,
             Outranks(e, f), Outranks(f, g)
      PROVE  Outranks(e, g)
  <2>1. /\ e.counter \in Nat /\ f.counter \in Nat /\ g.counter \in Nat
        /\ e.by \in Nat /\ f.by \in Nat /\ g.by \in Nat
    BY EntryTypes
  <2>2. /\ e.counter > f.counter \/ e.counter = f.counter
        /\ f.counter > g.counter \/ f.counter = g.counter
    BY <1>3 DEF Outranks
  <2>3. CASE e.counter > f.counter \/ f.counter > g.counter
    <3>1. e.counter > g.counter
      BY <2>1, <2>2, <2>3
    <3> QED BY <3>1 DEF Outranks
  <2>4. CASE e.counter = f.counter /\ f.counter = g.counter
    BY <1>3, <2>1, <2>4, EntryTypes DEF Outranks
  <2> QED BY <2>2, <2>3, <2>4
<1>4. ASSUME NEW e \in Entries, NEW f \in Entries, ~Outranks(e, f), ~Outranks(f, e)
      PROVE  e = f
  <2>1. e.member = f.member /\ e.counter = f.counter /\ e.by = f.by
    BY <1>4, EntryTypes DEF Outranks
  <2> QED BY <2>1, EntryEquality
<1> QED BY <1>1, <1>2, <1>3, <1>4

LEMMA HigherIsEither ==
  ASSUME NEW e \in Entries, NEW f \in Entries
  PROVE  /\ Higher(e, f) \in {e, f}
         /\ Higher(e, f) \in Entries
         /\ Higher(e, f) = e \/ Outranks(Higher(e, f), e)
BY DEF Higher

\* Keeping the higher entry is a join: what a machine ends up with does not
\* depend on the order in which it hears of changes, on hearing one twice, or on
\* which of two machines does the merging (GroupState::merge).
THEOREM HigherIsJoin ==
  /\ \A e \in Entries : Higher(e, e) = e
  /\ \A e, f \in Entries : Higher(e, f) = Higher(f, e)
  /\ \A e, f, g \in Entries : Higher(Higher(e, f), g) = Higher(e, Higher(f, g))
<1>1. \A e \in Entries : Higher(e, e) = e
  BY DEF Higher
<1>2. \A e, f \in Entries : Higher(e, f) = Higher(f, e)
  BY OutranksIsTotalOrder DEF Higher
<1>3. ASSUME NEW e \in Entries, NEW f \in Entries, NEW g \in Entries
      PROVE  Higher(Higher(e, f), g) = Higher(e, Higher(f, g))
  <2>1. CASE Outranks(f, e)
    <3>1. CASE Outranks(g, f)
      BY <2>1, <3>1, OutranksIsTotalOrder DEF Higher
    <3>2. CASE ~Outranks(g, f)
      BY <2>1, <3>2 DEF Higher
    <3> QED BY <3>1, <3>2
  <2>2. CASE ~Outranks(f, e)
    <3>1. CASE Outranks(g, f)
      BY <2>2, <3>1 DEF Higher
    <3>2. CASE ~Outranks(g, f)
      <4>1. ~Outranks(g, e)
        <5>1. e = f \/ Outranks(e, f)
          BY <2>2, OutranksIsTotalOrder
        <5>2. f = g \/ Outranks(f, g)
          BY <3>2, OutranksIsTotalOrder
        <5>3. e = g \/ Outranks(e, g)
          BY <5>1, <5>2, OutranksIsTotalOrder
        <5> QED BY <5>3, OutranksIsTotalOrder
      <4> QED BY <2>2, <3>2, <4>1 DEF Higher
    <3> QED BY <3>1, <3>2
  <2> QED BY <2>1, <2>2
<1> QED BY <1>1, <1>2, <1>3

\* The entry a machine writes over another outranks it: a removal, and the
\* pairing that follows it, win over all that was known when they were made.
LEMMA NextEntryOutranks ==
  ASSUME NEW e \in Entries, NEW member \in BOOLEAN, NEW m \in Machines
  PROVE  NextEntry(e, member, m) \in Entries /\ Outranks(NextEntry(e, member, m), e)
<1>1. e.counter + 1 \in Nat \ {0} /\ e.counter + 1 > e.counter
  BY EntryTypes
<1> QED BY <1>1 DEF NextEntry, Entries, Outranks

\* Merging keeps each of our entries or replaces it by one that outranks it, and
\* whatever it takes is theirs, whichever ids the limit drops.
THEOREM MergeEntriesRises ==
  ASSUME NEW Ids, NEW ours \in [Ids -> Entries], NEW theirs \in [Ids -> Entries],
         NEW limit, NEW merged \in MergeEntries(ours, theirs, limit)
  PROVE  /\ merged \in [Ids -> Entries]
         /\ \A i \in Ids : /\ merged[i] = ours[i] \/ Outranks(merged[i], ours[i])
                           /\ merged[i] \in {ours[i], theirs[i]}
<1>1. DOMAIN ours = Ids
  OBVIOUS
<1>2. PICK dropped \in DroppedSets(ours, theirs, limit) :
        merged = [i \in Ids |-> IF i \in dropped THEN ours[i]
                                ELSE Higher(ours[i], theirs[i])]
  BY <1>1 DEF MergeEntries
<1>3. \A i \in Ids : /\ Higher(ours[i], theirs[i]) \in {ours[i], theirs[i]}
                     /\ \/ Higher(ours[i], theirs[i]) = ours[i]
                        \/ Outranks(Higher(ours[i], theirs[i]), ours[i])
  BY HigherIsEither
<1> QED BY <1>2, <1>3

\* Two machines that merge each other's entries within the limits end up with
\* the same ones.
THEOREM MergeEntriesAgree ==
  ASSUME NEW Ids, NEW a \in [Ids -> Entries], NEW b \in [Ids -> Entries],
         NEW limit,
         DroppedSets(a, b, limit) = {{}}, DroppedSets(b, a, limit) = {{}}
  PROVE  MergeEntries(a, b, limit) = MergeEntries(b, a, limit)
<1>1. DOMAIN a = Ids /\ DOMAIN b = Ids
  OBVIOUS
<1>2. \A i \in Ids : Higher(a[i], b[i]) = Higher(b[i], a[i])
  BY HigherIsJoin
<1>3. MergeEntries(a, b, limit) = {[i \in Ids |-> Higher(a[i], b[i])]}
  BY <1>1 DEF MergeEntries
<1>4. MergeEntries(b, a, limit) = {[i \in Ids |-> Higher(b[i], a[i])]}
  BY <1>1 DEF MergeEntries
<1>5. [i \in Ids |-> Higher(a[i], b[i])] = [i \in Ids |-> Higher(b[i], a[i])]
  BY <1>2
<1> QED BY <1>3, <1>4, <1>5

===============================================================================
