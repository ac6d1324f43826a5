--------------------------- MODULE RunWorker_proofs ---------------------------
(***************************************************************************)
(* Proofs about RunWorker, for any number of workers, tasks, transactions  *)
(* and answers of the owner: no task is ever carried out twice, nothing    *)
(* that was sent is missing from the journal, and no worker's save drops   *)
(* a hash from it.                                                         *)
(***************************************************************************)
EXTENDS RunWorker, FiniteSetTheorems, SequenceTheorems, TLAPS

----------------------------------------------------------------------------
\* The inductive invariant.  Its operators take the journal and the chain as
\* arguments, so that a step is a change of arguments.

ChainEntry == [task : Tasks, status : {"pending", "success", "reverted"}]

Live(sent, n) == sent[n].status # "reverted"

\* A task's transactions that are out or landed, and the workers about to send
\* one.
Out(sent, t) == {n \in DOMAIN sent : sent[n].task = t /\ Live(sent, n)}
Sending(t) == {w \in Workers : worker[w].pc = "send" /\ worker[w].task = t}

\* What a journal has to account for: those the owner did not allow to redo.
Owed == [t \in Tasks |->
    Cardinality(Out(chain, t)) + Cardinality(Sending(t)) - waived[t]]

\* Entries of a journal that stand for a transaction that may be out.
Counts(entry, sent) ==
    \/ entry.status = "broadcasting"
    \/ entry.status \in {"submitted", "confirmed"} /\ Live(sent, entry.tx)
Known(journal, sent, t) ==
    {i \in DOMAIN journal : journal[i].task = t /\ Counts(journal[i], sent)}

Accounts(journal, sent, owed) ==
    \A t \in Tasks : owed[t] <= Cardinality(Known(journal, sent, t))

\* A hash is one of a transaction of that task, and is entered once.
EntryOK(entry, sent) ==
    /\ entry.status = "broadcasting" => entry.tx = 0
    /\ entry.status \in {"submitted", "confirmed"} => entry.tx # 0
    /\ entry.tx # 0 => entry.tx \in DOMAIN sent /\ sent[entry.tx].task = entry.task
Sound(journal, sent) ==
    /\ \A i \in DOMAIN journal : EntryOK(journal[i], sent)
    /\ \A i, j \in DOMAIN journal :
            journal[i].tx # 0 /\ journal[i].tx = journal[j].tx => i = j

\* Every live hash of the saved journal is in this one.
Covers(journal, saved, sent) ==
    \A i \in DOMAIN saved : saved[i].tx # 0 /\ Live(sent, saved[i].tx) =>
        \E j \in DOMAIN journal : journal[j].tx = saved[i].tx

Keeps(journal, saved, sent, owed) ==
    Sound(journal, sent) /\ Accounts(journal, sent, owed) /\ Covers(journal, saved, sent)

\* The journal the next worker starts from.
Carried(row) == IF row.resolution = "retry" THEN Heard(row.timeline) ELSE row.timeline

RowOK ==
    /\ Sound(execution.timeline, chain)
    /\ Sound(Carried(execution), chain)
    /\ Accounts(Carried(execution), chain, Owed)
    /\ execution.status = "decision_required" => execution.resolution = "none"
    /\ answers = 0 => /\ execution.resolution # "retry"
                      /\ \A t \in Tasks : waived[t] = 0
    /\ \A t \in Tasks : Owed[t] <= 1

\* What a worker has in memory by the step it is at.
LastOf(m) == m.timeline[Len(m.timeline)]
StepOK(m) ==
    /\ m.pc \in {"prepare", "send", "submitted", "receipt", "settle"} => m.task \in Tasks
    /\ m.pc = "prepare" =>
            \A i \in DOMAIN m.timeline :
                m.timeline[i].task = m.task => m.timeline[i].status = "reverted"
    /\ m.pc \in {"send", "submitted", "receipt"} =>
            m.timeline # <<>> /\ LastOf(m).task = m.task
    /\ m.pc = "send" => LastOf(m).status = "broadcasting"
    /\ m.pc \in {"submitted", "receipt"} => LastOf(m).status = "submitted"
    /\ m.pc = "close" /\ m.code = "NONE" => m.settled = Tasks

\* The journals of a worker: those of one whose version is the row's account for
\* everything, and keep what was saved.
JournalsOK(m, saved, sent, owed) ==
    /\ Sound(m.base, sent)
    /\ Sound(m.timeline, sent)
    /\ m.current => Keeps(m.base, saved, sent, owed)
    /\ m.current /\ m.pc # "threw" => Keeps(m.timeline, saved, sent, owed)

MemoriesOK == \A w \in Workers :
    /\ StepOK(worker[w])
    /\ JournalsOK(worker[w], execution.timeline, chain, Owed)

\* A report without a failure has had the key asked for.
Asked == keyGranted \/ keyThrew
ReportsOK == \A w \in Workers :
    worker[w].pc = "finish" /\ worker[w].code = "NONE" => Asked

RunInv == RunTypeOK /\ RowOK /\ MemoriesOK /\ ReportsOK /\ CompletedHasKey

----------------------------------------------------------------------------
\* Journals.

\* One element more or less.
LEMMA FreshElement ==
    ASSUME NEW S, NEW x, IsFiniteSet(S), x \notin S
    PROVE  Cardinality(S \cup {x}) = Cardinality(S) + 1
BY FS_AddElement

LEMMA LostElement ==
    ASSUME NEW S, NEW x, IsFiniteSet(S), x \in S
    PROVE  Cardinality(S \ {x}) = Cardinality(S) - 1
BY FS_RemoveElement

LEMMA OneMore ==
    ASSUME NEW S, NEW x, IsFiniteSet(S)
    PROVE  /\ IsFiniteSet(S \cup {x})
           /\ Cardinality(S \cup {x}) <= Cardinality(S) + 1
           /\ Cardinality(S \cup {x}) \in Nat
<1>1. Cardinality(S) \in Nat
  BY FS_CardinalityType
<1>2. /\ IsFiniteSet(S \cup {x})
      /\ Cardinality(S \cup {x}) = IF x \in S THEN Cardinality(S) ELSE Cardinality(S) + 1
  BY FS_AddElement
<1> QED
  BY <1>1, <1>2

\* The sets that are counted are finite.
LEMMA KnownIsFinite ==
    ASSUME NEW T \in Seq(Entry), NEW sent, NEW t
    PROVE  IsFiniteSet(Known(T, sent, t)) /\ Cardinality(Known(T, sent, t)) \in Nat
<1>1. DOMAIN T = 1..Len(T) /\ Len(T) \in Nat
  BY LenProperties
<1>2. IsFiniteSet(DOMAIN T)
  BY <1>1, FS_Interval
<1>3. Known(T, sent, t) \in SUBSET DOMAIN T
  BY DEF Known
<1> QED
  BY <1>2, <1>3, FS_Subset, FS_CardinalityType

LEMMA OutIsFinite ==
    ASSUME NEW sent \in Seq(ChainEntry), NEW t
    PROVE  IsFiniteSet(Out(sent, t)) /\ Cardinality(Out(sent, t)) \in Nat
<1>1. DOMAIN sent = 1..Len(sent) /\ Len(sent) \in Nat
  BY LenProperties
<1>2. IsFiniteSet(DOMAIN sent)
  BY <1>1, FS_Interval
<1>3. Out(sent, t) \in SUBSET DOMAIN sent
  BY DEF Out
<1> QED
  BY <1>2, <1>3, FS_Subset, FS_CardinalityType

\* In a finite set of numbers, how many are up to each of them: from 1 on, in
\* order.
Ranks(K) == [i \in K |-> Cardinality({j \in K : j <= i})]

LEMMA RanksAreBijective ==
    ASSUME NEW K \in SUBSET Nat, IsFiniteSet(K)
    PROVE  /\ Cardinality(K) \in Nat
           /\ Ranks(K) \in Bijection(K, 1..Cardinality(K))
<1> DEFINE N == Cardinality(K)
           below(i) == {j \in K : j <= i}
<1>4. N \in Nat
  BY FS_CardinalityType
<1>5. K \subseteq Nat
  OBVIOUS
<1>6. ASSUME NEW i \in K
      PROVE  /\ below(i) \in SUBSET K /\ IsFiniteSet(below(i))
             /\ Cardinality(below(i)) \in 1..N
  <2>1. below(i) \in SUBSET K /\ i \in below(i)
    BY <1>5
  <2>2. IsFiniteSet(below(i)) /\ Cardinality(below(i)) <= N /\ Cardinality(below(i)) \in Nat
    BY <1>4, <2>1, FS_Subset, FS_CardinalityType
  <2>3. Cardinality(below(i)) # 0
    BY <2>1, <2>2, FS_EmptySet
  <2> HIDE DEF below
  <2> QED
    BY <1>4, <2>1, <2>2, <2>3
<1>7. ASSUME NEW i \in K, NEW k \in K, i < k
      PROVE  Cardinality(below(i)) # Cardinality(below(k))
  <2>1. i \in Nat /\ k \in Nat
    BY <1>5
  <2>2. below(i) \in SUBSET below(k)
    <3> SUFFICES ASSUME NEW j \in K, j <= i PROVE j <= k
      OBVIOUS
    <3> QED
      BY <1>5, <1>7, <2>1
  <2>3. k \in below(k) /\ k \notin below(i)
    BY <1>7, <2>1
  <2> HIDE DEF below
  <2> QED
    BY <1>6, <2>2, <2>3, FS_Subset
<1> DEFINE place == Ranks(K)
<1>8. place \in Injection(K, 1..N)
  <2>1. place \in [K -> 1..N] /\ \A i \in K : place[i] = Cardinality(below(i))
    BY <1>6 DEF Ranks
  <2>2. \A i, k \in K : place[i] = place[k] => i = k
    <3> HIDE DEF place
    <3> SUFFICES ASSUME NEW i \in K, NEW k \in K, i # k PROVE place[i] # place[k]
      OBVIOUS
    <3>1. i < k \/ k < i
      BY <1>5
    <3> QED
      BY <1>7, <2>1, <3>1
  <2> HIDE DEF place
  <2> QED
    BY <2>1, <2>2 DEF Injection, IsInjective
<1>9. place \in Surjection(K, 1..N)
  <2>1. IsFiniteSet(1..N) /\ Cardinality(1..N) = N
    BY <1>4, FS_Interval
  <2> HIDE DEF place
  <2> QED
    BY <1>8, <2>1, FS_Injection
<1> QED
  BY <1>4, <1>8, <1>9 DEF Bijection

LEMMA HasLeast ==
    ASSUME NEW K \in SUBSET Nat, IsFiniteSet(K), K # {}
    PROVE  \E k \in K : \A j \in K : k <= j
<1> DEFINE N == Cardinality(K)
<1>1. N \in Nat /\ Ranks(K) \in Bijection(K, 1..N)
  BY RanksAreBijective
<1>2. N # 0
  BY <1>1, FS_EmptySet
<1>3. 1 \in 1..N
  BY <1>1, <1>2
<1>4. PICK k \in K : Ranks(K)[k] = 1
  BY <1>1, <1>3 DEF Bijection, Surjection
<1> DEFINE below == {j \in K : j <= k}
<1>5. Cardinality(below) = 1
  BY <1>4 DEF Ranks
<1>6. below \in SUBSET K /\ IsFiniteSet(below) /\ k \in below
  BY FS_Subset
<1>7. PICK x : below = {x}
  BY <1>5, <1>6, FS_Singleton
<1>8. \A j \in K : k <= j
  BY <1>6, <1>7
<1> QED
  BY <1>8

\* The filter: its places number what is kept from 1 on, in order.
Kept(T) == {i \in DOMAIN T : T[i].status # "broadcasting" \/ HasHash(T[i])}
Place(T, i) == Cardinality({j \in Kept(T) : j <= i})
Source(T) == [n \in 1..Cardinality(Kept(T)) |-> CHOOSE i \in Kept(T) : Place(T, i) = n]

LEMMA HeardIsKept ==
    ASSUME NEW T \in Seq(Entry)
    PROVE  /\ Heard(T) = [n \in 1..Cardinality(Kept(T)) |-> T[Source(T)[n]]]
           /\ Cardinality(Kept(T)) \in Nat
           /\ Source(T) \in Bijection(1..Cardinality(Kept(T)), Kept(T))
<1> DEFINE K == Kept(T)
           N == Cardinality(K)
<1>1. DOMAIN T = 1..Len(T) /\ Len(T) \in Nat
  BY LenProperties
<1>2. IsFiniteSet(DOMAIN T)
  BY <1>1, FS_Interval
<1>3. K \in SUBSET DOMAIN T
  BY DEF Kept
<1>4. IsFiniteSet(K) /\ N \in Nat
  BY <1>2, <1>3, FS_Subset, FS_CardinalityType
<1>5. K \subseteq Nat
  BY <1>1, <1>3
<1> HIDE DEF K
<1> DEFINE place == Ranks(K)
<1>6. place \in Injection(K, 1..N) /\ place \in Surjection(K, 1..N)
  BY <1>4, <1>5, RanksAreBijective DEF Bijection
<1>10. \A i \in K : place[i] = Place(T, i)
  BY DEF Place, K, Ranks
<1>11. ASSUME NEW n \in 1..N
       PROVE  Source(T)[n] \in K /\ place[Source(T)[n]] = n
  <2>1. \E i \in K : Place(T, i) = n
    <3> HIDE DEF place
    <3> QED
      BY <1>6, <1>10 DEF Surjection
  <2>2. Source(T)[n] = CHOOSE i \in K : Place(T, i) = n
    BY DEF Source, K
  <2> HIDE DEF place
  <2> QED
    BY <2>1, <2>2, <1>10
<1>12. Source(T) \in Bijection(1..N, K)
  <2> HIDE DEF place
  <2>1. Source(T) \in [1..N -> K]
    BY <1>11 DEF Source, K
  <2>2. \A a, b \in 1..N : Source(T)[a] = Source(T)[b] => a = b
    BY <1>11
  <2>3. \A i \in K : \E n \in 1..N : Source(T)[n] = i
    <3> SUFFICES ASSUME NEW i \in K PROVE \E n \in 1..N : Source(T)[n] = i
      OBVIOUS
    <3>1. place[i] \in 1..N
      BY <1>6 DEF Injection
    <3>2. Source(T)[place[i]] \in K /\ place[Source(T)[place[i]]] = place[i]
      BY <1>11, <3>1
    <3>3. Source(T)[place[i]] = i
      BY <1>6, <3>2 DEF Injection, IsInjective
    <3> QED
      BY <3>1, <3>3
  <2> QED
    BY <2>1, <2>2, <2>3 DEF Bijection, Injection, Surjection, IsInjective
<1>13. Heard(T) = [n \in 1..N |-> T[Source(T)[n]]]
  <2>1. Heard(T) = [n \in 1..Cardinality(Kept(T)) |->
                        T[CHOOSE i \in Kept(T) : Place(T, i) = n]]
    BY DEF Heard, Kept, Place
  <2>2. \A n \in 1..N : Source(T)[n] = CHOOSE i \in Kept(T) : Place(T, i) = n
    BY DEF Source, K
  <2> QED
    BY <2>1, <2>2, Zenon DEF K
<1> QED
  BY <1>4, <1>12, <1>13 DEF K

Unsure(T, t) == {i \in DOMAIN T : T[i].task = t /\ T[i].status = "broadcasting"}

\* What the filter drops is what was never heard of: the rest is known as before.
LEMMA HeardKeeps ==
    ASSUME NEW T \in Seq(Entry), NEW sent, Sound(T, sent)
    PROVE  /\ Heard(T) \in Seq(Entry)
           /\ Sound(Heard(T), sent)
           /\ Covers(Heard(T), T, sent)
           /\ \A t : Cardinality(Known(T, sent, t))
                        <= Cardinality(Unsure(T, t)) + Cardinality(Known(Heard(T), sent, t))
<1> DEFINE H == Heard(T)
           N == Cardinality(Kept(T))
<1>1. /\ H = [n \in 1..N |-> T[Source(T)[n]]]
      /\ N \in Nat
      /\ Source(T) \in Bijection(1..N, Kept(T))
  BY HeardIsKept
<1> HIDE DEF N, H
<1>2. DOMAIN H = 1..N /\ \A n \in 1..N : Source(T)[n] \in Kept(T) /\ H[n] = T[Source(T)[n]]
  BY <1>1 DEF Bijection, Injection
<1>3. /\ \A a, b \in 1..N : Source(T)[a] = Source(T)[b] => a = b
      /\ \A i \in Kept(T) : \E n \in 1..N : Source(T)[n] = i
  BY <1>1 DEF Bijection, Injection, Surjection, IsInjective
<1>4. /\ Kept(T) \subseteq DOMAIN T
      /\ \A i \in Kept(T) : T[i].status # "broadcasting" \/ T[i].tx # 0
      /\ \A i \in DOMAIN T : i \notin Kept(T) => T[i].status = "broadcasting"
      /\ \A i \in DOMAIN T : T[i].tx # 0 => i \in Kept(T)
  BY DEF Kept, HasHash
<1>5. \A i \in DOMAIN T : T[i] \in Entry
  BY ElementOfSeq, LenProperties
<1>6. H \in Seq(Entry)
  <2>1. \A n \in 1..N : T[Source(T)[n]] \in Entry
    BY <1>2, <1>4, <1>5
  <2>2. H \in [1..N -> Entry]
    BY <1>1, <2>1
  <2> QED
    BY <1>1, <2>2, SeqDef
<1>7. Sound(H, sent)
  <2>1. \A n \in DOMAIN H : EntryOK(H[n], sent)
    BY <1>2, <1>4 DEF Sound
  <2>2. \A a, b \in DOMAIN H : H[a].tx # 0 /\ H[a].tx = H[b].tx => a = b
    BY <1>2, <1>3, <1>4 DEF Sound
  <2> QED
    BY <2>1, <2>2 DEF Sound
<1>8. Covers(H, T, sent)
  BY <1>2, <1>3, <1>4 DEF Covers
<1>9. ASSUME NEW t
      PROVE  Cardinality(Known(T, sent, t))
                <= Cardinality(Unsure(T, t)) + Cardinality(Known(H, sent, t))
  <2> DEFINE heard == {i \in Kept(T) : i \in Known(T, sent, t)}
             g == [n \in Known(H, sent, t) |-> Source(T)[n]]
  <2>1. IsFiniteSet(Known(H, sent, t)) /\ Cardinality(Known(H, sent, t)) \in Nat
    BY <1>6, KnownIsFinite
  <2>2. g \in Bijection(Known(H, sent, t), heard)
    <3>1. \A n \in Known(H, sent, t) : n \in 1..N /\ Source(T)[n] \in heard
      BY <1>2, <1>4 DEF Known
    <3>2. \A i \in heard : \E n \in Known(H, sent, t) : Source(T)[n] = i
      <4> SUFFICES ASSUME NEW i \in heard
                   PROVE  \E n \in Known(H, sent, t) : Source(T)[n] = i
        OBVIOUS
      <4>1. PICK n \in 1..N : Source(T)[n] = i
        BY <1>3
      <4>2. n \in Known(H, sent, t)
        BY <1>2, <4>1 DEF Known
      <4> QED
        BY <4>1, <4>2
    <3> HIDE DEF heard
    <3> QED
      BY <1>3, <3>1, <3>2 DEF Bijection, Injection, Surjection, IsInjective
  <2>3. IsFiniteSet(heard) /\ Cardinality(heard) = Cardinality(Known(H, sent, t))
    <3> HIDE DEF g, heard
    <3> QED
      BY <2>1, <2>2, FS_Bijection DEF ExistsBijection
  <2>4. IsFiniteSet(Unsure(T, t)) /\ Cardinality(Unsure(T, t)) \in Nat
    <3>1. DOMAIN T = 1..Len(T) /\ Len(T) \in Nat
      BY LenProperties
    <3>2. IsFiniteSet(DOMAIN T)
      BY <3>1, FS_Interval
    <3>3. Unsure(T, t) \in SUBSET DOMAIN T
      BY DEF Unsure
    <3> QED
      BY <3>2, <3>3, FS_Subset, FS_CardinalityType
  <2>5. Known(T, sent, t) \in SUBSET (Unsure(T, t) \cup heard)
    BY <1>4 DEF Known, Unsure
  <2> HIDE DEF heard
  <2>6. IsFiniteSet(Unsure(T, t) \cup heard)
    BY <2>3, <2>4, FS_Union
  <2>7. Cardinality(Unsure(T, t) \cup heard)
            = Cardinality(Unsure(T, t)) + Cardinality(heard)
                - Cardinality(Unsure(T, t) \cap heard)
    BY <2>3, <2>4, FS_Union
  <2>8. Cardinality(Unsure(T, t) \cap heard) \in Nat
    BY <2>4, FS_Intersection, FS_CardinalityType
  <2>9. Cardinality(Known(T, sent, t)) <= Cardinality(Unsure(T, t) \cup heard)
    BY <2>5, <2>6, FS_Subset
  <2>10. Cardinality(Known(T, sent, t)) \in Nat
    BY KnownIsFinite
  <2> QED
    BY <2>1, <2>3, <2>4, <2>7, <2>8, <2>9, <2>10
<1> QED
  BY <1>6, <1>7, <1>8, <1>9 DEF H

\* One entry changed in what is said of it, or given the hash it did not have.
LEMMA MarkedKeeps ==
    ASSUME NEW T, NEW U, NEW sent, NEW i \in DOMAIN T,
           DOMAIN U = DOMAIN T,
           \A j \in DOMAIN T \ {i} : U[j] = T[j],
           U[i].task = T[i].task,
           Counts(U[i], sent) <=> Counts(T[i], sent),
           EntryOK(U[i], sent),
           \/ U[i].tx \in {0, T[i].tx}
           \/ \A j \in DOMAIN T : T[j].tx # U[i].tx,
           U[i].tx = T[i].tx \/ T[i].tx = 0 \/ ~ Live(sent, T[i].tx),
           Sound(T, sent)
    PROVE  /\ Sound(U, sent)
           /\ \A t : Known(U, sent, t) = Known(T, sent, t)
           /\ \A saved : Covers(T, saved, sent) => Covers(U, saved, sent)
<1>1. Sound(U, sent)
  BY DEF Sound
<1>2. \A t : Known(U, sent, t) = Known(T, sent, t)
  BY DEF Known
<1>3. \A saved : Covers(T, saved, sent) => Covers(U, saved, sent)
  <2> SUFFICES ASSUME NEW saved, Covers(T, saved, sent),
                      NEW k \in DOMAIN saved, saved[k].tx # 0, Live(sent, saved[k].tx)
               PROVE  \E j \in DOMAIN U : U[j].tx = saved[k].tx
    BY DEF Covers
  <2>1. PICK j \in DOMAIN T : T[j].tx = saved[k].tx
    BY DEF Covers
  <2> QED
    BY <2>1
<1> QED
  BY <1>1, <1>2, <1>3

\* An intent at the end.
LEMMA AppendedKeeps ==
    ASSUME NEW T \in Seq(Entry), NEW sent, NEW task \in Tasks, Sound(T, sent),
           NEW entry \in Entry,
           entry.task = task, entry.status = "broadcasting", entry.tx = 0
    PROVE  /\ Append(T, entry) \in Seq(Entry)
           /\ Sound(Append(T, entry), sent)
           /\ \A t \in Tasks : Cardinality(Known(Append(T, entry), sent, t)) =
                IF t = task THEN Cardinality(Known(T, sent, t)) + 1
                ELSE Cardinality(Known(T, sent, t))
           /\ \A saved : Covers(T, saved, sent) => Covers(Append(T, entry), saved, sent)
<1> DEFINE U == Append(T, entry)
           n == Len(T) + 1
<1>1. /\ U \in Seq(Entry) /\ Len(U) = n /\ U[n] = entry
      /\ \A j \in 1..Len(T) : U[j] = T[j]
  OBVIOUS
<1>2. DOMAIN T = 1..Len(T) /\ DOMAIN U = 1..n /\ Len(T) \in Nat
  BY <1>1, LenProperties
<1> HIDE DEF U
<1>3. DOMAIN U = DOMAIN T \cup {n} /\ n \notin DOMAIN T
  BY <1>2
<1> HIDE DEF n
<1>4. \A j \in DOMAIN T : U[j] = T[j]
  BY <1>1, <1>2
<1>5. EntryOK(U[n], sent) /\ U[n].tx = 0 /\ U[n].task = task /\ Counts(U[n], sent)
  BY <1>1 DEF EntryOK, Counts
<1>6. Sound(U, sent)
  <2>1. \A j \in DOMAIN U : EntryOK(U[j], sent)
    BY <1>3, <1>4, <1>5 DEF Sound
  <2>2. \A j \in DOMAIN U : U[j].tx # 0 => j \in DOMAIN T
    BY <1>3, <1>5
  <2>3. \A i, j \in DOMAIN U : U[i].tx # 0 /\ U[i].tx = U[j].tx => i = j
    BY <1>4, <2>2 DEF Sound
  <2> QED
    BY <2>1, <2>3 DEF Sound
<1>7. ASSUME NEW t \in Tasks
      PROVE  Cardinality(Known(U, sent, t)) =
                IF t = task THEN Cardinality(Known(T, sent, t)) + 1
                ELSE Cardinality(Known(T, sent, t))
  <2>1. Known(U, sent, t) =
            IF t = task THEN Known(T, sent, t) \cup {n} ELSE Known(T, sent, t)
    BY <1>3, <1>4, <1>5 DEF Known
  <2>2. n \notin Known(T, sent, t)
    BY <1>3 DEF Known
  <2>3. IsFiniteSet(Known(T, sent, t))
    BY KnownIsFinite
  <2> QED
    BY <2>1, <2>2, <2>3, FreshElement
<1>8. \A saved : Covers(T, saved, sent) => Covers(U, saved, sent)
  <2> SUFFICES ASSUME NEW saved, Covers(T, saved, sent),
                      NEW k \in DOMAIN saved, saved[k].tx # 0, Live(sent, saved[k].tx)
               PROVE  \E j \in DOMAIN U : U[j].tx = saved[k].tx
    BY DEF Covers
  <2>1. PICK j \in DOMAIN T : T[j].tx = saved[k].tx
    BY DEF Covers
  <2> QED
    BY <1>3, <1>4, <2>1
<1> QED
  BY <1>1, <1>6, <1>7, <1>8 DEF U

----------------------------------------------------------------------------
\* The chain under the journals.

\* A transaction more: no journal has its number yet.
LEMMA SentKeeps ==
    ASSUME NEW sent \in Seq(ChainEntry), NEW tx \in ChainEntry, tx.status = "pending"
    PROVE  /\ \A T : Sound(T, sent) =>
                /\ Sound(T, Append(sent, tx))
                /\ \A t : Known(T, Append(sent, tx), t) = Known(T, sent, t)
                /\ \A saved : Sound(saved, sent) /\ Covers(T, saved, sent)
                        => Covers(T, saved, Append(sent, tx))
           /\ \A t \in Tasks : Cardinality(Out(Append(sent, tx), t)) =
                IF t = tx.task THEN Cardinality(Out(sent, t)) + 1
                ELSE Cardinality(Out(sent, t))
           /\ \A T : Sound(T, sent) =>
                \A j \in DOMAIN T : T[j].tx # Len(sent) + 1
<1> DEFINE more == Append(sent, tx)
           n == Len(sent) + 1
<1>1. /\ more \in Seq(ChainEntry) /\ Len(more) = n /\ more[n] = tx
      /\ \A j \in 1..Len(sent) : more[j] = sent[j]
  OBVIOUS
<1>2. DOMAIN sent = 1..Len(sent) /\ DOMAIN more = 1..n /\ Len(sent) \in Nat
  BY <1>1, LenProperties
<1> HIDE DEF more
<1>3. DOMAIN more = DOMAIN sent \cup {n} /\ n \notin DOMAIN sent /\ n # 0
  BY <1>2
<1> HIDE DEF n
<1>4. \A j \in DOMAIN sent : more[j] = sent[j]
  BY <1>1, <1>2
<1>5. ASSUME NEW T, Sound(T, sent)
      PROVE  /\ Sound(T, more)
             /\ \A j \in DOMAIN T : T[j].tx # n
             /\ \A j \in DOMAIN T : T[j].tx # 0 =>
                    (Live(more, T[j].tx) <=> Live(sent, T[j].tx))
             /\ \A t : Known(T, more, t) = Known(T, sent, t)
  <2>1. \A j \in DOMAIN T : EntryOK(T[j], sent)
    BY <1>5 DEF Sound
  <2>2. \A j \in DOMAIN T : T[j].tx # 0 => T[j].tx \in DOMAIN sent
    BY <2>1 DEF EntryOK
  <2>3. \A j \in DOMAIN T : T[j].tx # 0 =>
            more[T[j].tx] = sent[T[j].tx] /\ T[j].tx \in DOMAIN more
    BY <2>2, <1>3, <1>4
  <2>4. \A j \in DOMAIN T : EntryOK(T[j], more)
    BY <2>1, <2>3 DEF EntryOK
  <2>5. Sound(T, more)
    BY <1>5, <2>4 DEF Sound
  <2>6. \A j \in DOMAIN T : T[j].tx # n
    BY <2>2, <1>3
  <2>7. \A j \in DOMAIN T : T[j].tx # 0 =>
            (Live(more, T[j].tx) <=> Live(sent, T[j].tx))
    BY <2>3 DEF Live
  <2>8. \A j \in DOMAIN T : Counts(T[j], more) <=> Counts(T[j], sent)
    BY <2>1, <2>7 DEF Counts, EntryOK
  <2> QED
    BY <2>5, <2>6, <2>7, <2>8 DEF Known
<1>6. ASSUME NEW T, NEW saved, Sound(saved, sent), Covers(T, saved, sent)
      PROVE  Covers(T, saved, more)
  BY <1>5, <1>6 DEF Covers
<1>7. ASSUME NEW t \in Tasks
      PROVE  Cardinality(Out(more, t)) =
                IF t = tx.task THEN Cardinality(Out(sent, t)) + 1
                ELSE Cardinality(Out(sent, t))
  <2>1. Out(more, t) = IF t = tx.task THEN Out(sent, t) \cup {n} ELSE Out(sent, t)
    BY <1>1, <1>3, <1>4 DEF Out, Live
  <2>2. n \notin Out(sent, t)
    BY <1>3 DEF Out
  <2>3. IsFiniteSet(Out(sent, t))
    BY OutIsFinite
  <2> QED
    BY <2>1, <2>2, <2>3, FreshElement
<1> QED
  BY <1>5, <1>6, <1>7 DEF more, n

\* A transaction that lands or reverts.  What reverts is no longer owed, and each
\* journal loses at most the one entry with its hash.
LEMMA MinedKeeps ==
    ASSUME NEW sent \in Seq(ChainEntry), NEW i \in DOMAIN sent,
           sent[i].status = "pending",
           NEW s \in {"success", "reverted"},
           NEW mined \in Seq(ChainEntry), DOMAIN mined = DOMAIN sent,
           \A j \in DOMAIN sent : mined[j].task = sent[j].task,
           \A j \in DOMAIN sent \ {i} : mined[j] = sent[j],
           mined[i].status = s
    PROVE  /\ \A T \in Seq(Entry) : Sound(T, sent) =>
                /\ Sound(T, mined)
                /\ \A t \in Tasks : Cardinality(Known(T, sent, t)) - Cardinality(Known(T, mined, t))
                        <= Cardinality(Out(sent, t)) - Cardinality(Out(mined, t))
           /\ \A T, saved : Sound(saved, sent) /\ Covers(T, saved, sent)
                => Covers(T, saved, mined)
           /\ \A t \in Tasks : Cardinality(Out(mined, t)) <= Cardinality(Out(sent, t))
<1>1. \A T : Sound(T, sent) => Sound(T, mined)
  <2> SUFFICES ASSUME NEW T, Sound(T, sent) PROVE Sound(T, mined)
    OBVIOUS
  <2>1. \A j \in DOMAIN T : EntryOK(T[j], mined)
    BY DEF Sound, EntryOK
  <2> QED
    BY <2>1 DEF Sound
<1>2. \A n \in DOMAIN sent : Live(mined, n) => Live(sent, n)
  BY DEF Live
<1>3. \A n \in DOMAIN sent \ {i} : Live(mined, n) <=> Live(sent, n)
  BY DEF Live
<1>4. Live(sent, i) /\ (Live(mined, i) <=> s = "success")
  BY DEF Live
<1>5. ASSUME NEW T, NEW saved, Sound(saved, sent), Covers(T, saved, sent)
      PROVE  Covers(T, saved, mined)
  <2>1. \A k \in DOMAIN saved : saved[k].tx # 0 => saved[k].tx \in DOMAIN sent
    BY <1>5 DEF Sound, EntryOK
  <2> QED
    BY <1>2, <1>5, <2>1 DEF Covers
<1>6. CASE s = "success"
  <2>1. \A n \in DOMAIN sent : Live(mined, n) <=> Live(sent, n)
    BY <1>3, <1>4, <1>6
  <2>2. \A t : Out(mined, t) = Out(sent, t)
    BY <2>1 DEF Out
  <2>3. ASSUME NEW T, Sound(T, sent), NEW t PROVE Known(T, mined, t) = Known(T, sent, t)
    <3>1. \A j \in DOMAIN T : EntryOK(T[j], sent)
      BY <2>3 DEF Sound
    <3>2. \A j \in DOMAIN T : Counts(T[j], mined) <=> Counts(T[j], sent)
      BY <3>1, <2>1 DEF Counts, EntryOK
    <3> QED
      BY <3>2 DEF Known
  <2> QED
    BY <1>1, <1>5, <2>2, <2>3, OutIsFinite, KnownIsFinite
<1>7. CASE s = "reverted"
  <2>1. \A t \in Tasks : Cardinality(Out(mined, t)) =
            IF t = sent[i].task THEN Cardinality(Out(sent, t)) - 1
            ELSE Cardinality(Out(sent, t))
    <3> SUFFICES ASSUME NEW t \in Tasks
                 PROVE  Cardinality(Out(mined, t)) =
                            IF t = sent[i].task THEN Cardinality(Out(sent, t)) - 1
                            ELSE Cardinality(Out(sent, t))
      OBVIOUS
    <3>1. Out(mined, t) = IF t = sent[i].task THEN Out(sent, t) \ {i} ELSE Out(sent, t)
      BY <1>3, <1>4, <1>7 DEF Out
    <3>2. t = sent[i].task => i \in Out(sent, t)
      BY <1>4 DEF Out
    <3>3. IsFiniteSet(Out(sent, t))
      BY OutIsFinite
    <3> QED
      BY <3>1, <3>2, <3>3, LostElement
  <2>2. ASSUME NEW T \in Seq(Entry), Sound(T, sent), NEW t \in Tasks
        PROVE  Cardinality(Known(T, sent, t)) <=
                    IF t = sent[i].task THEN Cardinality(Known(T, mined, t)) + 1
                    ELSE Cardinality(Known(T, mined, t))
    <3>1. \A j \in DOMAIN T : EntryOK(T[j], sent)
      BY <2>2 DEF Sound
    <3>2. \A j \in DOMAIN T : T[j].tx # i => (Counts(T[j], mined) <=> Counts(T[j], sent))
      BY <3>1, <1>3 DEF Counts, EntryOK
    <3>3. i # 0
      <4>1. DOMAIN sent = 1..Len(sent)
        BY LenProperties
      <4> QED
        BY <4>1
    <3>4. CASE \E j \in DOMAIN T : T[j].tx = i /\ T[j].task = t
      <4>1. PICK j \in DOMAIN T : T[j].tx = i /\ T[j].task = t
        BY <3>4
      <4>2. t = sent[i].task
        BY <3>1, <3>3, <4>1 DEF EntryOK
      <4>3. \A k \in DOMAIN T : k # j => T[k].tx # i
        BY <2>2, <3>3, <4>1 DEF Sound
      <4>4. Known(T, sent, t) \in SUBSET (Known(T, mined, t) \cup {j})
        BY <3>2, <4>3 DEF Known
      <4>5. /\ IsFiniteSet(Known(T, mined, t) \cup {j})
            /\ Cardinality(Known(T, mined, t) \cup {j}) <= Cardinality(Known(T, mined, t)) + 1
            /\ Cardinality(Known(T, mined, t) \cup {j}) \in Nat
        <5>1. IsFiniteSet(Known(T, mined, t))
          BY KnownIsFinite
        <5> QED
          BY <5>1, OneMore
      <4>6. Cardinality(Known(T, sent, t)) <= Cardinality(Known(T, mined, t) \cup {j})
        BY <4>4, <4>5, FS_Subset
      <4> QED
        BY <4>2, <4>5, <4>6, KnownIsFinite
    <3>5. CASE ~ \E j \in DOMAIN T : T[j].tx = i /\ T[j].task = t
      <4>1. Known(T, sent, t) = Known(T, mined, t)
        BY <3>2, <3>5 DEF Known
      <4> QED
        BY <4>1, KnownIsFinite
    <3> QED
      BY <3>4, <3>5
  <2>3. \A T \in Seq(Entry) : Sound(T, sent) =>
            \A t \in Tasks : Cardinality(Known(T, sent, t)) - Cardinality(Known(T, mined, t))
                <= Cardinality(Out(sent, t)) - Cardinality(Out(mined, t))
    BY <2>1, <2>2, OutIsFinite, KnownIsFinite
  <2>4. \A t \in Tasks : Cardinality(Out(mined, t)) <= Cardinality(Out(sent, t))
    BY <2>1, OutIsFinite
  <2> QED
    BY <1>1, <1>5, <2>3, <2>4
<1> QED
  BY <1>6, <1>7

----------------------------------------------------------------------------
\* Steps.

LEMMA Types ==
    ASSUME RunTypeOK
    PROVE  /\ execution \in ExecutionRow
           /\ execution.timeline \in Seq(Entry)
           /\ execution.resolution \in {"none", "retry", "finalize"}
           /\ worker \in [Workers -> WorkerMemory]
           /\ \A w \in Workers :
                /\ worker[w] \in WorkerMemory
                /\ worker[w].pc \in Steps
                /\ worker[w].current \in BOOLEAN
                /\ worker[w].base \in Seq(Entry)
                /\ worker[w].timeline \in Seq(Entry)
                /\ worker[w].settled \in SUBSET Tasks
                /\ worker[w].unpaid \in SUBSET Tasks
                /\ worker[w].task \in Tasks \cup {None}
                /\ worker[w].attempt \in 0..ImmediateRetries
                /\ worker[w].code \in Codes
           /\ chain \in Seq(ChainEntry)
           /\ Len(chain) <= MaxSends
           /\ waived \in [Tasks -> Nat]
           /\ answers \in Nat
BY DEF RunTypeOK, ExecutionRow, WorkerMemory, ChainEntry

\* All but the version a worker holds, which it may lose.
Same(m, old) ==
    /\ m.pc = old.pc /\ m.code = old.code /\ m.task = old.task
    /\ m.base = old.base /\ m.timeline = old.timeline /\ m.settled = old.settled
    /\ m.current => old.current

Alone(w) == worker' \in [Workers -> WorkerMemory]
            /\ \A v \in Workers \ {w} : worker'[v] = worker[v]
Hushed(w) == worker' \in [Workers -> WorkerMemory]
             /\ \A v \in Workers \ {w} : Same(worker'[v], worker[v]) /\ ~ worker'[v].current

LEMMA SameSame ==
    ASSUME NEW m \in WorkerMemory
    PROVE  Same(m, m)
BY DEF Same

LEMMA Hush ==
    ASSUME NEW m \in WorkerMemory
    PROVE  /\ [m EXCEPT !.current = FALSE] \in WorkerMemory
           /\ Same([m EXCEPT !.current = FALSE], m)
           /\ ~ [m EXCEPT !.current = FALSE].current
BY DEF Same, WorkerMemory

LEMMA Becomes ==
    ASSUME RunTypeOK, NEW w \in Workers, NEW m \in WorkerMemory,
           worker' = [worker EXCEPT ![w] = m]
    PROVE  Alone(w) /\ worker'[w] = m
BY Types DEF Alone

LEMMA Takes ==
    ASSUME RunTypeOK, NEW w \in Workers, NEW m \in WorkerMemory,
           worker' = [v \in Workers |->
                IF v = w THEN m ELSE [worker[v] EXCEPT !.current = FALSE]]
    PROVE  Hushed(w) /\ worker'[w] = m
<1>1. \A v \in Workers : worker[v] \in WorkerMemory
  BY Types
<1>2. worker' \in [Workers -> WorkerMemory]
  BY <1>1, Hush
<1>3. \A v \in Workers \ {w} : worker'[v] = [worker[v] EXCEPT !.current = FALSE]
  OBVIOUS
<1> QED
  BY <1>1, <1>2, <1>3, Hush DEF Hushed

LEMMA IdleIsMemory ==
    /\ Idle \in WorkerMemory
    /\ Idle.pc = "idle" /\ ~ Idle.current /\ Idle.base = <<>> /\ Idle.timeline = <<>>
    /\ Idle.code = "NONE"
<1>1. <<>> \in Seq(Entry)
  BY EmptySeq
<1>2. 0 \in 0..ImmediateRetries
  BY RunAssumption
<1> QED
  BY <1>1, <1>2 DEF Idle, WorkerMemory, Steps, Codes

LEMMA ThrownIsMemory ==
    ASSUME RunTypeOK, NEW w \in Workers, NEW base \in Seq(Entry)
    PROVE  LET m == Thrown(w, base)
           IN  /\ m \in WorkerMemory
               /\ m.current = worker[w].current
               /\ m.base = base /\ m.code = "NONE"
               /\ \/ m.pc = "read" /\ m.timeline = base
                  \/ m.pc = "threw" /\ m.timeline = <<>>
<1>1. /\ worker[w].attempt \in 0..ImmediateRetries
      /\ worker[w].current \in BOOLEAN
      /\ <<>> \in Seq(Entry)
  BY Types, EmptySeq
<1> DEFINE n == worker[w].attempt
           c == worker[w].current
           m == [Idle EXCEPT !.current = c, !.base = base]
           again == [m EXCEPT !.pc = "read", !.attempt = n + 1, !.timeline = base]
           threw == [m EXCEPT !.pc = "threw"]
<1>2. /\ m \in WorkerMemory
      /\ m.current = c /\ m.base = base /\ m.timeline = <<>> /\ m.code = "NONE"
  BY <1>1, IdleIsMemory DEF WorkerMemory
<1>3. Thrown(w, base) = IF n < ImmediateRetries THEN again ELSE threw
  BY Zenon DEF Thrown
<1> HIDE DEF m
<1>4. n < ImmediateRetries => n + 1 \in 0..ImmediateRetries
  BY <1>1, RunAssumption
<1>5. n < ImmediateRetries =>
        /\ again \in WorkerMemory
        /\ again.pc = "read" /\ again.current = c /\ again.base = base
        /\ again.timeline = base /\ again.code = "NONE"
  BY <1>2, <1>4 DEF WorkerMemory, Steps
<1>6. /\ threw \in WorkerMemory
      /\ threw.pc = "threw" /\ threw.current = c /\ threw.base = base
      /\ threw.timeline = <<>> /\ threw.code = "NONE"
  BY <1>2 DEF WorkerMemory, Steps
<1> HIDE DEF again, threw
<1> QED
  BY <1>3, <1>5, <1>6

Others(w) ==
    /\ worker' \in [Workers -> WorkerMemory]
    /\ \A v \in Workers \ {w} : Same(worker'[v], worker[v])

LEMMA OthersAre ==
    ASSUME RunTypeOK, NEW w \in Workers, Alone(w) \/ Hushed(w)
    PROVE  Others(w)
BY Types, SameSame DEF Alone, Hushed, Others

\* Numbers that are owed are integers.
LEMMA SendingIsFinite ==
    \A t : IsFiniteSet(Sending(t)) /\ Cardinality(Sending(t)) \in Nat
<1> SUFFICES ASSUME NEW t
             PROVE  IsFiniteSet(Sending(t)) /\ Cardinality(Sending(t)) \in Nat
  OBVIOUS
<1>1. Sending(t) \in SUBSET Workers /\ IsFiniteSet(Workers)
  BY RunAssumption DEF Sending
<1> QED
  BY <1>1, FS_Subset, FS_CardinalityType

LEMMA SendingIsFiniteNext ==
    \A t : IsFiniteSet(Sending(t)') /\ Cardinality(Sending(t)') \in Nat
<1> SUFFICES ASSUME NEW t
             PROVE  IsFiniteSet(Sending(t)') /\ Cardinality(Sending(t)') \in Nat
  OBVIOUS
<1>1. Sending(t)' \in SUBSET Workers /\ IsFiniteSet(Workers)
  BY RunAssumption DEF Sending
<1> QED
  BY <1>1, FS_Subset, FS_CardinalityType

LEMMA OwedTypes ==
    ASSUME RunTypeOK, NEW t \in Tasks
    PROVE  /\ Cardinality(Out(chain, t)) \in Nat
           /\ Cardinality(Sending(t)) \in Nat
           /\ waived[t] \in Nat
           /\ Owed[t] = Cardinality(Out(chain, t)) + Cardinality(Sending(t)) - waived[t]
           /\ Owed[t] \in Int
<1>1. chain \in Seq(ChainEntry) /\ waived[t] \in Nat
  BY Types
<1>2. Cardinality(Out(chain, t)) \in Nat /\ Cardinality(Sending(t)) \in Nat
  BY <1>1, OutIsFinite, SendingIsFinite
<1>3. Owed[t] = Cardinality(Out(chain, t)) + Cardinality(Sending(t)) - waived[t]
  BY DEF Owed
<1> QED
  BY <1>1, <1>2, <1>3

LEMMA OwedNext ==
    ASSUME NEW t \in Tasks
    PROVE  Owed'[t] = Cardinality(Out(chain', t)) + Cardinality(Sending(t)') - waived'[t]
BY DEF Owed

\* Who sends, when only w moves.
LEMMA SendingMoves ==
    ASSUME NEW w \in Workers, Others(w), NEW t
    PROVE  /\ worker'[w].pc # "send" => Cardinality(Sending(t)') <= Cardinality(Sending(t))
           /\ worker'[w].pc # "send" /\ worker[w].pc = "send" /\ worker[w].task = t
                => Cardinality(Sending(t)') = Cardinality(Sending(t)) - 1
           /\ worker[w].pc # "send" /\ worker'[w].pc = "send"
                => Cardinality(Sending(t)') =
                        IF t = worker'[w].task THEN Cardinality(Sending(t)) + 1
                        ELSE Cardinality(Sending(t))
<1>1. \A v \in Workers \ {w} : v \in Sending(t)' <=> v \in Sending(t)
  BY DEF Others, Same, Sending
<1>2. IsFiniteSet(Sending(t)) /\ Cardinality(Sending(t)) \in Nat
  BY SendingIsFinite
<1>3. /\ w \in Sending(t)' <=> worker'[w].pc = "send" /\ worker'[w].task = t
      /\ w \in Sending(t) <=> worker[w].pc = "send" /\ worker[w].task = t
      /\ Sending(t) \subseteq Workers /\ Sending(t)' \subseteq Workers
  BY DEF Sending
<1>4. CASE worker'[w].pc # "send"
  <2>1. Sending(t)' = Sending(t) \ {w}
    BY <1>1, <1>3, <1>4
  <2>2. Cardinality(Sending(t)') =
            IF w \in Sending(t) THEN Cardinality(Sending(t)) - 1
            ELSE Cardinality(Sending(t))
    BY <1>2, <2>1, FS_RemoveElement
  <2> QED
    BY <1>2, <1>3, <1>4, <2>2
<1>5. CASE worker'[w].pc = "send" /\ worker[w].pc # "send"
  <2>1. Sending(t)' = IF t = worker'[w].task THEN Sending(t) \cup {w} ELSE Sending(t)
    BY <1>1, <1>3, <1>5
  <2>2. w \notin Sending(t)
    BY <1>3, <1>5
  <2> QED
    BY <1>2, <1>5, <2>1, <2>2, FreshElement
<1> QED
  BY <1>4, <1>5

LEMMA OwedMoves ==
    ASSUME RunTypeOK, NEW w \in Workers, Others(w), worker'[w].pc # "send",
           chain' = chain, waived' = waived
    PROVE  \A t \in Tasks : Owed'[t] <= Owed[t] /\ Owed'[t] \in Int
<1> SUFFICES ASSUME NEW t \in Tasks PROVE Owed'[t] <= Owed[t] /\ Owed'[t] \in Int
  OBVIOUS
<1>1. Cardinality(Sending(t)') <= Cardinality(Sending(t))
  BY SendingMoves
<1>2. Cardinality(Sending(t)') \in Nat
  BY SendingIsFiniteNext
<1> QED
  BY <1>1, <1>2, OwedTypes, OwedNext

LEMMA AccountsForLess ==
    ASSUME NEW T \in Seq(Entry), NEW sent, NEW owed, NEW less,
           \A t \in Tasks : owed[t] \in Int /\ less[t] \in Int /\ less[t] <= owed[t],
           Accounts(T, sent, owed)
    PROVE  Accounts(T, sent, less)
BY KnownIsFinite DEF Accounts

LEMMA CarriedIsJournal ==
    ASSUME RunTypeOK, RowOK
    PROVE  Carried(execution) \in Seq(Entry)
<1>1. execution.timeline \in Seq(Entry) /\ chain \in Seq(ChainEntry)
  BY Types
<1>2. Heard(execution.timeline) \in Seq(Entry)
  BY <1>1, HeardKeeps DEF RowOK
<1> QED
  BY <1>1, <1>2 DEF Carried

\* A step of w that leaves the saved journal and what is owed.
LEMMA KeptKeeps ==
    ASSUME RunInv, NEW w \in Workers, Others(w), worker'[w].pc # "send",
           UNCHANGED <<chain, answers, waived>>,
           execution'.timeline = execution.timeline,
           execution'.resolution = execution.resolution,
           execution'.status = "decision_required" => execution.status = "decision_required",
           StepOK(worker'[w]),
           JournalsOK(worker'[w], execution.timeline, chain, Owed)
    PROVE  RowOK' /\ MemoriesOK'
<1>1. RunTypeOK /\ RowOK /\ MemoriesOK
  BY DEF RunInv
<1>2. \A t \in Tasks : Owed'[t] <= Owed[t] /\ Owed'[t] \in Int /\ Owed[t] \in Int
  BY <1>1, OwedMoves, OwedTypes
<1> DEFINE saved == execution.timeline
           next == Owed'
<1>3. Carried(execution') = Carried(execution) /\ Carried(execution) \in Seq(Entry)
  BY <1>1, CarriedIsJournal DEF Carried
<1>4. RowOK'
  <2>1. Accounts(Carried(execution), chain, Owed')
    BY <1>1, <1>2, <1>3, AccountsForLess DEF RowOK
  <2>2. \A t \in Tasks : Owed'[t] <= 1
    BY <1>1, <1>2 DEF RowOK
  <2> QED
    BY <1>1, <1>3, <2>1, <2>2 DEF RowOK
<1>5. ASSUME NEW m \in WorkerMemory, JournalsOK(m, saved, chain, Owed)
      PROVE  JournalsOK(m, saved, chain, Owed')
  <2>1. m.base \in Seq(Entry) /\ m.timeline \in Seq(Entry)
    BY DEF WorkerMemory
  <2> QED
    BY <1>2, <1>5, <2>1, AccountsForLess DEF JournalsOK, Keeps
<1>6. ASSUME NEW v \in Workers
      PROVE  StepOK(worker'[v]) /\ JournalsOK(worker'[v], saved, chain, Owed')
  <2>1. worker'[v] \in WorkerMemory
    BY DEF Others
  <2>2. CASE v = w
    BY <1>5, <2>1, <2>2
  <2>3. CASE v # w
    <3>1. Same(worker'[v], worker[v])
      BY <2>3 DEF Others
    <3>2. StepOK(worker[v]) /\ JournalsOK(worker[v], saved, chain, Owed)
      BY <1>1 DEF MemoriesOK
    <3>3. StepOK(worker'[v])
      BY <3>1, <3>2 DEF Same, StepOK, LastOf
    <3>4. JournalsOK(worker'[v], saved, chain, Owed)
      BY <3>1, <3>2 DEF Same, JournalsOK
    <3> QED
      BY <1>5, <2>1, <3>3, <3>4
  <2> QED
    BY <2>2, <2>3
<1>7. MemoriesOK'
  BY <1>6 DEF MemoriesOK
<1> QED
  BY <1>4, <1>7

\* A step in which w saves a journal, and nobody else's version is the row's.
LEMMA SavedKeeps ==
    ASSUME RunInv, NEW w \in Workers, Hushed(w),
           UNCHANGED <<chain, answers, waived>>,
           execution'.resolution = "none",
           Sound(execution'.timeline, chain),
           Accounts(execution'.timeline, chain, Owed'),
           \A t \in Tasks : Owed'[t] <= 1,
           StepOK(worker'[w]),
           JournalsOK(worker'[w], execution'.timeline, chain, Owed')
    PROVE  RowOK' /\ MemoriesOK'
<1>1. RunTypeOK /\ RowOK /\ MemoriesOK
  BY DEF RunInv
<1>2. Carried(execution') = execution'.timeline
  BY DEF Carried
<1>3. RowOK'
  BY <1>1, <1>2 DEF RowOK
<1>4. ASSUME NEW v \in Workers
      PROVE  StepOK(worker'[v]) /\ JournalsOK(worker'[v], execution'.timeline, chain, Owed')
  <2>1. CASE v # w
    <3>1. Same(worker'[v], worker[v]) /\ ~ worker'[v].current
      BY <2>1 DEF Hushed
    <3>2. StepOK(worker[v]) /\ Sound(worker[v].base, chain) /\ Sound(worker[v].timeline, chain)
      BY <1>1 DEF MemoriesOK, JournalsOK
    <3>3. StepOK(worker'[v])
      BY <3>1, <3>2 DEF Same, StepOK, LastOf
    <3> QED
      BY <3>1, <3>2, <3>3 DEF Same, JournalsOK
  <2> QED
    BY <2>1
<1>5. MemoriesOK'
  BY <1>4 DEF MemoriesOK
<1> QED
  BY <1>3, <1>5

----------------------------------------------------------------------------
\* Checkpoints.

\* What a step establishes: the invariant, and that no live hash is dropped.
Preserved == RunInv' /\ Covers(execution'.timeline, execution.timeline, chain)

LEMMA CoversItself ==
    \A T, sent : Covers(T, T, sent)
BY DEF Covers

LEMMA EmptyIsSound ==
    \A sent : Sound(<<>>, sent)
BY DEF Sound

LEMMA ReportsKeep ==
    ASSUME RunInv, NEW w \in Workers, Others(w), Asked => Asked',
           worker'[w].pc = "finish" /\ worker'[w].code = "NONE" => Asked',
           execution'.status = "completed" => execution.status = "completed" \/ Asked'
    PROVE  ReportsOK' /\ CompletedHasKey'
<1>1. ReportsOK /\ (execution.status = "completed" => Asked)
  BY DEF RunInv, CompletedHasKey, Asked
<1>2. ReportsOK'
  BY <1>1 DEF ReportsOK, Others, Same
<1>3. CompletedHasKey'
  BY <1>1 DEF CompletedHasKey, Asked
<1> QED
  BY <1>2, <1>3

Wrote(T) ==
    /\ execution' \in ExecutionRow
    /\ execution'.timeline = T
    /\ execution'.resolution = "none"

Threw(w, kept) ==
    /\ worker'[w].base = kept
    /\ worker'[w].code = "NONE"
    /\ \/ worker'[w].pc = "read" /\ worker'[w].timeline = kept
       \/ worker'[w].pc = "threw" /\ worker'[w].timeline = <<>>

LEMMA ReleasedRow ==
    ASSUME RunTypeOK, NEW T \in Seq(Entry),
           NEW s \in {"waiting_retry", "decision_required", "completed", "failed"},
           NEW q \in {"none", "owner"}, NEW e \in KeptCodes \cup {"NONE"},
           execution' = [execution EXCEPT
                !.status = s, !.holder = None, !.timeline = T, !.resolution = "none",
                !.question = q, !.error = e]
    PROVE  Wrote(T) /\ execution'.status = s
BY Types DEF ExecutionRow, Wrote

LEMMA ProgressRow ==
    ASSUME RunTypeOK, NEW T \in Seq(Entry),
           execution' = [execution EXCEPT
                !.status = "running", !.timeline = T, !.resolution = "none",
                !.question = "none", !.error = "NONE"]
    PROVE  Wrote(T) /\ execution'.status = "running"
BY Types DEF ExecutionRow, Wrote

Nexts == [pc : Steps, code : Codes, task : Tasks \cup {None}]

\* A checkpoint reaches the row and the worker hears of it, or only the first, or
\* neither; then the attempt throws.
LEMMA ProgressMoves ==
    ASSUME RunTypeOK, NEW w \in Workers,
           NEW T \in Seq(Entry), NEW kept \in Seq(Entry), NEW next \in Nexts,
           Progress(w, T, next, kept)
    PROVE  \/ /\ worker[w].current /\ Hushed(w) /\ Wrote(T)
              /\ execution'.status = "running"
              /\ worker'[w].timeline = T /\ worker'[w].base = T
              /\ worker'[w].pc = next.pc
              /\ worker'[w].code = next.code
              /\ worker'[w].task = next.task
              /\ worker'[w].settled = worker[w].settled
           \/ /\ worker[w].current /\ Hushed(w) /\ Wrote(T)
              /\ execution'.status = "running"
              /\ ~ worker'[w].current /\ Threw(w, kept)
           \/ /\ execution' = execution /\ Alone(w)
              /\ worker'[w].current = worker[w].current /\ Threw(w, kept)
<1>1. worker[w] \in WorkerMemory
  BY Types
<1> DEFINE saved == [worker[w] EXCEPT !.timeline = T, !.base = T, !.pc = next.pc,
                                      !.code = next.code, !.task = next.task]
           row == [execution EXCEPT
                !.status = "running", !.timeline = T, !.resolution = "none",
                !.question = "none", !.error = "NONE"]
           thrown == Thrown(w, kept)
           deaf == [thrown EXCEPT !.current = FALSE]
<1>2. /\ saved \in WorkerMemory
      /\ saved.timeline = T /\ saved.base = T
      /\ saved.pc = next.pc /\ saved.code = next.code /\ saved.task = next.task
      /\ saved.settled = worker[w].settled
  BY <1>1 DEF WorkerMemory, Nexts
<1>3. /\ thrown \in WorkerMemory
      /\ thrown.current = worker[w].current
      /\ thrown.base = kept /\ thrown.code = "NONE"
      /\ \/ thrown.pc = "read" /\ thrown.timeline = kept
         \/ thrown.pc = "threw" /\ thrown.timeline = <<>>
  BY ThrownIsMemory
<1> HIDE DEF thrown
<1>4. /\ deaf \in WorkerMemory
      /\ ~ deaf.current
      /\ deaf.base = kept /\ deaf.code = "NONE"
      /\ \/ deaf.pc = "read" /\ deaf.timeline = kept
         \/ deaf.pc = "threw" /\ deaf.timeline = <<>>
  BY <1>3, Hush DEF Same
<1>5. \/ Save(w, row, saved)
      \/ Save(w, row, deaf)
      \/ Become(w, thrown) /\ UNCHANGED execution
  BY Zenon DEF Progress, thrown
<1> HIDE DEF saved, deaf
<1>6. CASE Save(w, row, saved)
  <2>1. worker[w].current /\ execution' = row
    BY <1>6 DEF Save, CanSave
  <2>2. worker' = [v \in Workers |->
            IF v = w THEN saved ELSE [worker[v] EXCEPT !.current = FALSE]]
    BY <1>6 DEF Save
  <2>3. Wrote(T) /\ execution'.status = "running"
    BY <2>1, ProgressRow
  <2>4. Hushed(w) /\ worker'[w] = saved
    BY <1>2, <2>2, Takes
  <2> QED
    BY <1>2, <2>1, <2>3, <2>4
<1>7. CASE Save(w, row, deaf)
  <2>1. worker[w].current /\ execution' = row
    BY <1>7 DEF Save, CanSave
  <2>2. worker' = [v \in Workers |->
            IF v = w THEN deaf ELSE [worker[v] EXCEPT !.current = FALSE]]
    BY <1>7 DEF Save
  <2>3. Wrote(T) /\ execution'.status = "running"
    BY <2>1, ProgressRow
  <2>4. Hushed(w) /\ worker'[w] = deaf
    BY <1>4, <2>2, Takes
  <2>5. Threw(w, kept) /\ ~ worker'[w].current
    BY <1>4, <2>4 DEF Threw
  <2> QED
    BY <2>1, <2>3, <2>4, <2>5
<1>8. CASE Become(w, thrown) /\ UNCHANGED execution
  <2>1. worker' = [worker EXCEPT ![w] = thrown]
    BY <1>8 DEF Become
  <2>2. Alone(w) /\ worker'[w] = thrown
    BY <1>3, <2>1, Becomes
  <2>3. Threw(w, kept) /\ worker'[w].current = worker[w].current
    BY <1>3, <2>2 DEF Threw
  <2> QED
    BY <1>8, <2>2, <2>3
<1> QED
  BY <1>5, <1>6, <1>7, <1>8

\* What is carried on when a checkpoint throws.
LEMMA ThrewIsOK ==
    ASSUME NEW w, NEW kept, Threw(w, kept), NEW saved, NEW sent, NEW owed,
           Sound(kept, sent),
           worker'[w].current => Keeps(kept, saved, sent, owed)
    PROVE  StepOK(worker'[w]) /\ JournalsOK(worker'[w], saved, sent, owed)
BY EmptyIsSound DEF Threw, StepOK, JournalsOK

LEMMA ProgressKeeps ==
    ASSUME RunInv, NEW w \in Workers,
           NEW T \in Seq(Entry), NEW kept \in Seq(Entry), NEW next \in Nexts,
           Progress(w, T, next, kept), UNCHANGED <<chain, serverVars, ownerVars>>,
           next.pc # "send", next.pc = "finish" => next.code # "NONE",
           Sound(T, chain), Sound(kept, chain),
           worker[w].current => /\ Keeps(T, execution.timeline, chain, Owed)
                                /\ Keeps(kept, execution.timeline, chain, Owed),
           \A m : /\ m.pc = next.pc /\ m.code = next.code /\ m.task = next.task
                  /\ m.timeline = T /\ m.settled = worker[w].settled
                  => StepOK(m)
    PROVE  Preserved
<1>1. RunTypeOK /\ RowOK /\ MemoriesOK
  BY DEF RunInv
<1>2. UNCHANGED <<chain, completed, claimed, keyGranted, keyThrew, answers, waived>>
  BY DEF serverVars, keyVars, ownerVars
<1>3. Asked' <=> Asked
  BY <1>2 DEF Asked
<1>4. ASSUME /\ worker[w].current /\ Hushed(w) /\ Wrote(T)
             /\ execution'.status = "running"
             /\ worker'[w].pc # "send"
             /\ StepOK(worker'[w])
             /\ JournalsOK(worker'[w], T, chain, Owed')
             /\ worker'[w].pc = "finish" => worker'[w].code # "NONE"
      PROVE  Preserved
  <2>1. Others(w)
    BY <1>1, <1>4, OthersAre
  <2>2. \A t \in Tasks : Owed'[t] <= Owed[t] /\ Owed'[t] \in Int /\ Owed[t] \in Int
    BY <1>1, <1>2, <1>4, <2>1, OwedMoves, OwedTypes
  <2>3. Accounts(T, chain, Owed')
    BY <1>4, <2>2, AccountsForLess DEF Keeps
  <2>4. \A t \in Tasks : Owed'[t] <= 1
    BY <1>1, <2>2 DEF RowOK
  <2>5. RowOK' /\ MemoriesOK'
    BY <1>2, <1>4, <2>3, <2>4, SavedKeeps DEF Wrote
  <2>6. ReportsOK' /\ CompletedHasKey'
    BY <1>3, <1>4, <2>1, ReportsKeep
  <2>7. RunTypeOK'
    BY <1>1, <1>2, <1>4 DEF RunTypeOK, Wrote, Hushed
  <2>8. Covers(execution'.timeline, execution.timeline, chain)
    BY <1>4 DEF Wrote, Keeps
  <2> QED
    BY <2>5, <2>6, <2>7, <2>8 DEF Preserved, RunInv
<1>5. CASE /\ worker[w].current /\ Hushed(w) /\ Wrote(T)
           /\ execution'.status = "running"
           /\ worker'[w].timeline = T /\ worker'[w].base = T
           /\ worker'[w].pc = next.pc
           /\ worker'[w].code = next.code
           /\ worker'[w].task = next.task
           /\ worker'[w].settled = worker[w].settled
  <2>1. StepOK(worker'[w])
    BY <1>5
  <2>2. Accounts(T, chain, Owed')
    <3>1. Others(w)
      BY <1>1, <1>5, OthersAre
    <3>2. \A t \in Tasks : Owed'[t] <= Owed[t] /\ Owed'[t] \in Int /\ Owed[t] \in Int
      BY <1>1, <1>2, <1>5, <3>1, OwedMoves, OwedTypes
    <3> QED
      BY <1>5, <3>2, AccountsForLess DEF Keeps
  <2>3. JournalsOK(worker'[w], T, chain, Owed')
    BY <1>5, <2>2, CoversItself DEF JournalsOK, Keeps
  <2> QED
    BY <1>4, <1>5, <2>1, <2>3
<1>6. CASE /\ worker[w].current /\ Hushed(w) /\ Wrote(T)
           /\ execution'.status = "running"
           /\ ~ worker'[w].current /\ Threw(w, kept)
  <2>1. StepOK(worker'[w]) /\ JournalsOK(worker'[w], T, chain, Owed')
    BY <1>6, ThrewIsOK
  <2> QED
    BY <1>4, <1>6, <2>1 DEF Threw
<1>7. CASE /\ execution' = execution /\ Alone(w)
           /\ worker'[w].current = worker[w].current /\ Threw(w, kept)
  <2>1. Others(w)
    BY <1>1, <1>7, OthersAre
  <2>2. StepOK(worker'[w]) /\ JournalsOK(worker'[w], execution.timeline, chain, Owed)
    BY <1>7, ThrewIsOK
  <2>3. worker'[w].pc \notin {"send", "finish"}
    BY <1>7 DEF Threw
  <2>4. RowOK' /\ MemoriesOK'
    BY <1>2, <1>7, <2>1, <2>2, <2>3, KeptKeeps
  <2>5. ReportsOK' /\ CompletedHasKey'
    BY <1>3, <1>7, <2>1, <2>3, ReportsKeep
  <2>6. RunTypeOK'
    BY <1>1, <1>2, <1>7 DEF RunTypeOK, Alone
  <2> QED
    BY <1>7, <2>4, <2>5, <2>6, CoversItself DEF Preserved, RunInv
<1> QED
  BY <1>1, <1>5, <1>6, <1>7, ProgressMoves

LEMMA WorkerFacts ==
    ASSUME RunInv, NEW w \in Workers
    PROVE  /\ RunTypeOK /\ StepOK(worker[w])
           /\ worker[w].base \in Seq(Entry) /\ worker[w].timeline \in Seq(Entry)
           /\ DOMAIN worker[w].timeline = 1..Len(worker[w].timeline)
           /\ Len(worker[w].timeline) \in Nat
           /\ \A i \in DOMAIN worker[w].timeline : worker[w].timeline[i] \in Entry
           /\ Sound(worker[w].base, chain) /\ Sound(worker[w].timeline, chain)
           /\ worker[w].current => Keeps(worker[w].base, execution.timeline, chain, Owed)
           /\ worker[w].current /\ worker[w].pc # "threw" =>
                    Keeps(worker[w].timeline, execution.timeline, chain, Owed)
<1>1. RunTypeOK /\ MemoriesOK
  BY DEF RunInv
<1>2. worker[w].base \in Seq(Entry) /\ worker[w].timeline \in Seq(Entry)
  BY <1>1, Types
<1>3. /\ DOMAIN worker[w].timeline = 1..Len(worker[w].timeline)
      /\ Len(worker[w].timeline) \in Nat
      /\ \A i \in DOMAIN worker[w].timeline : worker[w].timeline[i] \in Entry
  BY <1>2, LenProperties, ElementOfSeq
<1> QED
  BY <1>1, <1>2, <1>3 DEF MemoriesOK, JournalsOK

\* The same journal, and what retainKnownHash keeps of it.
LEMMA SameJournal ==
    ASSUME RunInv, NEW w \in Workers, worker[w].pc # "threw", NEW next \in Nexts,
           Progress(w, worker[w].timeline, next, KnownHashKept(w, worker[w].timeline)),
           UNCHANGED <<chain, serverVars, ownerVars>>,
           next.pc # "send", next.pc = "finish" => next.code # "NONE",
           \A m : /\ m.pc = next.pc /\ m.code = next.code /\ m.task = next.task
                  /\ m.timeline = worker[w].timeline /\ m.settled = worker[w].settled
                  => StepOK(m)
    PROVE  Preserved
<1> DEFINE T == worker[w].timeline
           kept == KnownHashKept(w, T)
<1>1. kept \in {T, worker[w].base}
  BY DEF KnownHashKept
<1> HIDE DEF kept
<1>2. /\ T \in Seq(Entry) /\ kept \in Seq(Entry)
      /\ Sound(T, chain) /\ Sound(kept, chain)
      /\ worker[w].current => /\ Keeps(T, execution.timeline, chain, Owed)
                              /\ Keeps(kept, execution.timeline, chain, Owed)
  BY <1>1, WorkerFacts
<1>3. Progress(w, T, next, kept)
  BY DEF kept
<1> HIDE DEF T
<1> QED
  BY <1>2, <1>3, ProgressKeeps DEF T

LEMMA StopUnsureStep ==
    ASSUME RunInv, NEW w \in Workers, StopUnsure(w)
    PROVE  Preserved
<1>1. PICK stop \in {Blocked("OWNER_TRANSACTION_RECONCILIATION_REQUIRED"),
                     Ended("OWNER_TRANSACTION_RECONCILIATION_REQUIRED")} :
        /\ worker[w].pc \in {"recheck", "unsure"}
        /\ Progress(w, worker[w].timeline, stop, KnownHashKept(w, worker[w].timeline))
  BY DEF StopUnsure, At
<1>2. UNCHANGED <<chain, serverVars, ownerVars>>
  BY DEF StopUnsure
<1>3. /\ stop \in Nexts
      /\ stop.pc \in {"finish", "close"}
      /\ stop.code = "OWNER_TRANSACTION_RECONCILIATION_REQUIRED"
  BY DEF Blocked, Ended, Nexts, Steps, Codes, OwnerCodes
<1>4. \A m : m.pc = stop.pc /\ m.code = stop.code => StepOK(m)
  BY <1>3 DEF StepOK
<1> QED
  BY <1>1, <1>2, <1>3, <1>4, SameJournal

LEMMA SubmittedStep ==
    ASSUME RunInv, NEW w \in Workers, Submitted(w)
    PROVE  Preserved
<1> DEFINE next == Then("receipt", worker[w].task)
<1>1. /\ worker[w].pc = "submitted"
      /\ Progress(w, worker[w].timeline, next, KnownHashKept(w, worker[w].timeline))
      /\ UNCHANGED <<chain, serverVars, ownerVars>>
  BY DEF Submitted, At
<1>2. /\ StepOK(worker[w])
      /\ worker[w].task \in Tasks \cup {None}
  BY WorkerFacts, Types
<1>3. /\ next \in Nexts
      /\ next.pc = "receipt" /\ next.task = worker[w].task
  BY <1>2 DEF Then, Nexts, Steps, Codes
<1> HIDE DEF next
<1>4. \A m : /\ m.pc = next.pc /\ m.task = next.task
             /\ m.timeline = worker[w].timeline
             => StepOK(m)
  <2>1. /\ worker[w].task \in Tasks /\ worker[w].timeline # <<>>
        /\ LastOf(worker[w]).task = worker[w].task
        /\ LastOf(worker[w]).status = "submitted"
    BY <1>1, <1>2 DEF StepOK
  <2> SUFFICES ASSUME NEW m, m.pc = "receipt", m.task = worker[w].task,
                      m.timeline = worker[w].timeline
               PROVE  StepOK(m)
    BY <1>3
  <2>2. LastOf(m) = LastOf(worker[w])
    BY DEF LastOf
  <2> QED
    BY <2>1, <2>2 DEF StepOK
<1> QED
  BY <1>1, <1>3, <1>4, SameJournal

\* An entry of w's journal marked by what became of its transaction.
LEMMA MarkedJournal ==
    ASSUME RunInv, NEW w \in Workers, worker[w].pc # "threw",
           NEW i \in DOMAIN worker[w].timeline, NEW U, NEW entry \in Entry,
           U = [worker[w].timeline EXCEPT ![i] = entry],
           entry.task = worker[w].timeline[i].task,
           EntryOK(entry, chain),
           Counts(entry, chain) <=> Counts(worker[w].timeline[i], chain),
           entry.tx \in {0, worker[w].timeline[i].tx},
           entry.tx = 0 => ~ Live(chain, worker[w].timeline[i].tx),
           NEW next \in Nexts, NEW kept \in {U, worker[w].base},
           Progress(w, U, next, kept),
           UNCHANGED <<chain, serverVars, ownerVars>>,
           next.pc # "send", next.pc = "finish" => next.code # "NONE",
           \A m : m.pc = next.pc /\ m.code = next.code /\ m.task = next.task
                  => StepOK(m)
    PROVE  Preserved
<1> DEFINE T == worker[w].timeline
<1>1. T \in Seq(Entry) /\ DOMAIN T = 1..Len(T)
  BY WorkerFacts
<1>2. Sound(T, chain) /\ (worker[w].current => Keeps(T, execution.timeline, chain, Owed))
  BY WorkerFacts
<1>3. /\ U \in Seq(Entry) /\ DOMAIN U = DOMAIN T /\ U[i] = entry
      /\ \A j \in DOMAIN T \ {i} : U[j] = T[j]
  <2>1. i \in 1..Len(T)
    BY <1>1
  <2>2. U \in Seq(Entry)
    BY <1>1, <2>1, ExceptSeq
  <2> HIDE DEF T
  <2> QED
    BY <2>2 DEF T
<1> HIDE DEF T
<1>4. entry.tx = T[i].tx \/ ~ Live(chain, T[i].tx)
  BY DEF T
<1>5. /\ Sound(U, chain)
      /\ \A t : Known(U, chain, t) = Known(T, chain, t)
      /\ Covers(T, execution.timeline, chain) => Covers(U, execution.timeline, chain)
  <2>1. entry.task = T[i].task /\ (Counts(entry, chain) <=> Counts(T[i], chain))
    BY DEF T
  <2>2. U[i].tx \in {0, T[i].tx} /\ (U[i].tx = T[i].tx \/ ~ Live(chain, T[i].tx))
    BY <1>3, <1>4 DEF T
  <2>4. /\ U[i].task = T[i].task
        /\ Counts(U[i], chain) <=> Counts(T[i], chain)
        /\ EntryOK(U[i], chain)
    BY <1>3, <2>1
  <2>3. i \in DOMAIN T
    BY DEF T
  <2> QED
    BY <1>2, <1>3, <2>2, <2>3, <2>4, MarkedKeeps
<1>6. worker[w].current => Keeps(U, execution.timeline, chain, Owed)
  BY <1>2, <1>5 DEF Keeps, Accounts
<1>7. /\ kept \in Seq(Entry) /\ Sound(kept, chain)
      /\ worker[w].current => Keeps(kept, execution.timeline, chain, Owed)
  BY <1>3, <1>5, <1>6, WorkerFacts
<1> QED
  BY <1>3, <1>5, <1>6, <1>7, ProgressKeeps

\* The loop takes up an entry that is open.
LEMMA FirstOpen ==
    ASSUME RunInv, NEW w \in Workers, Open(w) # {}
    PROVE  (CHOOSE k \in Open(w) : \A j \in Open(w) : k <= j) \in Open(w)
<1>1. DOMAIN worker[w].timeline = 1..Len(worker[w].timeline) /\ Len(worker[w].timeline) \in Nat
  BY WorkerFacts
<1>2. Open(w) \in SUBSET (1..Len(worker[w].timeline))
  BY <1>1 DEF Open
<1>3. IsFiniteSet(1..Len(worker[w].timeline))
  BY <1>1, FS_Interval
<1>4. IsFiniteSet(Open(w)) /\ Open(w) \in SUBSET Nat
  BY <1>2, <1>3, FS_Subset
<1>5. \E k \in Open(w) : \A j \in Open(w) : k <= j
  BY <1>4, HasLeast
<1> QED
  BY <1>5

LEMMA RecheckStep ==
    ASSUME RunInv, NEW w \in Workers, Recheck(w)
    PROVE  Preserved
<1> DEFINE T == worker[w].timeline
<1>1. /\ worker[w].pc = "recheck" /\ Open(w) # {}
      /\ UNCHANGED <<chain, serverVars, ownerVars>>
  BY DEF Recheck, At
<1>2. PICK i \in Open(w) : i = CHOOSE k \in Open(w) : \A j \in Open(w) : k <= j
  BY <1>1, FirstOpen
<1>3. \/ /\ chain[T[i].tx].status = "pending"
         /\ Progress(w, T, Blocked("TX_CONFIRMATION_PENDING"), KnownHashKept(w, T))
      \/ /\ chain[T[i].tx].status = "reverted"
         /\ Progress(w, [T EXCEPT ![i].status = "reverted"], Then("recheck", None),
                     [T EXCEPT ![i].status = "reverted"])
      \/ /\ chain[T[i].tx].status = "success"
         /\ Progress(w, [T EXCEPT ![i].status = "confirmed"], Then("settle", T[i].task),
                     [T EXCEPT ![i].status = "confirmed"])
  BY <1>2, Zenon DEF Recheck
<1>4. i \in DOMAIN T /\ T[i].status \in {"submitted", "confirmed"}
  BY DEF Open
<1>5. /\ T \in Seq(Entry) /\ T[i] \in Entry /\ Sound(T, chain)
      /\ T[i].task \in Tasks
  BY <1>4, WorkerFacts DEF Entry
<1>6. PICK e \in Entry : e = T[i]
  BY <1>5
<1>7. /\ EntryOK(e, chain) /\ e.tx # 0 /\ e.tx \in DOMAIN chain
      /\ e.status \in {"submitted", "confirmed"}
  BY <1>4, <1>5, <1>6 DEF Sound, EntryOK
<1> DEFINE marked(s) == [e EXCEPT !.status = s]
<1>8. ASSUME NEW s \in {"reverted", "confirmed"}
      PROVE  /\ marked(s) \in Entry
             /\ marked(s).task = e.task /\ marked(s).tx = e.tx /\ marked(s).status = s
  BY DEF Entry
<1>9. ASSUME NEW s PROVE [T EXCEPT ![i].status = s] = [T EXCEPT ![i] = marked(s)]
  BY <1>4, <1>6
<1>10. CASE chain[e.tx].status = "pending" /\
            Progress(w, T, Blocked("TX_CONFIRMATION_PENDING"), KnownHashKept(w, T))
  <2> DEFINE next == Blocked("TX_CONFIRMATION_PENDING")
  <2>1. next \in Nexts /\ next.pc = "finish" /\ next.code = "TX_CONFIRMATION_PENDING"
    BY DEF Blocked, Nexts, Steps, Codes, TimeCodes
  <2>2. \A m : m.pc = "finish" => StepOK(m)
    BY DEF StepOK
  <2> HIDE DEF next
  <2> QED
    BY <1>1, <1>10, <2>1, <2>2, SameJournal DEF next
<1>11. CASE chain[e.tx].status = "reverted" /\
            Progress(w, [T EXCEPT ![i].status = "reverted"], Then("recheck", None),
                     [T EXCEPT ![i].status = "reverted"])
  <2> DEFINE next == Then("recheck", None)
             U == [T EXCEPT ![i].status = "reverted"]
             entry == marked("reverted")
  <2>1. next \in Nexts /\ next.pc = "recheck"
    BY DEF Then, Nexts, Steps, Codes
  <2>2. \A m : m.pc = "recheck" => StepOK(m)
    BY DEF StepOK
  <2>3. U = [T EXCEPT ![i] = entry]
    BY <1>9
  <2>4. Progress(w, U, next, U)
    BY <1>11
  <2> HIDE DEF next, U
  <2>5. entry \in Entry /\ entry.task = e.task /\ entry.tx = e.tx /\ entry.status = "reverted"
    BY <1>8
  <2> HIDE DEF entry, marked
  <2>6. EntryOK(entry, chain) /\ (Counts(entry, chain) <=> Counts(e, chain))
    BY <1>7, <1>11, <2>5 DEF EntryOK, Counts, Live
  <2> QED
    BY <1>1, <1>4, <1>6, <1>7, <2>1, <2>2, <2>3, <2>4, <2>5, <2>6, MarkedJournal
<1>12. CASE chain[e.tx].status = "success" /\
            Progress(w, [T EXCEPT ![i].status = "confirmed"], Then("settle", e.task),
                     [T EXCEPT ![i].status = "confirmed"])
  <2> DEFINE next == Then("settle", e.task)
             U == [T EXCEPT ![i].status = "confirmed"]
             entry == marked("confirmed")
  <2>1. next \in Nexts /\ next.pc = "settle" /\ next.task = e.task
    BY <1>5, <1>6 DEF Then, Nexts, Steps, Codes
  <2>2. \A m : m.pc = "settle" /\ m.task = e.task => StepOK(m)
    BY <1>5, <1>6 DEF StepOK
  <2>3. U = [T EXCEPT ![i] = entry]
    BY <1>9
  <2>4. Progress(w, U, next, U)
    BY <1>12
  <2> HIDE DEF next, U
  <2>5. entry \in Entry /\ entry.task = e.task /\ entry.tx = e.tx /\ entry.status = "confirmed"
    BY <1>8
  <2> HIDE DEF entry, marked
  <2>6. EntryOK(entry, chain) /\ (Counts(entry, chain) <=> Counts(e, chain))
    BY <1>7, <1>12, <2>5 DEF EntryOK, Counts, Live
  <2> QED
    BY <1>1, <1>4, <1>6, <1>7, <2>1, <2>2, <2>3, <2>4, <2>5, <2>6, MarkedJournal
<1> QED
  BY <1>3, <1>6, <1>10, <1>11, <1>12

LEMMA ReceiptStep ==
    ASSUME RunInv, NEW w \in Workers, Receipt(w)
    PROVE  Preserved
<1> DEFINE T == worker[w].timeline
           n == Len(T)
           ended == Ended("CYCLE_BOUND_REACHED")
           toSettle == [Then("settle", worker[w].task) EXCEPT !.code = "CYCLE_BOUND_REACHED"]
           confirmed == [T EXCEPT ![n].status = "confirmed"]
           reverted == [T EXCEPT ![n].status = "reverted", ![n].tx = 0]
<1>1. /\ worker[w].pc = "receipt"
      /\ UNCHANGED <<chain, serverVars, ownerVars>>
  BY DEF Receipt, At
<1>2. \/ Progress(w, T, ended, KnownHashKept(w, T))
      \/ /\ chain[T[n].tx].status = "success"
         /\ Progress(w, confirmed, toSettle, KnownHashKept(w, confirmed))
      \/ /\ chain[T[n].tx].status = "reverted"
         /\ Progress(w, reverted, Ended("TX_REVERTED"), KnownHashKept(w, reverted))
  BY Zenon DEF Receipt
<1>3. /\ worker[w].task \in Tasks /\ T # <<>>
      /\ T[n].task = worker[w].task /\ T[n].status = "submitted"
  BY <1>1, WorkerFacts DEF StepOK, LastOf
<1>4. /\ T \in Seq(Entry) /\ Sound(T, chain) /\ n \in DOMAIN T
  <2>1. T \in Seq(Entry) /\ Sound(T, chain) /\ DOMAIN T = 1..n
    BY WorkerFacts
  <2>2. n \in Nat \ {0}
    BY <1>3, <2>1, EmptySeq
  <2> QED
    BY <2>1, <2>2
<1>5. PICK e \in Entry : e = T[n]
  BY <1>4, WorkerFacts
<1>6. /\ EntryOK(e, chain) /\ e.tx # 0 /\ e.status = "submitted" /\ e.task = worker[w].task
  BY <1>3, <1>4, <1>5 DEF Sound, EntryOK
<1>7. CASE Progress(w, T, ended, KnownHashKept(w, T))
  <2>1. ended \in Nexts /\ ended.pc = "close" /\ ended.code = "CYCLE_BOUND_REACHED"
    BY DEF Ended, Nexts, Steps, Codes
  <2>2. \A m : m.pc = "close" /\ m.code = "CYCLE_BOUND_REACHED" => StepOK(m)
    BY DEF StepOK
  <2> HIDE DEF ended
  <2> QED
    BY <1>1, <1>7, <2>1, <2>2, SameJournal
<1>8. CASE chain[e.tx].status = "success" /\
           Progress(w, confirmed, toSettle, KnownHashKept(w, confirmed))
  <2> DEFINE entry == [e EXCEPT !.status = "confirmed"]
             kept == KnownHashKept(w, confirmed)
  <2>1. toSettle \in Nexts /\ toSettle.pc = "settle" /\ toSettle.task = e.task
    BY <1>3, <1>6 DEF Then, Nexts, Steps, Codes
  <2>2. \A m : m.pc = "settle" /\ m.task = e.task => StepOK(m)
    BY <1>3, <1>6 DEF StepOK
  <2>3. confirmed = [T EXCEPT ![n] = entry]
    BY <1>4, <1>5
  <2>4. kept \in {confirmed, worker[w].base}
    BY DEF KnownHashKept
  <2>5. Progress(w, confirmed, toSettle, kept)
    BY <1>8
  <2>6. entry \in Entry /\ entry.task = e.task /\ entry.tx = e.tx /\ entry.status = "confirmed"
    BY DEF Entry
  <2> HIDE DEF entry, kept, toSettle, confirmed
  <2>7. EntryOK(entry, chain) /\ (Counts(entry, chain) <=> Counts(e, chain))
    BY <1>6, <1>8, <2>6 DEF EntryOK, Counts, Live
  <2> QED
    BY <1>1, <1>4, <1>5, <1>6, <2>1, <2>2, <2>3, <2>4, <2>5, <2>6, <2>7, MarkedJournal
<1>9. CASE chain[e.tx].status = "reverted" /\
           Progress(w, reverted, Ended("TX_REVERTED"), KnownHashKept(w, reverted))
  <2> DEFINE entry == [e EXCEPT !.status = "reverted", !.tx = 0]
             kept == KnownHashKept(w, reverted)
             next == Ended("TX_REVERTED")
  <2>1. next \in Nexts /\ next.pc = "close" /\ next.code = "TX_REVERTED"
    BY DEF Ended, Nexts, Steps, Codes, RetryableCodes
  <2>2. \A m : m.pc = "close" /\ m.code = "TX_REVERTED" => StepOK(m)
    BY DEF StepOK
  <2>3. reverted = [T EXCEPT ![n] = entry]
    BY <1>4, <1>5
  <2>4. kept \in {reverted, worker[w].base}
    BY DEF KnownHashKept
  <2>5. Progress(w, reverted, next, kept)
    BY <1>9
  <2>6. entry \in Entry /\ entry.task = e.task /\ entry.tx = 0 /\ entry.status = "reverted"
    <3>1. 0 \in 0..MaxSends
      BY RunAssumption
    <3> QED
      BY <3>1 DEF Entry
  <2> HIDE DEF entry, kept, next, reverted
  <2>7. /\ EntryOK(entry, chain) /\ (Counts(entry, chain) <=> Counts(e, chain))
        /\ ~ Live(chain, e.tx)
    BY <1>6, <1>9, <2>6 DEF EntryOK, Counts, Live
  <2> QED
    BY <1>1, <1>4, <1>5, <2>1, <2>2, <2>3, <2>4, <2>5, <2>6, <2>7, MarkedJournal
<1> QED
  BY <1>2, <1>5, <1>7, <1>8, <1>9

\* The intent that is saved is the one entry that stands for what will be sent.
LEMMA PrepareStep ==
    ASSUME RunInv, NEW w \in Workers, Prepare(w)
    PROVE  Preserved
<1> DEFINE T == worker[w].timeline
           task == worker[w].task
           entry == [task |-> task, status |-> "broadcasting", tx |-> 0]
           U == Append(T, entry)
           next == Then("send", task)
<1>1. /\ worker[w].pc = "prepare" /\ UNCHANGED <<chain, serverVars, ownerVars>>
      /\ Progress(w, U, next, worker[w].base)
  BY DEF Prepare, At
<1>2. /\ RunTypeOK /\ RowOK /\ MemoriesOK
      /\ T \in Seq(Entry) /\ worker[w].base \in Seq(Entry)
      /\ Sound(T, chain) /\ Sound(worker[w].base, chain)
      /\ worker[w].current =>
            /\ Keeps(T, execution.timeline, chain, Owed)
            /\ Keeps(worker[w].base, execution.timeline, chain, Owed)
      /\ task \in Tasks
      /\ \A i \in DOMAIN T : T[i].task = task => T[i].status = "reverted"
  BY <1>1, WorkerFacts DEF StepOK, RunInv
<1>3. UNCHANGED <<chain, completed, claimed, keyGranted, keyThrew, answers, waived>>
  BY <1>1 DEF serverVars, keyVars, ownerVars
<1>4. Asked' <=> Asked
  BY <1>3 DEF Asked
<1>5. /\ entry \in Entry /\ entry.task = task
      /\ entry.status = "broadcasting" /\ entry.tx = 0
  BY <1>2, RunAssumption DEF Entry
<1>6. next \in Nexts /\ next.pc = "send" /\ next.task = task /\ next.code = "NONE"
  BY <1>2 DEF Then, Nexts, Steps, Codes
<1>7. U[Len(U)] = entry /\ U # <<>>
  BY <1>2, <1>5
<1> HIDE DEF entry, next
<1>8. /\ U \in Seq(Entry) /\ Sound(U, chain)
      /\ \A t \in Tasks : Cardinality(Known(U, chain, t)) =
            IF t = task THEN Cardinality(Known(T, chain, t)) + 1
            ELSE Cardinality(Known(T, chain, t))
      /\ Covers(T, execution.timeline, chain) => Covers(U, execution.timeline, chain)
  BY <1>2, <1>5, AppendedKeeps
<1>9. Cardinality(Known(T, chain, task)) = 0
  <2>1. Known(T, chain, task) = {}
    BY <1>2 DEF Known, Counts
  <2> QED
    BY <2>1, FS_EmptySet
<1>10. \A t \in Tasks : /\ Owed[t] \in Int
                        /\ Cardinality(Known(T, chain, t)) \in Nat
  BY <1>2, OwedTypes, KnownIsFinite
<1> HIDE DEF U
<1>11. ASSUME worker[w].current, Hushed(w), Wrote(U), execution'.status = "running",
              Accounts(U, chain, Owed'), \A t \in Tasks : Owed'[t] <= 1,
              StepOK(worker'[w]), JournalsOK(worker'[w], U, chain, Owed'),
              worker'[w].pc # "finish"
       PROVE  Preserved
  <2>1. Others(w)
    BY <1>2, <1>11, OthersAre
  <2>2. RowOK' /\ MemoriesOK'
    BY <1>3, <1>8, <1>11, SavedKeeps DEF Wrote
  <2>3. ReportsOK' /\ CompletedHasKey'
    BY <1>4, <1>11, <2>1, ReportsKeep
  <2>4. RunTypeOK'
    BY <1>2, <1>3, <1>11 DEF RunTypeOK, Wrote, Hushed
  <2>5. Covers(execution'.timeline, execution.timeline, chain)
    BY <1>2, <1>8, <1>11 DEF Wrote, Keeps
  <2> QED
    BY <2>2, <2>3, <2>4, <2>5 DEF Preserved, RunInv
<1>12. CASE /\ worker[w].current /\ Hushed(w) /\ Wrote(U)
            /\ execution'.status = "running"
            /\ worker'[w].timeline = U /\ worker'[w].base = U
            /\ worker'[w].pc = next.pc
            /\ worker'[w].code = next.code
            /\ worker'[w].task = next.task
            /\ worker'[w].settled = worker[w].settled
  <2>1. Others(w)
    BY <1>2, <1>12, OthersAre
  <2>2. ASSUME NEW t \in Tasks
        PROVE  Owed'[t] = IF t = task THEN Owed[t] + 1 ELSE Owed[t]
    <3>1. Cardinality(Sending(t)') =
            IF t = task THEN Cardinality(Sending(t)) + 1 ELSE Cardinality(Sending(t))
      BY <1>1, <1>6, <1>12, <2>1, SendingMoves
    <3>2. Owed'[t] = Cardinality(Out(chain, t)) + Cardinality(Sending(t)') - waived[t]
      BY <1>3, OwedNext
    <3> QED
      BY <1>2, <3>1, <3>2, OwedTypes
  <2>3. \A t \in Tasks : Owed[t] <= Cardinality(Known(T, chain, t))
    BY <1>2, <1>12 DEF Keeps, Accounts
  <2>4. Accounts(U, chain, Owed')
    BY <1>8, <1>10, <2>2, <2>3 DEF Accounts
  <2>5. \A t \in Tasks : Owed'[t] <= 1
    BY <1>2, <1>9, <1>10, <2>2, <2>3 DEF RowOK
  <2>6. StepOK(worker'[w])
    BY <1>2, <1>5, <1>6, <1>7, <1>12 DEF StepOK, LastOf
  <2>7. JournalsOK(worker'[w], U, chain, Owed')
    BY <1>8, <1>12, <2>4, CoversItself DEF JournalsOK, Keeps
  <2> QED
    BY <1>6, <1>11, <1>12, <2>4, <2>5, <2>6, <2>7
<1>13. CASE /\ worker[w].current /\ Hushed(w) /\ Wrote(U)
            /\ execution'.status = "running"
            /\ ~ worker'[w].current /\ Threw(w, worker[w].base)
  <2>1. Others(w) /\ worker'[w].pc \notin {"send", "finish"}
    BY <1>2, <1>13, OthersAre DEF Threw
  <2>2. \A t \in Tasks : Owed'[t] <= Owed[t] /\ Owed'[t] \in Int
    BY <1>2, <1>3, <2>1, OwedMoves
  <2>3. \A t \in Tasks : Owed[t] <= Cardinality(Known(T, chain, t))
    BY <1>2, <1>13 DEF Keeps, Accounts
  <2>4. Accounts(U, chain, Owed')
    BY <1>8, <1>10, <2>2, <2>3 DEF Accounts
  <2>5. \A t \in Tasks : Owed'[t] <= 1
    BY <1>2, <1>10, <2>2 DEF RowOK
  <2>6. StepOK(worker'[w]) /\ JournalsOK(worker'[w], U, chain, Owed')
    BY <1>2, <1>13, ThrewIsOK
  <2> QED
    BY <1>11, <1>13, <2>1, <2>4, <2>5, <2>6
<1>14. CASE /\ execution' = execution /\ Alone(w)
            /\ worker'[w].current = worker[w].current /\ Threw(w, worker[w].base)
  <2>1. Others(w)
    BY <1>2, <1>14, OthersAre
  <2>2. StepOK(worker'[w]) /\ JournalsOK(worker'[w], execution.timeline, chain, Owed)
    BY <1>2, <1>14, ThrewIsOK
  <2>3. worker'[w].pc \notin {"send", "finish"}
    BY <1>14 DEF Threw
  <2>4. RowOK' /\ MemoriesOK'
    BY <1>3, <1>14, <2>1, <2>2, <2>3, KeptKeeps
  <2>5. ReportsOK' /\ CompletedHasKey'
    BY <1>4, <1>14, <2>1, <2>3, ReportsKeep
  <2>6. RunTypeOK'
    BY <1>2, <1>3, <1>14 DEF RunTypeOK, Alone
  <2> QED
    BY <1>14, <2>4, <2>5, <2>6, CoversItself DEF Preserved, RunInv
<1> QED
  BY <1>1, <1>2, <1>6, <1>8, <1>12, <1>13, <1>14, ProgressMoves

----------------------------------------------------------------------------
\* Steps in a worker's memory.

\* w's memory changes and nothing else but what the server keeps.
LEMMA AloneKeeps ==
    ASSUME RunInv, NEW w \in Workers, Alone(w),
           UNCHANGED <<execution, chain, ownerVars>>,
           worker'[w].pc # "send",
           StepOK(worker'[w]),
           JournalsOK(worker'[w], execution.timeline, chain, Owed),
           completed' \subseteq Tasks, claimed' \subseteq completed',
           keyGranted' \in BOOLEAN, keyThrew' \in BOOLEAN, Asked => Asked',
           worker'[w].pc = "finish" /\ worker'[w].code = "NONE" => Asked'
    PROVE  Preserved
<1>1. RunTypeOK
  BY DEF RunInv
<1>2. UNCHANGED <<chain, answers, waived>>
  BY DEF ownerVars
<1>3. Others(w)
  BY <1>1, OthersAre
<1>4. RowOK' /\ MemoriesOK'
  BY <1>2, <1>3, KeptKeeps
<1>5. ReportsOK' /\ CompletedHasKey'
  BY <1>3, ReportsKeep
<1>6. RunTypeOK'
  BY <1>1, <1>2 DEF RunTypeOK, Alone
<1> QED
  BY <1>4, <1>5, <1>6, CoversItself DEF Preserved, RunInv

LEMMA EditKeeps ==
    ASSUME RunInv, NEW w \in Workers, worker[w].pc # "threw",
           NEW m \in WorkerMemory, worker' = [worker EXCEPT ![w] = m],
           m.timeline = worker[w].timeline,
           m.base \in {worker[w].base, worker[w].timeline},
           m.current = worker[w].current,
           m.pc # "send", StepOK(m),
           m.pc = "finish" /\ m.code = "NONE" => Asked',
           UNCHANGED <<execution, chain, ownerVars>>,
           completed' \subseteq Tasks, claimed' \subseteq completed',
           keyGranted' \in BOOLEAN, keyThrew' \in BOOLEAN, Asked => Asked'
    PROVE  Preserved
<1>1. Alone(w) /\ worker'[w] = m
  BY Becomes DEF RunInv
<1>2. JournalsOK(m, execution.timeline, chain, Owed)
  BY WorkerFacts DEF JournalsOK
<1> QED
  BY <1>1, <1>2, AloneKeeps

LEMMA ServerTypes ==
    ASSUME RunInv
    PROVE  /\ completed \subseteq Tasks /\ claimed \subseteq completed
           /\ keyGranted \in BOOLEAN /\ keyThrew \in BOOLEAN
BY DEF RunInv, RunTypeOK

\* A report that stops the run for a reason.
LEMMA StopKeeps ==
    ASSUME RunInv, NEW w \in Workers, worker[w].pc # "threw", NEW c \in Codes,
           worker' = [worker EXCEPT ![w] = [worker[w] EXCEPT !.pc = "finish", !.code = c]],
           c = "NONE" => Asked',
           UNCHANGED <<execution, chain, ownerVars>>,
           completed' \subseteq Tasks, claimed' \subseteq completed',
           keyGranted' \in BOOLEAN, keyThrew' \in BOOLEAN, Asked => Asked'
    PROVE  Preserved
<1>1. PICK old \in WorkerMemory : old = worker[w]
  BY Types DEF RunInv
<1> DEFINE m == [old EXCEPT !.pc = "finish", !.code = c]
<1>2. /\ m \in WorkerMemory
      /\ m.timeline = old.timeline /\ m.base = old.base /\ m.current = old.current
      /\ m.pc = "finish" /\ m.code = c
  BY DEF WorkerMemory, Steps
<1>3. worker' = [worker EXCEPT ![w] = m]
  BY <1>1
<1> HIDE DEF m
<1>4. StepOK(m)
  BY <1>2 DEF StepOK
<1> QED
  BY <1>1, <1>2, <1>3, <1>4, EditKeeps

LEMMA LeaveRunStep ==
    ASSUME RunInv, NEW w \in Workers, LeaveRun(w)
    PROVE  Preserved
<1>1. PICK c \in Untaken :
            worker' = [worker EXCEPT ![w] = [worker[w] EXCEPT !.pc = "finish", !.code = c]]
  BY Zenon DEF LeaveRun, Become
<1>2. worker[w].pc = "read" /\ UNCHANGED <<execution, chain, serverVars, ownerVars>>
  BY DEF LeaveRun, At
<1>3. c \in Codes /\ c # "NONE"
  BY DEF Untaken, CallFailures, Codes, RetryableCodes, FatalCodes
<1>4. UNCHANGED <<completed, claimed, keyGranted, keyThrew>>
  BY <1>2 DEF serverVars, keyVars
<1>5. Asked' <=> Asked
  BY <1>4 DEF Asked
<1> QED
  BY <1>1, <1>2, <1>3, <1>4, <1>5, ServerTypes, StopKeeps

LEMMA CallFailuresAreCodes ==
    \A c \in CallFailures : c \in Codes /\ c # "NONE"
BY DEF CallFailures, Codes, RetryableCodes, FatalCodes

LEMMA ReadRunStep ==
    ASSUME RunInv, NEW w \in Workers, ReadRun(w)
    PROVE  Preserved
<1>1. /\ worker[w].pc = "read"
      /\ UNCHANGED <<execution, chain, completed, keyVars, ownerVars>>
  BY DEF ReadRun, At
<1>2. UNCHANGED <<completed, keyGranted, keyThrew>> /\ (Asked' <=> Asked)
  BY <1>1 DEF keyVars, Asked
<1>3. CASE \E failed \in SUBSET (completed \ claimed) :
          /\ \E unseen \in SUBSET failed :
                claimed' = (completed \ failed) \cup unseen
          /\ Become(w, [worker[w] EXCEPT !.pc = "recheck",
                         !.settled = completed, !.unpaid = failed])
  <2>1. PICK failed \in SUBSET (completed \ claimed) :
          /\ \E unseen \in SUBSET failed :
                claimed' = (completed \ failed) \cup unseen
          /\ worker' = [worker EXCEPT ![w] = [worker[w] EXCEPT !.pc = "recheck",
                         !.settled = completed, !.unpaid = failed]]
    BY <1>3, Zenon DEF Become
  <2>2. claimed' \subseteq completed'
    BY <1>2, <2>1
  <2>3. PICK old \in WorkerMemory : old = worker[w]
    BY Types DEF RunInv
  <2> DEFINE m == [old EXCEPT !.pc = "recheck", !.settled = completed, !.unpaid = failed]
  <2>4. failed \in SUBSET Tasks /\ completed \in SUBSET Tasks
    BY ServerTypes
  <2>5. /\ m \in WorkerMemory
        /\ m.timeline = old.timeline /\ m.base = old.base /\ m.current = old.current
        /\ m.pc = "recheck"
    BY <2>4 DEF WorkerMemory, Steps
  <2>6. worker' = [worker EXCEPT ![w] = m]
    BY <2>1, <2>3
  <2> HIDE DEF m
  <2>7. StepOK(m)
    BY <2>5 DEF StepOK
  <2> QED
    BY <1>1, <1>2, <2>2, <2>3, <2>5, <2>6, <2>7, ServerTypes, EditKeeps
<1>4. CASE /\ \E c \in CallFailures :
               Become(w, [worker[w] EXCEPT !.pc = "finish", !.code = c])
           /\ UNCHANGED claimed
  <2>1. PICK c \in CallFailures :
            worker' = [worker EXCEPT ![w] = [worker[w] EXCEPT !.pc = "finish", !.code = c]]
    BY <1>4, Zenon DEF Become
  <2> QED
    BY <1>1, <1>2, <1>4, <2>1, CallFailuresAreCodes, ServerTypes, StopKeeps
<1> QED
  BY <1>3, <1>4, Zenon DEF ReadRun

LEMMA CloseStep ==
    ASSUME RunInv, NEW w \in Workers, Close(w)
    PROVE  Preserved
<1> DEFINE m == worker[w]
           stop(c) == [m EXCEPT !.pc = "finish", !.code = c]
<1>1. /\ worker[w].pc = "close"
      /\ UNCHANGED <<execution, chain, completed, claimed, ownerVars>>
  BY DEF Close, At
<1>2. \/ Become(w, stop("OWNER_REWARD_DECISION_REQUIRED")) /\ UNCHANGED keyVars
      \/ m.settled # Tasks /\ Become(w, stop(m.code)) /\ UNCHANGED keyVars
      \/ \E a \in KeyAnswers(completed = Tasks) :
            Become(w, stop(a.code)) /\ keyGranted' = a.granted /\ keyThrew' = a.threw
  BY Zenon DEF Close
<1>3. CASE Become(w, stop("OWNER_REWARD_DECISION_REQUIRED")) /\ UNCHANGED keyVars
  <2>1. UNCHANGED <<keyGranted, keyThrew>> /\ (Asked' <=> Asked)
    BY <1>3 DEF keyVars, Asked
  <2>2. worker' = [worker EXCEPT ![w] = stop("OWNER_REWARD_DECISION_REQUIRED")]
    BY <1>3 DEF Become
  <2>3. "OWNER_REWARD_DECISION_REQUIRED" \in Codes
    BY DEF Codes, OwnerCodes
  <2> QED
    BY <1>1, <2>1, <2>2, <2>3, ServerTypes, StopKeeps
<1>4. CASE m.settled # Tasks /\ Become(w, stop(m.code)) /\ UNCHANGED keyVars
  <2>1. UNCHANGED <<keyGranted, keyThrew>> /\ (Asked' <=> Asked)
    BY <1>4 DEF keyVars, Asked
  <2>2. worker' = [worker EXCEPT ![w] = stop(m.code)]
    BY <1>4 DEF Become
  <2>3. m.code \in Codes
    BY Types DEF RunInv
  <2>4. m.code # "NONE"
    BY <1>1, <1>4, WorkerFacts DEF StepOK
  <2> QED
    BY <1>1, <2>1, <2>2, <2>3, <2>4, ServerTypes, StopKeeps
<1>5. CASE \E a \in KeyAnswers(completed = Tasks) :
            Become(w, stop(a.code)) /\ keyGranted' = a.granted /\ keyThrew' = a.threw
  <2>1. PICK a \in KeyAnswers(completed = Tasks) :
            /\ worker' = [worker EXCEPT ![w] = stop(a.code)]
            /\ keyGranted' = a.granted /\ keyThrew' = a.threw
    BY <1>5, Zenon DEF Become
  <2>2. /\ a.code \in Codes
        /\ a.granted \in BOOLEAN /\ a.threw \in BOOLEAN
        /\ Asked => Asked'
        /\ a.code = "NONE" => Asked'
    BY <2>1, CallFailuresAreCodes DEF KeyAnswers, Asked, Codes, RetryableCodes
  <2> QED
    BY <1>1, <2>1, <2>2, ServerTypes, StopKeeps
<1> QED
  BY <1>2, <1>3, <1>4, <1>5

LEMMA SettleStep ==
    ASSUME RunInv, NEW w \in Workers, Settle(w)
    PROVE  Preserved
<1>1. /\ worker[w].pc = "settle"
      /\ UNCHANGED <<execution, chain, keyVars, ownerVars>>
  BY DEF Settle, At
<1>2. UNCHANGED <<keyGranted, keyThrew>> /\ (Asked' <=> Asked)
  BY <1>1 DEF keyVars, Asked
<1>3. PICK m \in WorkerMemory : m = worker[w]
  BY Types DEF RunInv
<1>4. m.task \in Tasks
  BY <1>1, <1>3, WorkerFacts DEF StepOK
<1> DEFINE planned == m.code = "CYCLE_BOUND_REACHED"
           step == IF planned THEN "close" ELSE "recheck"
           settled == m.settled \cup {m.task}
           unpaid == m.unpaid \cup {m.task}
           done == [m EXCEPT !.pc = step, !.settled = settled]
           owing == [done EXCEPT !.unpaid = unpaid]
           closed == [m EXCEPT !.pc = "close"]
<1>5. \/ /\ completed' = completed \cup {m.task}
         /\ claimed' = claimed \cup {m.task}
         /\ worker' = [worker EXCEPT ![w] = done]
      \/ /\ completed' = completed \cup {m.task}
         /\ claimed' \in {claimed, claimed \cup {m.task}}
         /\ worker' = [worker EXCEPT ![w] = owing]
      \/ /\ UNCHANGED <<completed, claimed>>
         /\ worker' = [worker EXCEPT ![w] = done]
      \/ /\ completed' \in {completed, completed \cup {m.task}}
         /\ UNCHANGED claimed
         /\ planned
         /\ worker' = [worker EXCEPT ![w] = closed]
      \/ /\ completed' \in {completed, completed \cup {m.task}}
         /\ UNCHANGED claimed
         /\ \E c \in CallFailures :
                worker' = [worker EXCEPT ![w] = [worker[w] EXCEPT !.pc = "finish", !.code = c]]
  BY <1>3, Zenon DEF Settle, Become
<1>6. completed' \subseteq Tasks /\ claimed' \subseteq completed'
  BY <1>4, <1>5, ServerTypes
<1>7. /\ settled \in SUBSET Tasks /\ unpaid \in SUBSET Tasks
      /\ step \in {"close", "recheck"}
      /\ step = "close" => m.code # "NONE"
  BY <1>4 DEF WorkerMemory
<1> HIDE DEF step, settled, unpaid
<1>8. /\ done \in WorkerMemory
      /\ done.timeline = m.timeline /\ done.base = m.base /\ done.current = m.current
      /\ done.pc = step /\ done.code = m.code
  BY <1>7 DEF WorkerMemory, Steps
<1> HIDE DEF done
<1>9. /\ owing \in WorkerMemory
      /\ owing.timeline = m.timeline /\ owing.base = m.base /\ owing.current = m.current
      /\ owing.pc = step /\ owing.code = m.code
  BY <1>7, <1>8 DEF WorkerMemory
<1>10. /\ closed \in WorkerMemory
       /\ closed.timeline = m.timeline /\ closed.base = m.base /\ closed.current = m.current
       /\ closed.pc = "close" /\ closed.code = m.code
  BY DEF WorkerMemory, Steps
<1> HIDE DEF owing, closed
<1>11. /\ StepOK(done) /\ StepOK(owing)
       /\ planned => StepOK(closed)
  BY <1>7, <1>8, <1>9, <1>10 DEF StepOK
<1>12. CASE worker' = [worker EXCEPT ![w] = done]
  BY <1>1, <1>2, <1>3, <1>6, <1>7, <1>8, <1>11, <1>12, ServerTypes, EditKeeps
<1>13. CASE worker' = [worker EXCEPT ![w] = owing]
  BY <1>1, <1>2, <1>3, <1>6, <1>7, <1>9, <1>11, <1>13, ServerTypes, EditKeeps
<1>14. CASE planned /\ worker' = [worker EXCEPT ![w] = closed]
  BY <1>1, <1>2, <1>3, <1>6, <1>10, <1>11, <1>14, ServerTypes, EditKeeps
<1>15. CASE \E c \in CallFailures :
                worker' = [worker EXCEPT ![w] = [worker[w] EXCEPT !.pc = "finish", !.code = c]]
  BY <1>1, <1>2, <1>6, <1>15, CallFailuresAreCodes, ServerTypes, StopKeeps
<1> QED
  BY <1>5, <1>12, <1>13, <1>14, <1>15

\* A task is taken up when the journal says of none of its transactions that it
\* may be out.
LEMMA PlanStep ==
    ASSUME RunInv, NEW w \in Workers, Plan(w)
    PROVE  Preserved
<1> DEFINE left == Tasks \ worker[w].settled
<1>1. /\ worker[w].pc = "recheck" /\ ~ Unheard(w) /\ Open(w) = {}
      /\ UNCHANGED <<execution, chain, serverVars, ownerVars>>
  BY DEF Plan, At
<1>2. UNCHANGED <<completed, claimed, keyGranted, keyThrew>> /\ (Asked' <=> Asked)
  BY <1>1 DEF serverVars, keyVars, Asked
<1>3. PICK m \in WorkerMemory : m = worker[w]
  BY Types DEF RunInv
<1>4. \/ \E c \in CallFailures \cup PreflightBlockers \cup {"EXTERNAL_DECISION_REQUIRED"} :
            worker' = [worker EXCEPT ![w] = [worker[w] EXCEPT !.pc = "finish", !.code = c]]
      \/ left = {} /\ worker' = [worker EXCEPT ![w] = [m EXCEPT !.pc = "close"]]
      \/ \E t \in left :
            worker' = [worker EXCEPT ![w] = [m EXCEPT !.pc = "prepare", !.task = t]]
      \/ worker' = [worker EXCEPT ![w] =
                        [m EXCEPT !.pc = "close", !.code = "STALE_CANDIDATE"]]
  <2>1. \/ \E c \in CallFailures \cup PreflightBlockers :
                Become(w, [worker[w] EXCEPT !.pc = "finish", !.code = c])
        \/ left = {} /\ Become(w, [worker[w] EXCEPT !.pc = "close"])
        \/ Become(w, [worker[w] EXCEPT !.pc = "finish", !.code = "EXTERNAL_DECISION_REQUIRED"])
        \/ \E p \in PlannerResults(worker[w], left) : Become(w, p)
    BY Zenon DEF Plan
  <2>2. \A p \in PlannerResults(worker[w], left) :
            \/ \E t \in left : p = [worker[w] EXCEPT !.pc = "prepare", !.task = t]
            \/ p = [worker[w] EXCEPT !.pc = "close", !.code = "STALE_CANDIDATE"]
    BY Zenon DEF PlannerResults
  <2> HIDE DEF left
  <2>3. ASSUME NEW p \in PlannerResults(worker[w], left), Become(w, p)
        PROVE  \/ \E t \in left :
                    worker' = [worker EXCEPT ![w] = [m EXCEPT !.pc = "prepare", !.task = t]]
               \/ worker' = [worker EXCEPT ![w] =
                                [m EXCEPT !.pc = "close", !.code = "STALE_CANDIDATE"]]
    <3>1. /\ worker' = [worker EXCEPT ![w] = p]
          /\ \/ \E t \in left : p = [m EXCEPT !.pc = "prepare", !.task = t]
             \/ p = [m EXCEPT !.pc = "close", !.code = "STALE_CANDIDATE"]
      BY <1>3, <2>2, <2>3, Zenon DEF Become
    <3> QED
      BY <3>1, Zenon
  <2>4. ASSUME NEW c \in CallFailures \cup PreflightBlockers,
               Become(w, [worker[w] EXCEPT !.pc = "finish", !.code = c])
        PROVE  \E d \in CallFailures \cup PreflightBlockers \cup {"EXTERNAL_DECISION_REQUIRED"} :
            worker' = [worker EXCEPT ![w] = [worker[w] EXCEPT !.pc = "finish", !.code = d]]
    BY <2>4 DEF Become
  <2>5. ASSUME Become(w, [worker[w] EXCEPT !.pc = "finish", !.code = "EXTERNAL_DECISION_REQUIRED"])
        PROVE  \E d \in CallFailures \cup PreflightBlockers \cup {"EXTERNAL_DECISION_REQUIRED"} :
            worker' = [worker EXCEPT ![w] = [worker[w] EXCEPT !.pc = "finish", !.code = d]]
    BY <2>5 DEF Become
  <2>6. ASSUME Become(w, [worker[w] EXCEPT !.pc = "close"])
        PROVE  worker' = [worker EXCEPT ![w] = [m EXCEPT !.pc = "close"]]
    BY <1>3, <2>6 DEF Become
  <2> QED
    BY <2>1, <2>3, <2>4, <2>5, <2>6, Zenon
<1>5. CASE \E c \in CallFailures \cup PreflightBlockers \cup {"EXTERNAL_DECISION_REQUIRED"} :
            worker' = [worker EXCEPT ![w] = [worker[w] EXCEPT !.pc = "finish", !.code = c]]
  <2>1. \A c \in CallFailures \cup PreflightBlockers \cup {"EXTERNAL_DECISION_REQUIRED"} :
            c \in Codes /\ c # "NONE"
    BY CallFailuresAreCodes DEF PreflightBlockers, Codes, OwnerCodes, FatalCodes, RetryableCodes
  <2> QED
    BY <1>1, <1>2, <1>5, <2>1, ServerTypes, StopKeeps
<1>6. CASE left = {} /\ worker' = [worker EXCEPT ![w] = [m EXCEPT !.pc = "close"]]
  <2> DEFINE n == [m EXCEPT !.pc = "close"]
  <2>1. /\ n \in WorkerMemory
        /\ n.timeline = m.timeline /\ n.base = m.base /\ n.current = m.current
        /\ n.pc = "close" /\ n.settled = m.settled
    BY DEF WorkerMemory, Steps
  <2>2. m.settled = Tasks
    BY <1>3, <1>6 DEF WorkerMemory
  <2>3. worker' = [worker EXCEPT ![w] = n]
    BY <1>6
  <2> HIDE DEF n
  <2>4. StepOK(n)
    BY <2>1, <2>2 DEF StepOK
  <2> QED
    BY <1>1, <1>2, <1>3, <2>1, <2>3, <2>4, ServerTypes, EditKeeps
<1>7. CASE \E t \in left :
            worker' = [worker EXCEPT ![w] = [m EXCEPT !.pc = "prepare", !.task = t]]
  <2>1. PICK t \in left :
            worker' = [worker EXCEPT ![w] = [m EXCEPT !.pc = "prepare", !.task = t]]
    BY <1>7
  <2> DEFINE n == [m EXCEPT !.pc = "prepare", !.task = t]
  <2>2. /\ n \in WorkerMemory
        /\ n.timeline = m.timeline /\ n.base = m.base /\ n.current = m.current
        /\ n.pc = "prepare" /\ n.task = t
    BY DEF WorkerMemory, Steps
  <2>3. worker' = [worker EXCEPT ![w] = n]
    BY <2>1
  <2> HIDE DEF n
  <2>4. ASSUME NEW i \in DOMAIN worker[w].timeline, worker[w].timeline[i].task = t
        PROVE  worker[w].timeline[i].status = "reverted"
    <3>1. worker[w].timeline[i].status \in {"broadcasting", "submitted", "confirmed", "reverted"}
      BY WorkerFacts DEF Entry
    <3>2. worker[w].timeline[i].status # "broadcasting"
      BY <1>1, <2>4 DEF Unheard
    <3>3. worker[w].timeline[i].status \notin {"submitted", "confirmed"}
      BY <1>1, <2>4 DEF Open
    <3> QED
      BY <3>1, <3>2, <3>3
  <2>5. StepOK(n)
    BY <1>3, <2>2, <2>4 DEF StepOK
  <2> QED
    BY <1>1, <1>2, <1>3, <2>2, <2>3, <2>5, ServerTypes, EditKeeps
<1>8. CASE worker' = [worker EXCEPT ![w] =
                        [m EXCEPT !.pc = "close", !.code = "STALE_CANDIDATE"]]
  <2> DEFINE n == [m EXCEPT !.pc = "close", !.code = "STALE_CANDIDATE"]
  <2>1. /\ n \in WorkerMemory
        /\ n.timeline = m.timeline /\ n.base = m.base /\ n.current = m.current
        /\ n.pc = "close" /\ n.code = "STALE_CANDIDATE"
    BY DEF WorkerMemory, Steps, Codes, RetryableCodes
  <2>2. worker' = [worker EXCEPT ![w] = n]
    BY <1>8
  <2> HIDE DEF n
  <2>3. StepOK(n)
    BY <2>1 DEF StepOK
  <2> QED
    BY <1>1, <1>2, <1>3, <2>1, <2>2, <2>3, ServerTypes, EditKeeps
<1> QED
  BY <1>4, <1>5, <1>6, <1>7, <1>8

LEMMA FinalizeEarlyStep ==
    ASSUME RunInv, NEW w \in Workers, FinalizeEarly(w)
    PROVE  Preserved
<1>1. /\ worker[w].pc = "finish"
      /\ UNCHANGED <<execution, chain, serverVars, ownerVars>>
  BY DEF FinalizeEarly, At
<1>2. UNCHANGED <<completed, claimed, keyGranted, keyThrew>> /\ (Asked' <=> Asked)
  BY <1>1 DEF serverVars, keyVars, Asked
<1>3. PICK m \in WorkerMemory : m = worker[w]
  BY Types DEF RunInv
<1> DEFINE n == [m EXCEPT !.pc = "finalize", !.base = m.timeline]
<1>4. /\ n \in WorkerMemory
      /\ n.timeline = m.timeline /\ n.base = m.timeline /\ n.current = m.current
      /\ n.pc = "finalize"
  BY DEF WorkerMemory, Steps
<1>5. worker' = [worker EXCEPT ![w] = n]
  BY <1>3 DEF FinalizeEarly, Become
<1> HIDE DEF n
<1>6. StepOK(n)
  BY <1>4 DEF StepOK
<1> QED
  BY <1>1, <1>2, <1>3, <1>4, <1>5, <1>6, ServerTypes, EditKeeps

LEMMA IdleIsOK ==
    \A saved, sent, owed : StepOK(Idle) /\ JournalsOK(Idle, saved, sent, owed)
BY IdleIsMemory, EmptyIsSound DEF StepOK, JournalsOK

LEMMA CrashStep ==
    ASSUME RunInv, NEW w \in Workers, Crash(w)
    PROVE  Preserved
<1>1. worker' = [worker EXCEPT ![w] = Idle] /\ UNCHANGED <<execution, chain, serverVars, ownerVars>>
  BY DEF Crash, Become
<1>2. UNCHANGED <<completed, claimed, keyGranted, keyThrew>> /\ (Asked' <=> Asked)
  BY <1>1 DEF serverVars, keyVars, Asked
<1>3. Alone(w) /\ worker'[w] = Idle
  BY <1>1, IdleIsMemory, Becomes DEF RunInv
<1> QED
  BY <1>1, <1>2, <1>3, IdleIsMemory, IdleIsOK, ServerTypes, AloneKeeps

----------------------------------------------------------------------------
\* The end of an attempt and the beginning of the next.

LEMMA ReleaseKeeps ==
    ASSUME RunInv, NEW w \in Workers, NEW T \in Seq(Entry),
           NEW s \in {"waiting_retry", "decision_required", "completed", "failed"},
           NEW q \in {"none", "owner"}, NEW e,
           Release(w, s, T, q, e),
           Sound(T, chain),
           worker[w].current => Keeps(T, execution.timeline, chain, Owed),
           UNCHANGED <<chain, completed, claimed, ownerVars>>,
           keyGranted' \in BOOLEAN, keyThrew' \in BOOLEAN, Asked => Asked',
           s = "completed" => Asked'
    PROVE  Preserved
<1> DEFINE kept == IF e \in KeptCodes THEN e ELSE "NONE"
           row == [execution EXCEPT
                !.status = s, !.holder = None, !.timeline = T, !.resolution = "none",
                !.question = q, !.error = kept]
<1>1. \/ Save(w, row, Idle)
      \/ Become(w, Idle) /\ UNCHANGED execution
  BY Zenon DEF Release
<1>2. kept \in KeptCodes \cup {"NONE"}
  OBVIOUS
<1> HIDE DEF kept
<1>3. UNCHANGED <<chain, answers, waived>>
  BY DEF ownerVars
<1>4. RunTypeOK /\ RowOK
  BY DEF RunInv
<1>5. CASE Save(w, row, Idle)
  <2>1. worker[w].current /\ execution' = row
    BY <1>5 DEF Save, CanSave
  <2>2. worker' = [v \in Workers |->
            IF v = w THEN Idle ELSE [worker[v] EXCEPT !.current = FALSE]]
    BY <1>5 DEF Save
  <2>3. Wrote(T) /\ execution'.status = s
    BY <1>2, <1>4, <2>1, ReleasedRow
  <2>4. Hushed(w) /\ worker'[w] = Idle
    BY <1>4, <2>2, IdleIsMemory, Takes
  <2>5. Others(w) /\ worker'[w].pc = "idle"
    BY <1>4, <2>4, OthersAre, IdleIsMemory
  <2>6. \A t \in Tasks : Owed'[t] <= Owed[t] /\ Owed'[t] \in Int /\ Owed[t] \in Int
    BY <1>3, <1>4, <2>5, OwedMoves, OwedTypes
  <2>7. Accounts(T, chain, Owed')
    BY <2>1, <2>6, AccountsForLess DEF Keeps
  <2>8. \A t \in Tasks : Owed'[t] <= 1
    BY <1>4, <2>6 DEF RowOK
  <2>9. RowOK' /\ MemoriesOK'
    BY <1>3, <2>3, <2>4, <2>7, <2>8, IdleIsOK, SavedKeeps DEF Wrote
  <2>10. ReportsOK' /\ CompletedHasKey'
    BY <2>3, <2>5, ReportsKeep
  <2>11. RunTypeOK'
    BY <1>3, <1>4, <2>3, <2>4 DEF RunTypeOK, Wrote, Hushed
  <2>12. Covers(execution'.timeline, execution.timeline, chain)
    BY <2>1, <2>3 DEF Wrote, Keeps
  <2> QED
    BY <2>9, <2>10, <2>11, <2>12 DEF Preserved, RunInv
<1>6. CASE Become(w, Idle) /\ UNCHANGED execution
  <2>1. Alone(w) /\ worker'[w] = Idle
    BY <1>4, <1>6, IdleIsMemory, Becomes DEF Become
  <2> QED
    BY <1>6, <2>1, IdleIsMemory, IdleIsOK, ServerTypes, AloneKeeps
<1> QED
  BY <1>1, <1>5, <1>6

LEMMA FinishStep ==
    ASSUME RunInv, NEW w \in Workers, Finish(w)
    PROVE  Preserved
<1> DEFINE T == worker[w].timeline
           c == worker[w].code
           s == StatusFor(c)
           q == IF s = "decision_required" THEN "owner" ELSE "none"
<1>1. /\ worker[w].pc = "finish" /\ Release(w, s, T, q, c)
      /\ UNCHANGED <<chain, serverVars, ownerVars>>
  BY Zenon DEF Finish, At
<1>2. UNCHANGED <<completed, claimed, keyGranted, keyThrew>> /\ (Asked' <=> Asked)
  BY <1>1 DEF serverVars, keyVars, Asked
<1>3. /\ s \in {"waiting_retry", "decision_required", "completed", "failed"}
      /\ s = "completed" => c = "NONE"
  BY DEF StatusFor
<1>4. s = "completed" => Asked
  BY <1>1, <1>3 DEF RunInv, ReportsOK
<1> HIDE DEF s
<1>5. q \in {"none", "owner"}
  OBVIOUS
<1> HIDE DEF q
<1> QED
  BY <1>1, <1>2, <1>3, <1>4, <1>5, WorkerFacts, ServerTypes, ReleaseKeeps

LEMMA FinalizeStep ==
    ASSUME RunInv, NEW w \in Workers, Finalize(w)
    PROVE  Preserved
<1>1. UNCHANGED <<chain, completed, claimed, ownerVars>>
  BY DEF Finalize
<1>2. PICK a \in KeyAnswers(completed = Tasks) :
          /\ keyGranted' = a.granted
          /\ keyThrew' = a.threw
          /\ Release(w, IF a.code = "NONE" THEN "completed" ELSE "failed",
                     worker[w].base, "none", a.code)
  BY DEF Finalize
<1>3. /\ a.granted \in BOOLEAN /\ a.threw \in BOOLEAN
      /\ Asked => Asked'
      /\ a.code = "NONE" => Asked'
  BY <1>2 DEF KeyAnswers, Asked
<1> DEFINE s == IF a.code = "NONE" THEN "completed" ELSE "failed"
<1>4. /\ Release(w, s, worker[w].base, "none", a.code)
      /\ s \in {"waiting_retry", "decision_required", "completed", "failed"}
      /\ s = "completed" => Asked'
  BY <1>2, <1>3
<1> HIDE DEF s
<1> QED
  BY <1>1, <1>2, <1>3, <1>4, WorkerFacts, ReleaseKeeps

LEMMA GiveUpStep ==
    ASSUME RunInv, NEW w \in Workers, GiveUp(w)
    PROVE  Preserved
<1>1. /\ Release(w, "waiting_retry", worker[w].base, "none", "RUN_THREW")
      /\ UNCHANGED <<chain, serverVars, ownerVars>>
  BY DEF GiveUp
<1>2. UNCHANGED <<completed, claimed, keyGranted, keyThrew>> /\ (Asked' <=> Asked)
  BY <1>1 DEF serverVars, keyVars, Asked
<1> QED
  BY <1>1, <1>2, WorkerFacts, ServerTypes, ReleaseKeeps

LEMMA CarriedKeeps ==
    ASSUME RunInv
    PROVE  /\ Carried(execution) \in Seq(Entry)
           /\ Keeps(Carried(execution), execution.timeline, chain, Owed)
<1>1. RunTypeOK /\ RowOK /\ execution.timeline \in Seq(Entry)
  BY Types DEF RunInv
<1>2. Covers(Carried(execution), execution.timeline, chain)
  BY <1>1, HeardKeeps, CoversItself DEF Carried, RowOK
<1> QED
  BY <1>1, <1>2, CarriedIsJournal DEF RowOK, Keeps

LEMMA AcquireStep ==
    ASSUME RunInv, NEW w \in Workers, Acquire(w)
    PROVE  Preserved
<1> DEFINE T == Carried(execution)
           step == IF execution.resolution = "finalize" THEN "finalize" ELSE "read"
           m == [Idle EXCEPT !.pc = step, !.current = TRUE, !.base = T, !.timeline = T]
<1>1. /\ execution' = [execution EXCEPT !.holder = w]
      /\ worker' = [v \in Workers |->
            IF v = w THEN m ELSE [worker[v] EXCEPT !.current = FALSE]]
      /\ UNCHANGED <<chain, serverVars, ownerVars>>
  BY Zenon DEF Acquire, Carried
<1>2. /\ UNCHANGED <<chain, completed, claimed, keyGranted, keyThrew, answers, waived>>
      /\ (Asked' <=> Asked)
  BY <1>1 DEF serverVars, keyVars, ownerVars, Asked
<1>3. RunTypeOK
  BY DEF RunInv
<1>4. T \in Seq(Entry) /\ Keeps(T, execution.timeline, chain, Owed)
  BY CarriedKeeps
<1>5. step \in {"finalize", "read"}
  OBVIOUS
<1> HIDE DEF T, step
<1>6. /\ m \in WorkerMemory
      /\ m.pc = step /\ m.base = T /\ m.timeline = T
  BY <1>4, <1>5, IdleIsMemory DEF WorkerMemory, Steps
<1> HIDE DEF m
<1>7. Hushed(w) /\ worker'[w] = m
  BY <1>1, <1>3, <1>6, Takes
<1>8. Others(w)
  BY <1>3, <1>7, OthersAre
<1>9. /\ execution' \in ExecutionRow
      /\ execution'.timeline = execution.timeline
      /\ execution'.resolution = execution.resolution
      /\ execution'.status = execution.status
  BY <1>1, <1>3, Types DEF ExecutionRow
<1>10. StepOK(m) /\ JournalsOK(m, execution.timeline, chain, Owed)
  BY <1>4, <1>5, <1>6 DEF StepOK, JournalsOK, Keeps
<1>11. RowOK' /\ MemoriesOK'
  BY <1>2, <1>5, <1>6, <1>7, <1>8, <1>9, <1>10, KeptKeeps
<1>12. ReportsOK' /\ CompletedHasKey'
  BY <1>2, <1>5, <1>6, <1>7, <1>8, <1>9, ReportsKeep
<1>13. RunTypeOK'
  BY <1>2, <1>3, <1>7, <1>9 DEF RunTypeOK, Hushed
<1> QED
  BY <1>9, <1>11, <1>12, <1>13, CoversItself DEF Preserved, RunInv

----------------------------------------------------------------------------
\* The chain and the owner.

\* The chain moves under the row and every memory, and what is owed with it.
LEMMA ChainMoves ==
    ASSUME RunInv, UNCHANGED <<execution, answers, waived>>,
           \A t \in Tasks : Owed'[t] <= Owed[t] /\ Owed'[t] \in Int,
           \A T \in Seq(Entry) : Sound(T, chain) =>
                /\ Sound(T, chain')
                /\ Accounts(T, chain, Owed) => Accounts(T, chain', Owed')
                /\ Covers(T, execution.timeline, chain)
                        => Covers(T, execution.timeline, chain')
    PROVE  /\ RowOK'
           /\ \A m \in WorkerMemory :
                JournalsOK(m, execution.timeline, chain, Owed)
                    => JournalsOK(m, execution.timeline, chain', Owed')
<1>1. /\ RunTypeOK /\ RowOK
      /\ execution.timeline \in Seq(Entry) /\ Carried(execution) \in Seq(Entry)
      /\ \A t \in Tasks : Owed[t] \in Int
  BY Types, CarriedKeeps, OwedTypes DEF RunInv
<1>2. RowOK'
  <2>1. Sound(execution.timeline, chain')
    BY <1>1 DEF RowOK
  <2>2. Sound(Carried(execution), chain') /\ Accounts(Carried(execution), chain', Owed')
    BY <1>1 DEF RowOK
  <2>3. \A t \in Tasks : Owed'[t] <= 1
    BY <1>1 DEF RowOK
  <2> QED
    BY <1>1, <2>1, <2>2, <2>3 DEF RowOK
<1>3. ASSUME NEW m \in WorkerMemory, JournalsOK(m, execution.timeline, chain, Owed)
      PROVE  JournalsOK(m, execution.timeline, chain', Owed')
  <2>1. m.base \in Seq(Entry) /\ m.timeline \in Seq(Entry)
    BY DEF WorkerMemory
  <2> QED
    BY <1>3, <2>1 DEF JournalsOK, Keeps
<1> QED
  BY <1>2, <1>3

LEMMA MineStep ==
    ASSUME RunInv, Mine
    PROVE  Preserved
<1>1. PICK i \in DOMAIN chain, s \in {"success", "reverted"} :
        /\ chain[i].status = "pending"
        /\ chain' = [chain EXCEPT ![i].status = s]
  BY DEF Mine
<1>2. /\ UNCHANGED <<execution, worker, completed, claimed, keyGranted, keyThrew, answers, waived>>
      /\ (Asked' <=> Asked)
  BY DEF Mine, serverVars, keyVars, ownerVars, Asked
<1>3. RunTypeOK /\ chain \in Seq(ChainEntry) /\ execution.timeline \in Seq(Entry)
  BY Types DEF RunInv
<1>4. /\ DOMAIN chain = 1..Len(chain) /\ chain[i] \in ChainEntry
  BY <1>3, LenProperties, ElementOfSeq
<1>5. PICK tx \in ChainEntry : tx = chain[i]
  BY <1>4
<1> DEFINE new == [tx EXCEPT !.status = s]
<1>6. new \in ChainEntry /\ new.task = tx.task /\ new.status = s
  BY DEF ChainEntry
<1>7. chain' = [chain EXCEPT ![i] = new]
  BY <1>1, <1>5
<1> HIDE DEF new
<1>8. /\ chain' \in Seq(ChainEntry) /\ Len(chain') = Len(chain)
      /\ DOMAIN chain' = DOMAIN chain
      /\ \A j \in DOMAIN chain \ {i} : chain'[j] = chain[j]
      /\ chain'[i] = new
  BY <1>3, <1>4, <1>6, <1>7, ExceptSeq
<1>9. PICK mined \in Seq(ChainEntry) : mined = chain'
  BY <1>8
<1>10. /\ DOMAIN mined = DOMAIN chain /\ mined[i].status = s
       /\ \A j \in DOMAIN chain \ {i} : mined[j] = chain[j]
       /\ \A j \in DOMAIN chain : mined[j].task = chain[j].task
  BY <1>5, <1>6, <1>8, <1>9
<1>11. /\ \A T \in Seq(Entry) : Sound(T, chain) =>
            /\ Sound(T, mined)
            /\ \A t \in Tasks : Cardinality(Known(T, chain, t)) - Cardinality(Known(T, mined, t))
                    <= Cardinality(Out(chain, t)) - Cardinality(Out(mined, t))
       /\ \A T, saved : Sound(saved, chain) /\ Covers(T, saved, chain)
            => Covers(T, saved, mined)
       /\ \A t \in Tasks : Cardinality(Out(mined, t)) <= Cardinality(Out(chain, t))
  BY <1>1, <1>3, <1>10, MinedKeeps
<1>12. ASSUME NEW t \in Tasks
       PROVE  /\ Owed'[t] - Owed[t] = Cardinality(Out(mined, t)) - Cardinality(Out(chain, t))
              /\ Owed'[t] \in Int /\ Owed[t] \in Int
              /\ Cardinality(Out(mined, t)) \in Nat /\ Cardinality(Out(chain, t)) \in Nat
  <2>1. Sending(t)' = Sending(t)
    BY <1>2 DEF Sending
  <2>2. Owed'[t] = Cardinality(Out(mined, t)) + Cardinality(Sending(t)) - waived[t]
    BY <1>2, <1>9, <2>1, OwedNext
  <2>3. Cardinality(Out(mined, t)) \in Nat
    BY OutIsFinite
  <2> QED
    BY <1>3, <2>2, <2>3, OwedTypes
<1>13. ASSUME NEW T \in Seq(Entry), Sound(T, chain), Accounts(T, chain, Owed)
       PROVE  Accounts(T, mined, Owed')
  <2> SUFFICES ASSUME NEW t \in Tasks PROVE Owed'[t] <= Cardinality(Known(T, mined, t))
    BY DEF Accounts
  <2>1. Owed[t] <= Cardinality(Known(T, chain, t))
    BY <1>13 DEF Accounts
  <2>2. Cardinality(Known(T, chain, t)) \in Nat /\ Cardinality(Known(T, mined, t)) \in Nat
    BY KnownIsFinite
  <2>3. Cardinality(Known(T, chain, t)) - Cardinality(Known(T, mined, t))
            <= Cardinality(Out(chain, t)) - Cardinality(Out(mined, t))
    BY <1>11, <1>13
  <2> QED
    BY <1>12, <2>1, <2>2, <2>3
<1>14. Sound(execution.timeline, chain)
  BY DEF RunInv, RowOK
<1>15. \A t \in Tasks : Owed'[t] <= Owed[t] /\ Owed'[t] \in Int
  BY <1>11, <1>12
<1>16. \A T \in Seq(Entry) : Sound(T, chain) =>
            /\ Sound(T, chain')
            /\ Accounts(T, chain, Owed) => Accounts(T, chain', Owed')
            /\ Covers(T, execution.timeline, chain)
                    => Covers(T, execution.timeline, chain')
  BY <1>9, <1>11, <1>13, <1>14
<1>17. /\ RowOK'
       /\ \A m \in WorkerMemory :
            JournalsOK(m, execution.timeline, chain, Owed)
                => JournalsOK(m, execution.timeline, chain', Owed')
  BY <1>2, <1>15, <1>16, ChainMoves
<1>18. MemoriesOK'
  <2> SUFFICES ASSUME NEW v \in Workers
               PROVE  /\ StepOK(worker[v])
                      /\ JournalsOK(worker[v], execution.timeline, chain', Owed')
    BY <1>2 DEF MemoriesOK
  <2> QED
    BY <1>3, <1>17, Types DEF RunInv, MemoriesOK
<1>19. RunTypeOK'
  BY <1>2, <1>3, <1>8 DEF RunTypeOK, ChainEntry
<1>20. ReportsOK' /\ CompletedHasKey'
  BY <1>2 DEF RunInv, ReportsOK, CompletedHasKey
<1> QED
  BY <1>2, <1>17, <1>18, <1>19, <1>20, CoversItself DEF Preserved, RunInv

LEMMA SendStep ==
    ASSUME RunInv, NEW w \in Workers, Send(w)
    PROVE  Preserved
<1>1. /\ worker[w].pc = "send"
      /\ UNCHANGED <<execution, serverVars, ownerVars>>
  BY DEF Send, At
<1>2. /\ UNCHANGED <<execution, completed, claimed, keyGranted, keyThrew, answers, waived>>
      /\ (Asked' <=> Asked)
  BY <1>1 DEF serverVars, keyVars, ownerVars, Asked
<1>3. /\ RunTypeOK /\ chain \in Seq(ChainEntry) /\ Len(chain) <= MaxSends /\ Len(chain) \in Nat
  BY Types, LenProperties DEF RunInv
<1>4. PICK m \in WorkerMemory : m = worker[w]
  BY Types DEF RunInv
<1>5. /\ m.task \in Tasks /\ m.timeline # <<>>
      /\ LastOf(m).task = m.task /\ LastOf(m).status = "broadcasting"
      /\ m.timeline \in Seq(Entry)
      /\ DOMAIN m.timeline = 1..Len(m.timeline) /\ Len(m.timeline) \in Nat
      /\ Sound(m.timeline, chain)
  BY <1>1, <1>4, WorkerFacts DEF StepOK
<1> DEFINE tx == [task |-> m.task, status |-> "pending"]
           sent == Append(chain, tx)
           n == Len(sent)
           last == Len(m.timeline)
           entry == [task |-> m.task, status |-> "submitted", tx |-> n]
           U == [m.timeline EXCEPT ![last] = entry]
           told == [m EXCEPT !.pc = "submitted", !.timeline = U]
           unsure == [m EXCEPT !.pc = "unsure"]
<1>6. /\ tx \in ChainEntry /\ tx.task = m.task /\ tx.status = "pending"
  BY <1>5 DEF ChainEntry
<1> HIDE DEF tx
<1>7. \/ /\ Len(chain) < MaxSends /\ chain' = sent
         /\ worker' = [worker EXCEPT ![w] = told]
      \/ /\ Len(chain) < MaxSends /\ chain' = sent
         /\ worker' = [worker EXCEPT ![w] = unsure]
      \/ /\ chain' = chain
         /\ worker' = [worker EXCEPT ![w] = unsure]
  BY <1>4, Zenon DEF Send, Become, tx
<1>8. /\ unsure \in WorkerMemory
      /\ unsure.timeline = m.timeline /\ unsure.base = m.base /\ unsure.current = m.current
      /\ unsure.pc = "unsure" /\ StepOK(unsure)
  BY DEF WorkerMemory, Steps, StepOK
<1> HIDE DEF unsure
<1>9. CASE chain' = chain /\ worker' = [worker EXCEPT ![w] = unsure]
  BY <1>1, <1>2, <1>4, <1>8, <1>9, ServerTypes, EditKeeps
<1>10. /\ sent \in Seq(ChainEntry) /\ Len(sent) = n /\ n = Len(chain) + 1 /\ sent[n] = tx /\ DOMAIN sent = 1..n
  BY <1>3, <1>6
<1>11. /\ \A T : Sound(T, chain) =>
            /\ Sound(T, sent)
            /\ \A t : Known(T, sent, t) = Known(T, chain, t)
            /\ \A saved : Sound(saved, chain) /\ Covers(T, saved, chain)
                    => Covers(T, saved, sent)
       /\ \A t \in Tasks : Cardinality(Out(sent, t)) =
            IF t = m.task THEN Cardinality(Out(chain, t)) + 1
            ELSE Cardinality(Out(chain, t))
       /\ \A T : Sound(T, chain) => \A j \in DOMAIN T : T[j].tx # n
  BY <1>3, <1>6, <1>10, SentKeeps
<1> HIDE DEF sent, n
<1>12. ASSUME chain' = sent, Len(chain) < MaxSends,
              NEW memory \in WorkerMemory, worker' = [worker EXCEPT ![w] = memory],
              memory.pc \in {"submitted", "unsure"},
              StepOK(memory),
              JournalsOK(m, execution.timeline, sent, Owed')
                => JournalsOK(memory, execution.timeline, sent, Owed')
       PROVE  Preserved
  <2>1. Alone(w) /\ worker'[w] = memory
    BY <1>3, <1>12, Becomes
  <2>2. Others(w)
    BY <1>3, <2>1, OthersAre
  <2>3. ASSUME NEW t \in Tasks
        PROVE  Owed'[t] <= Owed[t] /\ Owed'[t] \in Int /\ Owed[t] \in Int
    <3>1. Owed'[t] = Cardinality(Out(sent, t)) + Cardinality(Sending(t)') - waived[t]
      BY <1>2, <1>12, OwedNext
    <3>2. /\ Cardinality(Sending(t)') <= Cardinality(Sending(t))
          /\ t = m.task => Cardinality(Sending(t)') = Cardinality(Sending(t)) - 1
      BY <1>1, <1>4, <1>12, <2>1, <2>2, SendingMoves
    <3>3. Cardinality(Sending(t)') \in Nat
      BY SendingIsFiniteNext
    <3>4. Cardinality(Out(sent, t)) = IF t = m.task THEN Cardinality(Out(chain, t)) + 1
                                      ELSE Cardinality(Out(chain, t))
      BY <1>11
    <3> QED
      BY <1>3, <3>1, <3>2, <3>3, <3>4, OwedTypes
  <2>4. \A T \in Seq(Entry) : Sound(T, chain) =>
            /\ Sound(T, chain')
            /\ Accounts(T, chain, Owed) => Accounts(T, chain', Owed')
            /\ Covers(T, execution.timeline, chain)
                    => Covers(T, execution.timeline, chain')
    <3>1. Sound(execution.timeline, chain)
      BY DEF RunInv, RowOK
    <3>2. \A T \in Seq(Entry) : Sound(T, chain) /\ Accounts(T, chain, Owed)
                => Accounts(T, sent, Owed')
      <4> SUFFICES ASSUME NEW T \in Seq(Entry), Sound(T, chain), Accounts(T, chain, Owed)
                   PROVE  Accounts(T, sent, Owed')
        OBVIOUS
      <4>1. Accounts(T, sent, Owed)
        BY <1>11 DEF Accounts
      <4> QED
        BY <2>3, <4>1, AccountsForLess
    <3> QED
      BY <1>11, <1>12, <3>1, <3>2
  <2>5. /\ RowOK'
        /\ \A k \in WorkerMemory :
            JournalsOK(k, execution.timeline, chain, Owed)
                => JournalsOK(k, execution.timeline, chain', Owed')
    BY <1>2, <2>3, <2>4, ChainMoves
  <2>6. MemoriesOK'
    <3> SUFFICES ASSUME NEW v \in Workers
                 PROVE  /\ StepOK(worker'[v])
                        /\ JournalsOK(worker'[v], execution.timeline, chain', Owed')
      BY <1>2 DEF MemoriesOK
    <3>1. /\ worker[v] \in WorkerMemory /\ StepOK(worker[v])
          /\ JournalsOK(worker[v], execution.timeline, chain', Owed')
      BY <1>3, <2>5, Types DEF RunInv, MemoriesOK
    <3>2. CASE v = w
      BY <1>4, <1>12, <2>1, <3>1, <3>2
    <3>3. CASE v # w
      BY <2>1, <3>1, <3>3 DEF Alone
    <3> QED
      BY <3>2, <3>3
  <2>7. ReportsOK' /\ CompletedHasKey'
    BY <1>2, <1>12, <2>1, <2>2, ReportsKeep
  <2>8. RunTypeOK'
    <3>1. Len(chain') <= MaxSends
      BY <1>3, <1>10, <1>12, RunAssumption
    <3> QED
      BY <1>2, <1>3, <1>10, <1>12, <2>1, <3>1 DEF RunTypeOK, Alone, ChainEntry
  <2> QED
    BY <1>2, <2>5, <2>6, <2>7, <2>8, CoversItself DEF Preserved, RunInv
<1>13. CASE /\ Len(chain) < MaxSends /\ chain' = sent
            /\ worker' = [worker EXCEPT ![w] = unsure]
  <2>1. JournalsOK(m, execution.timeline, sent, Owed')
            => JournalsOK(unsure, execution.timeline, sent, Owed')
    BY <1>1, <1>4, <1>8 DEF JournalsOK
  <2> QED
    BY <1>8, <1>12, <1>13, <2>1
<1>14. CASE /\ Len(chain) < MaxSends /\ chain' = sent
            /\ worker' = [worker EXCEPT ![w] = told]
  <2>1. last \in DOMAIN m.timeline /\ LastOf(m) = m.timeline[last]
    BY <1>5, EmptySeq DEF LastOf
  <2>2. /\ entry \in Entry
        /\ entry.task = m.task /\ entry.status = "submitted" /\ entry.tx = n
    <3>1. n \in 0..MaxSends
      BY <1>3, <1>10, <1>14, RunAssumption
    <3> QED
      BY <1>5, <3>1 DEF Entry
  <2> HIDE DEF entry
  <2>3. /\ U \in Seq(Entry) /\ DOMAIN U = DOMAIN m.timeline /\ Len(U) = Len(m.timeline)
        /\ U[last] = entry
        /\ \A j \in DOMAIN m.timeline \ {last} : U[j] = m.timeline[j]
    BY <1>5, <2>1, <2>2, ExceptSeq
  <2> HIDE DEF U
  <2>4. /\ told \in WorkerMemory
        /\ told.pc = "submitted" /\ told.timeline = U /\ told.task = m.task
        /\ told.base = m.base /\ told.current = m.current
    BY <2>3 DEF WorkerMemory, Steps
  <2> HIDE DEF told
  <2>5. StepOK(told)
    <3>1. LastOf(told) = entry
      BY <2>3, <2>4 DEF LastOf
    <3>2. told.timeline # <<>>
      BY <2>1, <2>3, <2>4
    <3> QED
      BY <1>5, <2>2, <2>4, <3>1, <3>2 DEF StepOK
  <2>6. EntryOK(U[last], sent) /\ Counts(U[last], sent)
    BY <1>3, <1>6, <1>10, <2>2, <2>3 DEF EntryOK, Counts, Live
  <2>7. Counts(m.timeline[last], sent) /\ m.timeline[last].tx = 0
    BY <1>5, <2>1 DEF Counts, Sound, EntryOK
  <2>8. Sound(m.timeline, sent) /\ \A j \in DOMAIN m.timeline : m.timeline[j].tx # U[last].tx
    BY <1>5, <1>11, <2>2, <2>3
  <2>9. U[last].task = m.timeline[last].task
    BY <1>5, <2>1, <2>2, <2>3
  <2> HIDE DEF last
  <2>10. /\ Sound(U, sent)
         /\ \A t : Known(U, sent, t) = Known(m.timeline, sent, t)
         /\ \A saved : Covers(m.timeline, saved, sent) => Covers(U, saved, sent)
    BY <2>1, <2>3, <2>6, <2>7, <2>8, <2>9, MarkedKeeps
  <2>11. JournalsOK(m, execution.timeline, sent, Owed')
            => JournalsOK(told, execution.timeline, sent, Owed')
    BY <1>1, <1>4, <2>4, <2>10 DEF JournalsOK, Keeps, Accounts
  <2> QED
    BY <1>12, <1>14, <2>4, <2>5, <2>11
<1> QED
  BY <1>7, <1>9, <1>13, <1>14

LEMMA AnswerStep ==
    ASSUME RunInv, NEW resolution \in {"retry", "finalize", "cancel"}, Answer(resolution)
    PROVE  Preserved
<1> DEFINE E == execution.timeline
           status == IF resolution = "cancel" THEN "failed" ELSE "waiting_retry"
           resolved == IF resolution = "cancel" THEN "none" ELSE resolution
           redo(t) == IF resolution # "retry" THEN 0 ELSE Cardinality(Unsure(E, t))
<1>1. /\ answers < MaxAnswers /\ execution.status = "decision_required"
      /\ execution' = [execution EXCEPT !.status = status, !.question = "none",
                                        !.resolution = resolved]
      /\ worker' = [v \in Workers |-> [worker[v] EXCEPT !.current = FALSE]]
      /\ answers' = answers + 1
      /\ UNCHANGED <<chain, serverVars>>
  BY DEF Answer
<1>2. waived' = [t \in Tasks |-> waived[t] + redo(t)]
  BY DEF Answer, Unsure
<1>3. /\ UNCHANGED <<chain, completed, claimed, keyGranted, keyThrew>>
      /\ (Asked' <=> Asked)
  BY <1>1 DEF serverVars, keyVars, Asked
<1>4. /\ RunTypeOK /\ RowOK /\ MemoriesOK
      /\ E \in Seq(Entry) /\ waived \in [Tasks -> Nat]
      /\ answers \in Nat
      /\ Sound(E, chain) /\ Carried(execution) = E
  BY <1>1, Types DEF RunInv, RowOK, Carried
<1>5. \A t \in Tasks : redo(t) \in Nat
  <2>1. \A t : Unsure(E, t) \in SUBSET DOMAIN E
    BY DEF Unsure
  <2>2. IsFiniteSet(DOMAIN E)
    BY <1>4, LenProperties, FS_Interval
  <2> QED
    BY <2>1, <2>2, FS_Subset, FS_CardinalityType
<1>6. /\ execution' \in ExecutionRow
      /\ execution'.timeline = E /\ execution'.status = status
      /\ execution'.resolution = resolved
  BY <1>1, <1>4, Types DEF ExecutionRow
<1>7. /\ worker' \in [Workers -> WorkerMemory]
      /\ \A v \in Workers : Same(worker'[v], worker[v]) /\ ~ worker'[v].current
  BY <1>1, <1>4, Types, Hush
<1>8. ASSUME NEW t \in Tasks
      PROVE  Owed'[t] = Owed[t] - redo(t) /\ Owed[t] \in Int
  <2>1. Sending(t)' = Sending(t)
    BY <1>7 DEF Sending, Same
  <2>2. Owed'[t] = Cardinality(Out(chain, t)) + Cardinality(Sending(t)) - (waived[t] + redo(t))
    BY <1>2, <1>3, <2>1, OwedNext
  <2> HIDE DEF redo
  <2> QED
    BY <1>4, <1>5, <2>2, OwedTypes
<1>9. Sound(Carried(execution'), chain) /\ Accounts(Carried(execution'), chain, Owed')
  <2>1. \A t \in Tasks : Owed[t] <= Cardinality(Known(E, chain, t))
    BY <1>4 DEF RowOK, Accounts
  <2>2. CASE resolution = "retry"
    <3>1. Carried(execution') = Heard(E)
      BY <1>6, <2>2 DEF Carried
    <3>2. /\ Heard(E) \in Seq(Entry) /\ Sound(Heard(E), chain)
          /\ \A t : Cardinality(Known(E, chain, t))
                        <= Cardinality(Unsure(E, t)) + Cardinality(Known(Heard(E), chain, t))
      BY <1>4, HeardKeeps
    <3>3. ASSUME NEW t \in Tasks PROVE Owed'[t] <= Cardinality(Known(Heard(E), chain, t))
      <4>1. redo(t) = Cardinality(Unsure(E, t))
        BY <2>2
      <4>2. /\ Cardinality(Known(E, chain, t)) \in Nat
            /\ Cardinality(Known(Heard(E), chain, t)) \in Nat
        BY <1>4, <3>2, KnownIsFinite
      <4>3. redo(t) \in Nat
        BY <1>5
      <4> HIDE DEF redo
      <4> QED
        BY <1>8, <2>1, <3>2, <4>1, <4>2, <4>3
    <3> QED
      BY <3>1, <3>2, <3>3 DEF Accounts
  <2>3. CASE resolution # "retry"
    <3>1. Carried(execution') = E
      BY <1>6, <2>3 DEF Carried
    <3>2. \A t \in Tasks : Owed'[t] = Owed[t]
      BY <1>8, <2>3
    <3> QED
      BY <1>4, <2>1, <3>1, <3>2 DEF Accounts
  <2> QED
    BY <2>2, <2>3
<1>10. RowOK'
  <2>1. \A t \in Tasks : Owed'[t] <= 1
    <3> HIDE DEF redo
    <3> QED
      BY <1>4, <1>5, <1>8 DEF RowOK
  <2>2. execution'.status # "decision_required" /\ answers' # 0
    BY <1>1, <1>4, <1>6
  <2> QED
    BY <1>3, <1>4, <1>6, <1>9, <2>1, <2>2 DEF RowOK
<1>11. MemoriesOK'
  <2> SUFFICES ASSUME NEW v \in Workers
               PROVE  /\ StepOK(worker'[v])
                      /\ JournalsOK(worker'[v], execution'.timeline, chain', Owed')
    BY DEF MemoriesOK
  <2>1. /\ StepOK(worker[v])
        /\ Sound(worker[v].base, chain) /\ Sound(worker[v].timeline, chain)
    BY <1>4 DEF MemoriesOK, JournalsOK
  <2>2. Same(worker'[v], worker[v]) /\ ~ worker'[v].current
    BY <1>7
  <2>3. StepOK(worker'[v])
    BY <2>1, <2>2 DEF Same, StepOK, LastOf
  <2> QED
    BY <1>3, <2>1, <2>2, <2>3 DEF Same, JournalsOK
<1>12. ReportsOK' /\ CompletedHasKey'
  <2>1. ReportsOK'
    BY <1>3, <1>7 DEF RunInv, ReportsOK, Same
  <2> QED
    BY <1>6, <2>1 DEF CompletedHasKey
<1>13. RunTypeOK'
  <2>1. waived' \in [Tasks -> Nat]
    <3> HIDE DEF redo
    <3> QED
      BY <1>2, <1>4, <1>5
  <2>2. answers' \in 0..MaxAnswers
    BY <1>1, <1>4, RunAssumption
  <2> QED
    BY <1>3, <1>4, <1>6, <1>7, <2>1, <2>2 DEF RunTypeOK
<1> QED
  BY <1>6, <1>10, <1>11, <1>12, <1>13, CoversItself DEF Preserved, RunInv

----------------------------------------------------------------------------
\* The whole.

LEMMA RunStarts == RunInit => RunInv
<1> SUFFICES ASSUME RunInit PROVE RunInv
  OBVIOUS
<1>1. /\ chain = <<>> /\ answers = 0 /\ completed = {} /\ claimed = {}
      /\ keyGranted = FALSE /\ keyThrew = FALSE
      /\ worker = [w \in Workers |-> Idle] /\ waived = [t \in Tasks |-> 0]
      /\ execution \in ExecutionRow
      /\ execution.timeline = <<>> /\ execution.status = "planning"
      /\ execution.resolution = "none"
  <2>1. <<>> \in Seq(Entry)
    BY EmptySeq
  <2> QED
    BY <2>1 DEF RunInit, ExecutionRow
<1>2. RunTypeOK
  <2>1. worker \in [Workers -> WorkerMemory] /\ waived \in [Tasks -> Nat]
    BY <1>1, IdleIsMemory
  <2>2. chain \in Seq(ChainEntry) /\ Len(chain) <= MaxSends
    BY <1>1, RunAssumption
  <2>3. answers \in 0..MaxAnswers
    BY <1>1, RunAssumption
  <2> QED
    BY <1>1, <2>1, <2>2, <2>3 DEF RunTypeOK, ChainEntry
<1>3. \A t \in Tasks : Owed[t] = 0
  <2> SUFFICES ASSUME NEW t \in Tasks PROVE Owed[t] = 0
    OBVIOUS
  <2>1. Out(chain, t) = {} /\ Sending(t) = {}
    BY <1>1, IdleIsMemory DEF Out, Sending
  <2>2. Cardinality(Out(chain, t)) = 0 /\ Cardinality(Sending(t)) = 0
    BY <2>1, FS_EmptySet
  <2> QED
    BY <1>1, <2>2 DEF Owed
<1>4. Accounts(<<>>, chain, Owed)
  <2>1. \A t : Cardinality(Known(<<>>, chain, t)) \in Nat
    BY EmptySeq, KnownIsFinite
  <2> QED
    BY <1>3, <2>1 DEF Accounts
<1>5. RowOK
  BY <1>1, <1>3, <1>4, EmptyIsSound DEF RowOK, Carried
<1>6. MemoriesOK /\ ReportsOK
  BY <1>1, IdleIsMemory, IdleIsOK DEF MemoriesOK, ReportsOK
<1> QED
  BY <1>1, <1>2, <1>5, <1>6 DEF RunInv, CompletedHasKey

LEMMA RunSteps == RunInv /\ [RunNext]_runVars => Preserved
<1> SUFFICES ASSUME RunInv, [RunNext]_runVars PROVE Preserved
  OBVIOUS
<1>1. CASE \E w \in Workers : CycleNext(w)
  <2>1. PICK w \in Workers : CycleNext(w)
    BY <1>1
  <2> QED
    BY <2>1, AcquireStep, LeaveRunStep, ReadRunStep, StopUnsureStep, RecheckStep,
       SettleStep, PlanStep, PrepareStep, SendStep, SubmittedStep, ReceiptStep,
       CloseStep, FinishStep, FinalizeEarlyStep, FinalizeStep, GiveUpStep, CrashStep
       DEF CycleNext
<1>2. CASE \E resolution \in {"retry", "finalize", "cancel"} : Answer(resolution)
  BY <1>2, AnswerStep
<1>3. CASE Mine
  BY <1>3, MineStep
<1>4. CASE UNCHANGED runVars
  <2>1. UNCHANGED <<execution, worker, chain, completed, claimed, keyGranted, keyThrew,
                    answers, waived>>
    BY <1>4 DEF runVars, keyVars
  <2>2. RunTypeOK' /\ CompletedHasKey' /\ ReportsOK'
    BY <2>1 DEF RunInv, RunTypeOK, CompletedHasKey, ReportsOK, Asked
  <2>3. Owed' = Owed
    BY <2>1 DEF Owed, Sending
  <2>4. RowOK' /\ MemoriesOK'
    BY <2>1, <2>3 DEF RunInv, RowOK, MemoriesOK
  <2> QED
    BY <2>1, <2>2, <2>4, CoversItself DEF Preserved, RunInv
<1> QED
  BY <1>1, <1>2, <1>3, <1>4 DEF RunNext

LEMMA RunIsInvariant == RunSpec => []RunInv
<1>1. RunInv /\ [RunNext]_runVars => RunInv'
  BY RunSteps DEF Preserved
<1> QED
  BY <1>1, RunStarts, PTL DEF RunSpec

\* The state of a run, its workers and its chain keeps its type.
THEOREM RunTypeCorrect == RunSpec => []RunTypeOK
<1>1. RunInv => RunTypeOK
  BY DEF RunInv
<1> QED
  BY <1>1, RunIsInvariant, PTL

\* No task has two transactions out or landed beyond what the owner let the run
\* redo, however many workers there are and wherever they crash, lose their lease
\* or miss the answer to a checkpoint (run.ts:722-740, 969-992, worker.ts:436-458).
THEOREM NoTaskIsSentTwice == RunSpec => []OneLiveSend
<1>1. RunInv => OneLiveSend
  <2> SUFFICES ASSUME RunInv, NEW t \in Tasks
               PROVE  Cardinality({i \in DOMAIN chain :
                         chain[i].task = t /\ chain[i].status # "reverted"}) <= 1 + waived[t]
    BY DEF OneLiveSend
  <2>1. Owed[t] <= 1
    BY DEF RunInv, RowOK
  <2>2. Cardinality(Out(chain, t)) <= 1 + waived[t]
    BY <2>1, OwedTypes DEF RunInv
  <2> QED
    BY <2>2 DEF Out, Live
<1> QED
  BY <1>1, RunIsInvariant, PTL

\* Until the owner is asked, whoever takes the run over finds every transaction
\* that was sent in the saved journal, by its hash or as broadcasting
\* (run.ts:969-992).
THEOREM EverySendIsJournaled == RunSpec => []SentIsJournaled
<1>1. RunInv => SentIsJournaled
  <2> SUFFICES ASSUME RunInv, answers = 0,
                      NEW i \in DOMAIN chain, chain[i].status # "reverted"
               PROVE  \E e \in Range(execution.timeline) :
                         /\ e.task = chain[i].task
                         /\ e.status = "broadcasting" \/ e.tx = i
    BY DEF SentIsJournaled
  <2> DEFINE E == execution.timeline
             t == chain[i].task
  <2>1. /\ RunTypeOK /\ RowOK
        /\ E \in Seq(Entry) /\ chain \in Seq(ChainEntry)
    BY Types DEF RunInv
  <2>2. t \in Tasks
    <3>1. DOMAIN chain = 1..Len(chain)
      BY <2>1, LenProperties
    <3>2. chain[i] \in ChainEntry
      BY <2>1, <3>1, ElementOfSeq
    <3> QED
      BY <3>2 DEF ChainEntry
  <2> HIDE DEF t
  <2>3. /\ Sound(E, chain) /\ waived[t] = 0 /\ Owed[t] <= 1
        /\ Owed[t] <= Cardinality(Known(E, chain, t))
    BY <2>1, <2>2 DEF RowOK, Carried, Accounts
  <2>4. i \in Out(chain, t)
    BY DEF Out, Live, t
  <2>5. IsFiniteSet(Out(chain, t)) /\ Cardinality(Out(chain, t)) \in Nat
    BY <2>1, OutIsFinite
  <2>6. Cardinality(Out(chain, t)) # 0
    BY <2>4, <2>5, FS_EmptySet
  <2>7. Cardinality(Out(chain, t)) = 1 /\ Cardinality(Known(E, chain, t)) # 0
    BY <2>1, <2>2, <2>3, <2>5, <2>6, OwedTypes, KnownIsFinite
  <2>8. PICK x : Out(chain, t) = {x}
    BY <2>5, <2>7, FS_Singleton
  <2>9. Known(E, chain, t) # {}
    BY <2>7, FS_EmptySet
  <2>10. PICK j \in DOMAIN E : E[j].task = t /\ Counts(E[j], chain)
    BY <2>9 DEF Known
  <2>11. E[j].status = "broadcasting" \/ E[j].tx = i
    <3>1. EntryOK(E[j], chain)
      BY <2>3 DEF Sound
    <3>2. E[j].status # "broadcasting" => E[j].tx \in Out(chain, t)
      BY <2>10, <3>1 DEF Counts, EntryOK, Out
    <3> QED
      BY <2>4, <2>8, <3>2
  <2>12. E[j] \in Range(E)
    BY DEF Range
  <2> QED
    BY <2>10, <2>11, <2>12 DEF t
<1> QED
  BY <1>1, RunIsInvariant, PTL

\* No save of any worker drops the hash of a transaction that has not reverted
\* (worker.ts:271-315).
THEOREM HashesAreKept == RunSpec => JournalKeepsHashes
<1>1. Preserved =>
        \A e \in Range(execution.timeline) :
            HasHash(e) /\ chain[e.tx].status # "reverted"
            => \E f \in Range(execution'.timeline) : f.tx = e.tx
  BY DEF Preserved, Covers, Range, HasHash, Live
<1>2. RunInv /\ [RunNext]_runVars =>
        [\A e \in Range(execution.timeline) :
            HasHash(e) /\ chain[e.tx].status # "reverted"
            => \E f \in Range(execution'.timeline) : f.tx = e.tx]_runVars
  BY <1>1, RunSteps
<1> QED
  BY <1>2, RunIsInvariant, PTL DEF RunSpec, JournalKeepsHashes

\* A run is reported completed only with its key granted, or with a handler that
\* threw when it was asked for (run.ts:1205-1246, worker.ts:704-739).
THEOREM CompletionHasItsKey == RunSpec => []CompletedHasKey
<1>1. RunInv => CompletedHasKey
  BY DEF RunInv
<1> QED
  BY <1>1, RunIsInvariant, PTL
=============================================================================
