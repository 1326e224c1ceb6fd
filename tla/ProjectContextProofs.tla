------------------------ MODULE ProjectContextProofs ------------------------
(***************************************************************************)
(* Proofs about ProjectContext: the type invariant, that the default root  *)
(* is one of the roots, that helpers never store two roots of one id, that *)
(* a helper nobody overtakes loses nothing of what others wrote, and that  *)
(* a discovery nobody overtakes leaves the skills reconciled.              *)
(***************************************************************************)
EXTENDS ProjectContext, FiniteSetTheorems, WellFoundedInduction, SequenceTheorems, TLAPS

(***************************************************************************)
(* The inductive invariants.                                               *)
(***************************************************************************)
\* A default root and a list of roots that go together.
Listed(default, roots) ==
    \/ default \in Ids(roots)
    \/ default = NoRoot /\ roots = <<>>

\* What a removal still has: the entries it kept and those it has not looked at.
Live(call, roots) == (1 .. call.kept) \cup (call.next .. Len(roots))

\* A removal is within the list, and behind its own reading of it.
Bounded(c) ==
    Removing(c) => /\ calls[c].next \in 1 .. Len(Read(c).roots) + 1
                   /\ calls[c].kept < calls[c].next

\* What is about to be written has its default root.
Ready(c) == calls[c] # Idle /\ calls[c].phase = "ready" => Listed(calls[c].default, calls[c].roots)

\* Who shares the stored lists read the stored default root.
Shares(c) ==
    sharing /\ project # Absent /\ Holds(calls[c], project.body) => calls[c].default = project.default

\* A single removal that has moved entries of the stored lists will write, and
\* has fewer entries to write than it looked at.
Moved(c) ==
    sharing /\ project # Absent /\ Stored.shifted = {c} =>
        /\ calls[c] # Idle
        /\ \/ calls[c].phase = "ready" /\ calls[c].edit.op = "RemoveProjectRoot"
           \/ /\ calls[c].phase = "removing"
              /\ calls[c].slot = project.body
              /\ calls[c].kept + 1 < calls[c].next

\* It has the default root it will write with.
Keeps(c) ==
    (sharing /\ project # Absent /\ Removing(c) /\ calls[c].slot = project.body /\ Stored.shifted \subseteq {c}) =>
        \/ calls[c].default \in {NoRoot, calls[c].edit.id}
        \/ \E i \in Live(calls[c], Stored.roots) : Stored.roots[i].id = calls[c].default

StoredListed == project # Absent /\ Stored.shifted = {} => Listed(project.default, Stored.roots)
CopiesStay == project # Absent /\ ~sharing => Stored.shifted = {}

CallInv(c) == Bounded(c) /\ Ready(c) /\ Shares(c) /\ Moved(c) /\ Keeps(c)
IInv == TypeOK /\ StoredListed /\ CopiesStay /\ \A c \in Callers : CallInv(c)

\* In a copying store every list of roots or sources has its ids once; of a
\* list that a removal works on, the part it still has.
UniqueLists(roots, sources) == UniqueIds(roots) /\ UniqueIds(sources)
CallUnique(c) ==
    /\ calls[c] # Idle /\ calls[c].phase \in {"read", "edited"} => UniqueLists(Read(c).roots, Read(c).sources)
    /\ Removing(c) =>
          /\ UniqueIds(Read(c).sources)
          /\ \A i, j \in Live(calls[c], Read(c).roots) : Read(c).roots[i].id = Read(c).roots[j].id => i = j
    /\ calls[c] # Idle /\ calls[c].phase = "ready" => UniqueLists(calls[c].roots, calls[c].sources)
UInv == RootIdsUnique /\ (~sharing => \A c \in Callers : CallUnique(c))

-----------------------------------------------------------------------------
(* Numbers.                                                                *)

LEMMA LeastNatural ==
    ASSUME NEW T \in SUBSET Nat, T # {}
    PROVE  \E m \in T : \A k \in T : m <= k
  <1> DEFINE Up(n) == 0..n
             U == {Up(n) : n \in T}
  <1>1. U \subseteq FiniteSubsetsOf(Nat)
    <2> SUFFICES ASSUME NEW n \in T PROVE Up(n) \in FiniteSubsetsOf(Nat)
      OBVIOUS
    <2>1. IsFiniteSet(Up(n))
      BY FS_Interval
    <2> QED
      BY <2>1 DEF FiniteSubsetsOf
  <1>2. PICK x \in U : \A y \in U : ~(<<y, x>> \in StrictSubsetOrdering(Nat))
    <2>1. U # {}
      OBVIOUS
    <2>2. IsWellFoundedOn(StrictSubsetOrdering(Nat), FiniteSubsetsOf(Nat))
      BY FS_StrictSubsetOrderingWellFounded
    <2> HIDE DEF U
    <2> QED
      BY <1>1, <2>1, <2>2, WFMin
  <1>3. PICK m \in T : x = Up(m)
    OBVIOUS
  <1>4. ASSUME NEW k \in T, k < m PROVE FALSE
    <2>1. m \in Up(m) /\ m \notin Up(k)
      BY <1>4
    <2>2. Up(k) \subseteq Nat /\ Up(m) \subseteq Nat /\ Up(k) \subseteq Up(m) /\ Up(k) # Up(m)
      BY <1>4, <2>1
    <2>3. <<Up(k), Up(m)>> \in StrictSubsetOrdering(Nat)
      <3> HIDE DEF Up
      <3> QED
        BY <2>2 DEF StrictSubsetOrdering
    <2> QED
      BY <2>3, <1>2, <1>3
  <1> QED
    BY <1>4

\* A set of numbers that holds 0, and with each number below n the next, holds
\* all numbers up to n.
LEMMA InductionUpTo ==
    ASSUME NEW n \in Nat, NEW S, 0 \in S, \A k \in 0..(n - 1) : k \in S => k + 1 \in S
    PROVE  \A k \in 0..n : k \in S
  <1> DEFINE T == {k \in 0..n : k \notin S}
  <1>1. ASSUME T # {} PROVE FALSE
    <2>1. PICK m \in T : \A k \in T : m <= k
      <3>1. T \in SUBSET Nat
        OBVIOUS
      <3> HIDE DEF T
      <3> QED
        BY <1>1, <3>1, LeastNatural
    <2>2. m # 0 /\ m - 1 \in 0..(n - 1)
      BY <2>1
    <2>3. m - 1 \notin T
      BY <2>1, <2>2
    <2> QED
      BY <2>1, <2>2, <2>3
  <1> QED
    BY <1>1

-----------------------------------------------------------------------------
(* Lists of entries with an id.                                            *)

LEMMA FirstFound ==
    ASSUME NEW S, NEW list \in Seq(S), NEW id, id \in Ids(list)
    PROVE  First(list, id) \in DOMAIN list /\ list[First(list, id)].id = id
  <1> DEFINE T == {i \in DOMAIN list : list[i].id = id}
  <1>1. T \in SUBSET Nat /\ T # {}
    BY DEF Ids
  <1>2. PICK m \in T : \A k \in T : m <= k
    <2> HIDE DEF T
    <2> QED
      BY <1>1, LeastNatural
  <1>3. m \in DOMAIN list /\ list[m].id = id /\ \A j \in 1..(m - 1) : list[j].id # id
    BY <1>2
  <1>4. \E i \in DOMAIN list : list[i].id = id /\ \A j \in 1..(i - 1) : list[j].id # id
    BY <1>3
  <1> QED
    BY <1>4 DEF First

\* Two lists with the same ids at the same places.
SameIds(l, m) == Len(l) = Len(m) /\ \A i \in 1..Len(l) : l[i].id = m[i].id

LEMMA PutKeepsIds ==
    ASSUME NEW S, NEW list \in Seq(S), NEW e \in S, e.id \in Ids(list)
    PROVE  Put(list, e) \in Seq(S) /\ SameIds(list, Put(list, e))
  <1>1. First(list, e.id) \in DOMAIN list /\ list[First(list, e.id)].id = e.id
    BY FirstFound
  <1> DEFINE f == First(list, e.id)
             p == [list EXCEPT ![f] = e]
  <1> HIDE DEF f
  <1>2. f \in 1..Len(list) /\ list[f].id = e.id
    BY <1>1 DEF f
  <1>3. p \in Seq(S) /\ Len(p) = Len(list)
    BY <1>2
  <1>4. \A i \in 1..Len(list) : list[i].id = p[i].id
    BY <1>2
  <1> QED
    BY <1>3, <1>4 DEF Put, SameIds, f

LEMMA SameIdsSameSet ==
    ASSUME NEW S, NEW l \in Seq(S), NEW m \in Seq(S), SameIds(l, m)
    PROVE  Ids(l) = Ids(m) /\ (l = <<>> <=> m = <<>>) /\ (UniqueIds(l) => UniqueIds(m))
  <1>1. DOMAIN l = 1..Len(l) /\ DOMAIN m = 1..Len(m)
    OBVIOUS
  <1>2. Len(l) = Len(m) /\ \A i \in 1..Len(l) : l[i].id = m[i].id
    BY DEF SameIds
  <1>3. Ids(l) = Ids(m)
    BY <1>1, <1>2 DEF Ids
  <1>4. l = <<>> <=> m = <<>>
    BY <1>2
  <1> QED
    BY <1>1, <1>2, <1>3, <1>4 DEF UniqueIds

LEMMA AppendIds ==
    ASSUME NEW S, NEW list \in Seq(S), NEW e \in S
    PROVE  /\ Append(list, e) \in Seq(S)
           /\ Ids(Append(list, e)) = Ids(list) \cup {e.id}
           /\ UniqueIds(list) /\ e.id \notin Ids(list) => UniqueIds(Append(list, e))
  <1> DEFINE a == Append(list, e)
  <1>1. a \in Seq(S) /\ Len(a) = Len(list) + 1 /\ a[Len(list) + 1] = e
    OBVIOUS
  <1>2. \A i \in 1..Len(list) : a[i] = list[i]
    OBVIOUS
  <1> HIDE DEF a
  <1>3. DOMAIN a = 1..(Len(list) + 1) /\ DOMAIN list = 1..Len(list) /\ Len(list) \in Nat
    BY <1>1
  <1>4. Ids(a) = Ids(list) \cup {e.id}
    BY <1>1, <1>2, <1>3 DEF Ids
  <1>5. ASSUME UniqueIds(list), e.id \notin Ids(list) PROVE UniqueIds(a)
    <2> SUFFICES ASSUME NEW i \in DOMAIN a, NEW j \in DOMAIN a, a[i].id = a[j].id PROVE i = j
      BY DEF UniqueIds
    <2>1. \A k \in 1..Len(list) : a[k].id # e.id
      BY <1>2, <1>3, <1>5 DEF Ids
    <2> QED
      BY <1>1, <1>2, <1>3, <1>5, <2>1 DEF UniqueIds
  <1> QED
    BY <1>1, <1>4, <1>5 DEF a

LEMMA SubSeqIds ==
    ASSUME NEW S, NEW list \in Seq(S), NEW n \in 0..Len(list)
    PROVE  /\ SubSeq(list, 1, n) \in Seq(S)
           /\ Len(SubSeq(list, 1, n)) = n
           /\ \A i \in 1..n : SubSeq(list, 1, n)[i] = list[i]
  OBVIOUS

LEMMA AppendEntries ==
    ASSUME NEW S, NEW list \in Seq(S), NEW e \in S, NEW id
    PROVE  Entries(Append(list, e), id) = Entries(list, id) \cup IF e.id = id THEN {} ELSE {e}
  <1> DEFINE a == Append(list, e)
  <1>1. /\ DOMAIN a = (DOMAIN list) \cup {Len(list) + 1} /\ a[Len(list) + 1] = e
        /\ \A i \in DOMAIN list : a[i] = list[i]
    OBVIOUS
  <1> HIDE DEF a
  <1>2. Entries(a, id) = Entries(list, id) \cup IF e.id = id THEN {} ELSE {e}
    BY <1>1 DEF Entries
  <1> QED
    BY <1>2 DEF a

LEMMA AppendedEntry ==
    ASSUME NEW S, NEW list \in Seq(S), NEW e \in S
    PROVE  /\ Entries(Append(list, e), e.id) = Entries(list, e.id)
           /\ \A id : e.id # id => e \in Entries(Append(list, e), id)
  <1>1. ASSUME NEW id
        PROVE  Entries(Append(list, e), id) = Entries(list, id) \cup IF e.id = id THEN {} ELSE {e}
    BY AppendEntries
  <1>2. PICK a : a = Append(list, e)
    OBVIOUS
  <1>3. Entries(a, e.id) = Entries(list, e.id)
    <2>1. Entries(a, e.id) = Entries(list, e.id) \cup {}
      BY <1>1, <1>2
    <2> QED
      BY <2>1
  <1>4. ASSUME NEW id, e.id # id PROVE e \in Entries(a, id)
    <2>1. Entries(a, id) = Entries(list, id) \cup {e}
      BY <1>1, <1>2, <1>4
    <2> QED
      BY <2>1
  <1> QED
    BY <1>2, <1>3, <1>4

LEMMA PutEntries ==
    ASSUME NEW S, NEW list \in Seq(S), NEW e \in S, e.id \in Ids(list)
    PROVE  /\ Entries(Put(list, e), e.id) = Entries(list, e.id)
           /\ \A id : e.id # id => e \in Entries(Put(list, e), id)
  <1> DEFINE f == First(list, e.id)
             p == [list EXCEPT ![f] = e]
  <1>1. f \in DOMAIN list /\ list[f].id = e.id
    BY FirstFound
  <1> HIDE DEF f
  <1>2. DOMAIN p = DOMAIN list /\ p[f] = e /\ \A i \in DOMAIN list : i # f => p[i] = list[i]
    BY <1>1
  <1>3. Put(list, e) = p
    BY DEF Put, f
  <1> HIDE DEF p
  <1> QED
    BY <1>1, <1>2, <1>3 DEF Entries

\* Filtering a list by id, entry by entry.
LEMMA WithoutIds ==
    ASSUME NEW S, NEW list \in Seq(S), NEW id
    PROVE  /\ Without(list, id) \in Seq(S)
           /\ Ids(Without(list, id)) = Ids(list) \ {id}
           /\ UniqueIds(list) => UniqueIds(Without(list, id))
           /\ Entries(Without(list, id), id) = Entries(list, id)
  <1> DEFINE L == Len(list)
             Kept[n \in 0..L] ==
                 IF n = 0 THEN <<>>
                 ELSE IF list[n].id = id THEN Kept[n - 1] ELSE Append(Kept[n - 1], list[n])
             Recurs(f, n) == f = [k \in 0..n |->
                 IF k = 0 THEN <<>>
                 ELSE IF list[k].id = id THEN f[k - 1] ELSE Append(f[k - 1], list[k])]
             E == {n \in Nat : \E f : Recurs(f, n)}
  <1>1. 0 \in E
    <2> DEFINE g == [k \in 0..0 |-> <<>>]
    <2>1. Recurs(g, 0)
      OBVIOUS
    <2> QED
      BY <2>1
  <1>2. ASSUME NEW n \in Nat, n \in E PROVE n + 1 \in E
    <2>1. PICK f : Recurs(f, n)
      BY <1>2
    <2> DEFINE new == IF list[n + 1].id = id THEN f[n] ELSE Append(f[n], list[n + 1])
               g == [k \in 0..(n + 1) |-> IF k = n + 1 THEN new ELSE f[k]]
    <2>2. ASSUME NEW k \in 0..(n + 1)
          PROVE  g[k] = IF k = 0 THEN <<>>
                        ELSE IF list[k].id = id THEN g[k - 1] ELSE Append(g[k - 1], list[k])
      <3>1. CASE k = n + 1
        <4> HIDE DEF new
        <4>1. g[k] = new /\ g[k - 1] = f[n] /\ k # 0
          BY <3>1
        <4> QED
          BY <4>1, <3>1 DEF new
      <3>2. CASE k # n + 1
        <4> HIDE DEF new
        <4>1. g[k] = f[k] /\ (k # 0 => g[k - 1] = f[k - 1]) /\ k \in 0..n
          BY <3>2
        <4> QED
          BY <4>1, <2>1
      <3> QED
        BY <3>1, <3>2
    <2>3. Recurs(g, n + 1)
      <3> HIDE DEF new
      <3> QED
        BY <2>2
    <2>4. \E h : Recurs(h, n + 1)
      <3> HIDE DEF g, Recurs
      <3> QED
        BY <2>3
    <2> HIDE DEF Recurs
    <2> QED
      BY <2>4
  <1>3. L \in Nat
    OBVIOUS
  <1>4. L \in E
    <2> HIDE DEF E, L
    <2>1. \A k \in 0..(L - 1) : k \in E => k + 1 \in E
      BY <1>2, <1>3
    <2>2. \A k \in 0..L : k \in E
      BY <1>1, <1>3, <2>1, InductionUpTo
    <2> QED
      BY <1>3, <2>2
  <1>5. Kept = [k \in 0..L |-> IF k = 0 THEN <<>>
                  ELSE IF list[k].id = id THEN Kept[k - 1] ELSE Append(Kept[k - 1], list[k])]
    BY <1>4
  <1>6. Without(list, id) = Kept[L]
    BY DEF Without
  <1> HIDE DEF Kept, E
  <1> DEFINE Upto(n) == {list[i].id : i \in 1..n}
             Others(n) == {list[i] : i \in {j \in 1..n : list[j].id # id}}
             Good(n) == /\ Kept[n] \in Seq(S)
                        /\ Entries(Kept[n], id) = Others(n)
                        /\ Ids(Kept[n]) = Upto(n) \ {id}
                        /\ UniqueIds(list) => UniqueIds(Kept[n])
             G == {n \in 0..L : Good(n)}
  <1>7. 0 \in G
    <2>1. Kept[0] = <<>>
      BY <1>5, <1>3
    <2>2. Ids(<<>>) = {} /\ UniqueIds(<<>>) /\ Entries(<<>>, id) = {}
      BY DEF Ids, UniqueIds, Entries
    <2>3. <<>> \in Seq(S) /\ Upto(0) = {} /\ Others(0) = {}
      OBVIOUS
    <2> HIDE DEF Upto, Others, L
    <2>4. /\ Kept[0] \in Seq(S) /\ Entries(Kept[0], id) = Others(0)
          /\ Ids(Kept[0]) = Upto(0) \ {id} /\ UniqueIds(Kept[0])
      BY <2>1, <2>2, <2>3
    <2>5. Good(0) /\ 0 \in 0..L
      BY <2>4, <1>3
    <2> HIDE DEF Good
    <2> QED
      BY <2>5
  <1>8. ASSUME NEW n \in 0..(L - 1), n \in G PROVE n + 1 \in G
    <2> DEFINE e == list[n + 1]
    <2>1. n + 1 \in 1..L /\ e \in S /\ n + 1 # 0 /\ (n + 1) - 1 = n /\ n \in Nat
      OBVIOUS
    <2>2. Kept[n + 1] = IF e.id = id THEN Kept[n] ELSE Append(Kept[n], e)
      <3>1. n + 1 \in 0..L
        BY <2>1
      <3> HIDE DEF L
      <3> QED
        BY <1>5, <2>1, <3>1
    <2>3. Upto(n + 1) = Upto(n) \cup {e.id}
      <3>1. 1..(n + 1) = (1..n) \cup {n + 1}
        BY <2>1
      <3> HIDE DEF L
      <3> QED
        BY <3>1
    <2>4. Others(n + 1) = Others(n) \cup IF e.id = id THEN {} ELSE {e}
      <3>1. 1..(n + 1) = (1..n) \cup {n + 1}
        BY <2>1
      <3>2. \A m, z : z \in Others(m) <=> \E i \in 1..m : list[i].id # id /\ z = list[i]
        OBVIOUS
      <3> HIDE DEF L, Others
      <3>3. ASSUME NEW z PROVE z \in Others(n + 1) <=> z \in Others(n) \/ (e.id # id /\ z = e)
        <4>1. z \in Others(n + 1) <=> \E i \in 1..(n + 1) : list[i].id # id /\ z = list[i]
          BY <3>2
        <4>2. z \in Others(n) <=> \E i \in 1..n : list[i].id # id /\ z = list[i]
          BY <3>2
        <4> QED
          BY <3>1, <4>1, <4>2
      <3> QED
        BY <3>3
    <2>5. Good(n)
      BY <1>8
    <2>6. CASE e.id = id
      <3> HIDE DEF Upto, Others, L
      <3>1. Upto(n + 1) \ {id} = Upto(n) \ {id}
        BY <2>3, <2>6
      <3> QED
        BY <2>1, <2>2, <2>4, <2>5, <2>6, <3>1
    <2>7. CASE e.id # id
      <3> HIDE DEF Upto, Others, L, e
      <3>1. Kept[n + 1] = Append(Kept[n], e)
        BY <2>2, <2>7
      <3>2. /\ Append(Kept[n], e) \in Seq(S)
            /\ Ids(Append(Kept[n], e)) = Ids(Kept[n]) \cup {e.id}
            /\ UniqueIds(Kept[n]) /\ e.id \notin Ids(Kept[n]) => UniqueIds(Append(Kept[n], e))
        BY <2>1, <2>5, AppendIds
      <3>3. UniqueIds(list) => e.id \notin Upto(n)
        BY <2>1, <1>3 DEF UniqueIds, Upto, e, L
      <3>4. Upto(n + 1) \ {id} = (Upto(n) \ {id}) \cup {e.id}
        BY <2>3, <2>7
      <3>5. UniqueIds(list) => UniqueIds(Append(Kept[n], e))
        BY <2>5, <3>2, <3>3
      <3>6. Ids(Append(Kept[n], e)) = Upto(n + 1) \ {id}
        BY <2>5, <3>2, <3>4
      <3>7. Entries(Append(Kept[n], e), id) = Entries(Kept[n], id) \cup {e}
        BY <2>1, <2>5, <2>7, AppendEntries
      <3>8. Entries(Append(Kept[n], e), id) = Others(n + 1)
        BY <2>4, <2>5, <2>7, <3>7
      <3>9. Good(n + 1)
        BY <3>1, <3>2, <3>5, <3>6, <3>8
      <3> HIDE DEF Good
      <3> QED
        BY <2>1, <3>9
    <2> QED
      BY <2>6, <2>7
  <1>9. Good(L)
    <2>1. \A k \in 0..L : k \in G
      <3> HIDE DEF G, L
      <3>1. \A k \in 0..(L - 1) : k \in G => k + 1 \in G
        BY <1>8
      <3> QED
        BY <1>7, <3>1, <1>3, InductionUpTo
    <2>2. L \in 0..L
      BY <1>3
    <2>3. L \in G
      <3> HIDE DEF G, L
      <3> QED
        BY <2>1, <2>2
    <2> HIDE DEF Good, L
    <2> QED
      BY <2>3
  <1>10. Upto(L) = Ids(list) /\ Others(L) = Entries(list, id)
    BY DEF Ids, Entries
  <1> QED
    BY <1>6, <1>9, <1>10

LEMMA Normalised ==
    ASSUME NEW default \in Defaults, NEW roots \in Seq(RootEntry)
    PROVE  /\ NormalizeDefaultRootID(default, roots) # Absent =>
                  /\ NormalizeDefaultRootID(default, roots) \in Defaults
                  /\ Listed(NormalizeDefaultRootID(default, roots), roots)
           /\ default = NoRoot \/ default \in Ids(roots) => NormalizeDefaultRootID(default, roots) # Absent
  <1>1. Absent \notin Defaults
    BY ContextAssumption
  <1>2. CASE roots # <<>>
    <2>1. 1 \in DOMAIN roots /\ roots[1] \in RootEntry
      BY <1>2
    <2>2. roots[1].id \in Ids(roots) /\ roots[1].id \in Defaults
      BY <2>1 DEF Ids, RootEntry, Defaults
    <2> QED
      BY <1>1, <1>2, <2>2 DEF NormalizeDefaultRootID, Listed
  <1>3. CASE roots = <<>>
    <2>1. NoRoot \in Defaults
      BY DEF Defaults
    <2> QED
      BY <1>1, <1>3, <2>1 DEF NormalizeDefaultRootID, Listed
  <1> QED
    BY <1>2, <1>3

-----------------------------------------------------------------------------
(* Calls.                                                                  *)

LEMMA CallFields ==
    ASSUME NEW x \in Call
    PROVE  /\ x # Idle
           /\ x.edit \in Edits /\ x.overtaken \in BOOLEAN
           /\ x.phase \in {"read", "edited", "removing", "ready", "discovering"}
           /\ x.phase \in {"read", "edited"} => x \in Reading
           /\ x.phase = "removing" => x \in Removal
           /\ x.phase = "ready" => x \in Writing
           /\ x.phase = "discovering" => x \in Discovery
           /\ x.phase \in {"read", "edited", "removing"} => x.slot \in Slots /\ x.default \in Defaults
           /\ x.phase = "removing" => x.edit.op = "RemoveProjectRoot" /\ x.next \in Nat /\ x.kept \in Nat
           /\ x.phase = "ready" => /\ x.roots \in Seq(RootEntry) /\ x.sources \in Seq(SourceEntry)
                                   /\ x.default \in Defaults
  <1>1. x # Idle
    BY ContextAssumption
  <1>2. CASE x \in Reading
    BY <1>1, <1>2 DEF Reading
  <1>3. CASE x \in Removal
    BY <1>1, <1>3 DEF Removal
  <1>4. CASE x \in Writing
    BY <1>1, <1>4 DEF Writing
  <1>5. CASE x \in Discovery
    BY <1>1, <1>5 DEF Discovery
  <1> QED
    BY <1>2, <1>3, <1>4, <1>5 DEF Call

LEMMA EditFields ==
    ASSUME NEW e \in Edits
    PROVE  /\ e.op \in {"CreateRoot", "AttachProjectRoot", "UpdateRoot", "DeleteRoot",
                        "RemoveProjectRoot", "SetProjectDefaults"} =>
                  e.id \in RootIds /\ [id |-> e.id, content |-> e.content] \in RootEntry
           /\ e.op \in {"CreateContextSource", "UpdateContextSource", "DeleteContextSource"} =>
                  e.id \in SourceIds /\ [id |-> e.id, content |-> e.content] \in SourceEntry
           /\ e.op = "PatchRoots" => e.content \in Seq(RootEntry)
  <1>1. e \in RootEdit \cup SourceEdit \cup PatchEdit \cup WholeEdit
    BY ContextAssumption
  <1>2. CASE e \in RootEdit
    BY <1>2 DEF RootEdit, RootEntry
  <1>3. CASE e \in SourceEdit
    BY <1>3 DEF SourceEdit, SourceEntry
  <1>4. CASE e \in PatchEdit
    BY <1>4 DEF PatchEdit
  <1>5. CASE e \in WholeEdit
    BY <1>5 DEF WholeEdit
  <1> QED
    BY <1>1, <1>2, <1>3, <1>4, <1>5

\* What a call that another one overtook still is.
Same(x, y) ==
    \/ x = Idle /\ y = Idle
    \/ /\ x # Idle /\ y # Idle
       /\ y.phase = x.phase /\ y.edit = x.edit
       /\ x.phase \in {"read", "edited", "removing"} => y.slot = x.slot /\ y.default = x.default
       /\ x.phase = "removing" => y.next = x.next /\ y.kept = x.kept
       /\ x.phase = "ready" => y.roots = x.roots /\ y.sources = x.sources /\ y.default = x.default

LEMMA OvertakenSame ==
    ASSUME NEW x \in Call
    PROVE  /\ [x EXCEPT !.overtaken = TRUE] \in Call /\ Same(x, [x EXCEPT !.overtaken = TRUE])
           /\ [x EXCEPT !.overtaken = TRUE].overtaken
  <1>1. PICK y : y = [x EXCEPT !.overtaken = TRUE]
    OBVIOUS
  <1>2. CASE x \in Reading
    <2>1. y \in Reading /\ y.overtaken /\ y.phase = x.phase /\ y.edit = x.edit /\ y.slot = x.slot /\ y.default = x.default
      BY <1>1, <1>2 DEF Reading
    <2>2. x.phase \in {"read", "edited"}
      BY <1>2 DEF Reading
    <2> QED
      BY <1>1, <2>1, <2>2, CallFields DEF Call, Same
  <1>3. CASE x \in Removal
    <2>1. /\ y \in Removal /\ y.overtaken /\ y.phase = x.phase /\ y.edit = x.edit /\ y.slot = x.slot /\ y.default = x.default
          /\ y.next = x.next /\ y.kept = x.kept
      BY <1>1, <1>3 DEF Removal
    <2>2. x.phase = "removing"
      BY <1>3 DEF Removal
    <2> QED
      BY <1>1, <2>1, <2>2, CallFields DEF Call, Same
  <1>4. CASE x \in Writing
    <2>1. /\ y \in Writing /\ y.overtaken /\ y.phase = x.phase /\ y.edit = x.edit /\ y.default = x.default
          /\ y.roots = x.roots /\ y.sources = x.sources
      BY <1>1, <1>4 DEF Writing
    <2>2. x.phase = "ready"
      BY <1>4 DEF Writing
    <2> QED
      BY <1>1, <2>1, <2>2, CallFields DEF Call, Same
  <1>5. CASE x \in Discovery
    <2>1. y \in Discovery /\ y.overtaken /\ y.phase = x.phase /\ y.edit = x.edit
      BY <1>1, <1>5 DEF Discovery
    <2>2. x.phase = "discovering"
      BY <1>5 DEF Discovery
    <2> QED
      BY <1>1, <2>1, <2>2, CallFields DEF Call, Same
  <1> QED
    BY <1>2, <1>3, <1>4, <1>5 DEF Call

LEMMA SameReflexive ==
    ASSUME NEW x
    PROVE  Same(x, x)
  BY DEF Same

LEMMA OvertakeSame ==
    ASSUME NEW cs \in [Callers -> Call \cup {Idle}], NEW c
    PROVE  /\ Overtake(cs, c) \in [Callers -> Call \cup {Idle}]
           /\ \A d \in Callers : Same(cs[d], Overtake(cs, c)[d])
           /\ \A d \in Callers : IF d = c \/ cs[d] = Idle THEN Overtake(cs, c)[d] = cs[d]
                               ELSE Overtake(cs, c)[d].overtaken
  <1>1. ASSUME NEW d \in Callers
        PROVE  /\ Overtake(cs, c)[d] \in Call \cup {Idle}
               /\ Same(cs[d], Overtake(cs, c)[d])
               /\ IF d = c \/ cs[d] = Idle THEN Overtake(cs, c)[d] = cs[d]
                  ELSE Overtake(cs, c)[d].overtaken
    <2>1. Overtake(cs, c)[d] = IF d = c \/ cs[d] = Idle THEN cs[d] ELSE [cs[d] EXCEPT !.overtaken = TRUE]
      BY Zenon DEF Overtake
    <2>2. CASE d = c \/ cs[d] = Idle
      BY <2>1, <2>2, SameReflexive
    <2>3. CASE ~(d = c \/ cs[d] = Idle)
      <3>1. cs[d] \in Call
        BY <2>3
      <3>2. Overtake(cs, c)[d] = [cs[d] EXCEPT !.overtaken = TRUE]
        BY <2>1, <2>3
      <3> QED
        BY <2>3, <3>1, <3>2, OvertakenSame
    <2> QED
      BY <2>2, <2>3
  <1>2. Overtake(cs, c) = [d \in Callers |-> Overtake(cs, c)[d]]
    BY Zenon DEF Overtake
  <1>3. Overtake(cs, c) \in [Callers -> Call \cup {Idle}]
    BY <1>1, <1>2, Zenon
  <1> QED
    BY <1>1, <1>3

LEMMA OvertakeDiscoveriesSame ==
    ASSUME NEW cs \in [Callers -> Call \cup {Idle}], NEW c
    PROVE  /\ OvertakeDiscoveries(cs, c) \in [Callers -> Call \cup {Idle}]
           /\ \A d \in Callers : Same(cs[d], OvertakeDiscoveries(cs, c)[d])
           /\ \A d \in Callers :
                 IF d # c /\ cs[d] # Idle /\ cs[d].phase = "discovering"
                 THEN OvertakeDiscoveries(cs, c)[d].overtaken
                 ELSE OvertakeDiscoveries(cs, c)[d] = cs[d]
  <1>1. ASSUME NEW d \in Callers
        PROVE  /\ OvertakeDiscoveries(cs, c)[d] \in Call \cup {Idle}
               /\ Same(cs[d], OvertakeDiscoveries(cs, c)[d])
               /\ IF d # c /\ cs[d] # Idle /\ cs[d].phase = "discovering"
                  THEN OvertakeDiscoveries(cs, c)[d].overtaken
                  ELSE OvertakeDiscoveries(cs, c)[d] = cs[d]
    <2> DEFINE over == d # c /\ cs[d] # Idle /\ cs[d].phase = "discovering"
    <2>1. OvertakeDiscoveries(cs, c)[d] = IF over THEN [cs[d] EXCEPT !.overtaken = TRUE] ELSE cs[d]
      BY Zenon DEF OvertakeDiscoveries
    <2>2. CASE ~over
      BY <2>1, <2>2, SameReflexive
    <2>3. CASE over
      <3>1. cs[d] \in Call
        BY <2>3
      <3>2. OvertakeDiscoveries(cs, c)[d] = [cs[d] EXCEPT !.overtaken = TRUE]
        BY <2>1, <2>3
      <3> QED
        BY <2>3, <3>1, <3>2, OvertakenSame
    <2> QED
      BY <2>2, <2>3
  <1>2. OvertakeDiscoveries(cs, c) = [d \in Callers |-> OvertakeDiscoveries(cs, c)[d]]
    BY Zenon DEF OvertakeDiscoveries
  <1>3. OvertakeDiscoveries(cs, c) \in [Callers -> Call \cup {Idle}]
    BY <1>1, <1>2, Zenon
  <1> QED
    BY <1>1, <1>3

-----------------------------------------------------------------------------
(* Slots.                                                                  *)

\* There is a slot more than the stored record and the calls can use.
LEMMA SlotIsFree ==
    ASSUME TypeOK
    PROVE  FreeSlot \in Slots /\ ~InUse(project, calls, FreeSlot)
  <1> DEFINE HC == {c \in Callers : \E s \in Slots : Holds(calls[c], s)}
             U == {s \in Slots : \E c \in Callers : Holds(calls[c], s)}
             f == [c \in HC |-> calls[c].slot]
  <1>1. IsFiniteSet(Callers) /\ Cardinality(Callers) \in Nat
    BY ContextAssumption, FS_CardinalityType
  <1>2. IsFiniteSet(HC) /\ Cardinality(HC) <= Cardinality(Callers)
    BY <1>1, FS_Subset
  <1>3. f \in Surjection(HC, U)
    <2>1. \A c \in HC : calls[c].slot \in U
      BY DEF Holds
    <2>2. \A s \in U : \E c \in HC : calls[c].slot = s
      BY DEF Holds
    <2> HIDE DEF HC, U
    <2>3. f \in [HC -> U] /\ \A s \in U : \E c \in HC : f[c] = s
      BY <2>1, <2>2
    <2> HIDE DEF f
    <2> QED
      BY <2>3 DEF Surjection
  <1>4. IsFiniteSet(U) /\ Cardinality(U) <= Cardinality(HC)
    <2> HIDE DEF HC, U, f
    <2> QED
      BY <1>2, <1>3, FS_Surjection
  <1>5. Cardinality(HC) \in Nat /\ Cardinality(U) \in Nat
    BY <1>2, <1>4, FS_CardinalityType
  <1> DEFINE used == IF project = Absent THEN U ELSE U \cup {project.body}
  <1>6. IsFiniteSet(used) /\ Cardinality(used) <= Cardinality(Callers) + 1
    <2> HIDE DEF U, HC
    <2>1. PICK b : b = project.body
      OBVIOUS
    <2>2. /\ IsFiniteSet(U \cup {b})
          /\ Cardinality(U \cup {b}) = IF b \in U THEN Cardinality(U) ELSE Cardinality(U) + 1
      BY <1>4, FS_AddElement
    <2>3. Cardinality(U \cup {b}) <= Cardinality(U) + 1
      BY <1>5, <2>2
    <2>4. Cardinality(U) <= Cardinality(Callers)
      BY <1>1, <1>2, <1>4, <1>5
    <2>5. Cardinality(U \cup {b}) \in Nat
      BY <2>2, FS_CardinalityType
    <2>6. used = U \/ used = U \cup {b}
      BY <2>1
    <2>7. Cardinality(U) <= Cardinality(Callers) + 1
      BY <1>1, <1>5, <2>4
    <2>8. Cardinality(U \cup {b}) <= Cardinality(Callers) + 1
      BY <1>1, <1>5, <2>3, <2>4, <2>5
    <2> QED
      BY <1>4, <2>2, <2>6, <2>7, <2>8
  <1>7. IsFiniteSet(Slots) /\ Cardinality(Slots) = Cardinality(Callers) + 2
    <2>1. 1 \in Int /\ Cardinality(Callers) + 2 \in Int
      BY <1>1
    <2>2. /\ IsFiniteSet(1..(Cardinality(Callers) + 2))
          /\ Cardinality(1..(Cardinality(Callers) + 2)) =
                IF 1 > Cardinality(Callers) + 2 THEN 0 ELSE (Cardinality(Callers) + 2) - 1 + 1
      BY <2>1, FS_Interval
    <2> QED
      BY <1>1, <2>2 DEF Slots
  <1>8. ~(Slots \subseteq used)
    <2> HIDE DEF used
    <2>1. Cardinality(used) \in Nat
      BY <1>6, FS_CardinalityType
    <2>2. ASSUME Slots \subseteq used PROVE FALSE
      <3>1. Cardinality(Slots) <= Cardinality(used)
        BY <1>6, <2>2, FS_Subset
      <3> QED
        BY <1>1, <1>6, <1>7, <2>1, <3>1
    <2> QED
      BY <2>2
  <1>9. PICK s \in Slots : s \notin used
    BY <1>8
  <1>10. ~InUse(project, calls, s)
    BY <1>9 DEF InUse
  <1> QED
    BY <1>10 DEF FreeSlot

-----------------------------------------------------------------------------
(* What a step leaves alone.                                               *)

\* The lists of a slot may have other contents, never other ids.
Alike(s) ==
    /\ bodies'[s].shifted = bodies[s].shifted
    /\ SameIds(bodies[s].roots, bodies'[s].roots)
    /\ SameIds(bodies[s].sources, bodies'[s].sources)

LEMMA HoldsSlot ==
    ASSUME NEW x \in Call \cup {Idle}, NEW s
    PROVE  Holds(x, s) <=> x # Idle /\ x.phase \in {"read", "edited", "removing"} /\ x.slot = s
  BY DEF Holds

LEMMA SameHolds ==
    ASSUME NEW x, NEW y, Same(x, y), NEW s
    PROVE  Holds(x, s) <=> Holds(y, s)
  BY DEF Same, Holds

LEMMA ListedAlike ==
    ASSUME NEW default, NEW l \in Seq(RootEntry), NEW m \in Seq(RootEntry), SameIds(l, m), Listed(default, l)
    PROVE  Listed(default, m)
  BY SameIdsSameSet DEF Listed

\* The stored record as long as the project stays.
LEMMA StoreFrame ==
    ASSUME IInv, bodies' \in [Slots -> Body], project' = project, sharing' = sharing,
           project # Absent => Alike(project.body)
    PROVE  StoredListed' /\ CopiesStay'
  <1> SUFFICES ASSUME project # Absent PROVE StoredListed' /\ CopiesStay'
    BY DEF StoredListed, CopiesStay
  <1>1. project.body \in Slots /\ Alike(project.body)
    BY DEF IInv, TypeOK, Project
  <1>2. bodies[project.body].roots \in Seq(RootEntry) /\ bodies'[project.body].roots \in Seq(RootEntry)
    BY <1>1 DEF IInv, TypeOK, Body
  <1>3. Stored' = bodies'[project.body]
    BY DEF Stored
  <1>4. Stored'.shifted = Stored.shifted /\ SameIds(Stored.roots, Stored'.roots)
    BY <1>1, <1>3 DEF Stored, Alike
  <1>5. Stored.roots \in Seq(RootEntry) /\ Stored'.roots \in Seq(RootEntry)
    BY <1>2, <1>3 DEF Stored
  <1>6. StoredListed'
    <2> SUFFICES ASSUME Stored'.shifted = {} PROVE Listed(project.default, Stored'.roots)
      BY DEF StoredListed
    <2>1. Listed(project.default, Stored.roots)
      BY <1>4 DEF IInv, StoredListed
    <2> QED
      BY <2>1, <1>4, <1>5, ListedAlike
  <1>7. CopiesStay'
    BY <1>4 DEF IInv, CopiesStay
  <1> QED
    BY <1>6, <1>7

\* A call that the step is not about.
LEMMA CallFrame ==
    ASSUME IInv, bodies' \in [Slots -> Body], project' = project, sharing' = sharing,
           project # Absent => Alike(project.body),
           NEW c \in Callers, Same(calls[c], calls'[c]),
           \A s \in Slots : Holds(calls[c], s) => Alike(s)
    PROVE  CallInv(c)'
  <1> DEFINE x == calls[c]
             y == calls'[c]
  <1>1. x \in Call \cup {Idle}
    BY DEF IInv, TypeOK
  <1>2. CallInv(c)
    BY DEF IInv
  <1>3. ASSUME x # Idle, x.phase \in {"read", "edited", "removing"}
        PROVE  x.slot \in Slots /\ Holds(x, x.slot)
    BY <1>1, <1>3, CallFields DEF Holds
  <1>4. ASSUME x # Idle, x.phase \in {"read", "edited", "removing"}
        PROVE  /\ Alike(x.slot)
               /\ bodies[x.slot].roots \in Seq(RootEntry) /\ bodies'[x.slot].roots \in Seq(RootEntry)
    BY <1>3, <1>4 DEF IInv, TypeOK, Body
  <1>5. ASSUME project # Absent
        PROVE  /\ project.body \in Slots /\ Alike(project.body)
               /\ bodies[project.body].roots \in Seq(RootEntry) /\ bodies'[project.body].roots \in Seq(RootEntry)
    BY <1>5 DEF IInv, TypeOK, Body, Project
  <1>6. Bounded(c)'
    <2> SUFFICES ASSUME Removing(c)'
                 PROVE  y.next \in 1..(Len(bodies'[y.slot].roots) + 1) /\ y.kept < y.next
      BY DEF Bounded, Read
    <2>1. x # Idle /\ x.phase = "removing" /\ y.next = x.next /\ y.kept = x.kept /\ y.slot = x.slot
      BY DEF Removing, Same
    <2>2. x.next \in 1..(Len(bodies[x.slot].roots) + 1) /\ x.kept < x.next
      BY <2>1, <1>2 DEF CallInv, Bounded, Removing, Read
    <2>3. Len(bodies'[x.slot].roots) = Len(bodies[x.slot].roots)
      BY <2>1, <1>4 DEF Alike, SameIds
    <2> QED
      BY <2>1, <2>2, <2>3
  <1>7. Ready(c)'
    BY <1>2 DEF CallInv, Ready, Same
  <1>8. Shares(c)'
    <2> SUFFICES ASSUME sharing, project # Absent, Holds(y, project.body)
                 PROVE  y.default = project.default
      BY DEF Shares
    <2>1. Holds(x, project.body)
      BY SameHolds
    <2>2. x.default = project.default
      BY <2>1, <1>2 DEF CallInv, Shares
    <2>3. y.default = x.default
      BY <2>1 DEF Holds, Same
    <2> QED
      BY <2>2, <2>3
  <1>9. Moved(c)'
    <2> SUFFICES ASSUME sharing, project # Absent, bodies'[project.body].shifted = {c}
                 PROVE  /\ y # Idle
                        /\ \/ y.phase = "ready" /\ y.edit.op = "RemoveProjectRoot"
                           \/ y.phase = "removing" /\ y.slot = project.body /\ y.kept + 1 < y.next
      BY DEF Moved, Stored
    <2>1. Stored.shifted = {c}
      BY <1>5 DEF Alike, Stored
    <2>2. /\ x # Idle
          /\ \/ x.phase = "ready" /\ x.edit.op = "RemoveProjectRoot"
             \/ x.phase = "removing" /\ x.slot = project.body /\ x.kept + 1 < x.next
      BY <2>1, <1>2 DEF CallInv, Moved
    <2> QED
      BY <2>2 DEF Same
  <1>10. Keeps(c)'
    <2> SUFFICES ASSUME sharing, project # Absent, Removing(c)', y.slot = project.body,
                        bodies'[project.body].shifted \subseteq {c}
                 PROVE  \/ y.default \in {NoRoot, y.edit.id}
                        \/ \E i \in Live(y, bodies'[project.body].roots) :
                              bodies'[project.body].roots[i].id = y.default
      BY DEF Keeps, Stored
    <2>1. /\ x # Idle /\ x.phase = "removing" /\ y.next = x.next /\ y.kept = x.kept /\ y.slot = x.slot
          /\ y.default = x.default /\ y.edit = x.edit
      BY DEF Removing, Same
    <2>2. Stored.shifted \subseteq {c}
      BY <1>5 DEF Alike, Stored
    <2>3. \/ x.default \in {NoRoot, x.edit.id}
          \/ \E i \in Live(x, bodies[project.body].roots) : bodies[project.body].roots[i].id = x.default
      BY <2>1, <2>2, <1>2 DEF CallInv, Keeps, Removing, Stored
    <2>4. CASE x.default \in {NoRoot, x.edit.id}
      BY <2>1, <2>4
    <2>5. ASSUME NEW i \in Live(x, bodies[project.body].roots), bodies[project.body].roots[i].id = x.default
          PROVE  i \in Live(y, bodies'[project.body].roots) /\ bodies'[project.body].roots[i].id = y.default
      <3>1. SameIds(bodies[project.body].roots, bodies'[project.body].roots)
        BY <1>5 DEF Alike
      <3>2. x.next \in 1..(Len(bodies[project.body].roots) + 1) /\ x.kept < x.next /\ x.kept \in Nat
        BY <2>1, <1>1, <1>2, CallFields DEF CallInv, Bounded, Removing, Read
      <3>3. i \in 1..Len(bodies[project.body].roots)
        BY <2>5, <3>2, <1>5 DEF Live
      <3> QED
        BY <2>1, <2>5, <3>1, <3>3 DEF Live, SameIds
    <2> QED
      BY <2>3, <2>4, <2>5
  <1> QED
    BY <1>6, <1>7, <1>8, <1>9, <1>10 DEF CallInv

LEMMA OwnFrame ==
    ASSUME TypeOK, sharing' = sharing,
           project' \in {project, Absent} \/ project'.body = FreeSlot,
           \A d \in Callers : \A s \in Slots : Holds(calls'[d], s) => Holds(calls[d], s)
    PROVE  OwnLists'
  <1>1. ~InUse(project, calls, FreeSlot)
    BY SlotIsFree
  <1>2. \A d \in Callers : ~Holds(calls[d], FreeSlot)
    BY <1>1 DEF InUse
  <1> SUFFICES ASSUME NEW c \in Callers, NEW d \in Callers, NEW s \in Slots, ~sharing, Holds(calls'[c], s)
               PROVE  /\ project' # Absent => project'.body # s
                      /\ Holds(calls'[d], s) => c = d
    BY DEF OwnLists
  <1>3. Holds(calls[c], s) /\ s # FreeSlot
    BY <1>2
  <1>4. project # Absent => project.body # s
    BY <1>3 DEF TypeOK, OwnLists
  <1>5. Holds(calls[d], s) => c = d
    BY <1>3 DEF TypeOK, OwnLists
  <1> QED
    BY <1>3, <1>4, <1>5

LEMMA CollectKeeps ==
    ASSUME NEW bs \in [Slots -> Body], NEW p, NEW cs
    PROVE  /\ Collect(bs, p, cs) \in [Slots -> Body]
           /\ \A s \in Slots : InUse(p, cs, s) => Collect(bs, p, cs)[s] = bs[s]
  <1>1. NoBody \in Body
    BY DEF NoBody, Body
  <1> QED
    BY <1>1 DEF Collect

LEMMA SameBodyAlike ==
    ASSUME NEW s, bodies'[s] = bodies[s]
    PROVE  Alike(s)
  BY DEF Alike, SameIds

\* A step of one call that leaves the project in its place.
LEMMA QuietStep ==
    ASSUME IInv, NEW c \in Callers, project' = project, sharing' = sharing,
           calls' \in [Callers -> Call \cup {Idle}], bodies' \in [Slots -> Body],
           skills' \in [Skills -> Skill \cup {Absent}], files' \in FileSets, started' \in 0 .. MaxCalls,
           OwnLists',
           project # Absent => Alike(project.body),
           \A d \in Callers \ {c} : Same(calls[d], calls'[d]),
           \A d \in Callers \ {c} : \A s \in Slots : Holds(calls[d], s) => Alike(s),
           CallInv(c)'
    PROVE  IInv'
  <1>1. TypeOK'
    BY DEF IInv, TypeOK
  <1>2. StoredListed' /\ CopiesStay'
    BY StoreFrame
  <1>3. ASSUME NEW d \in Callers PROVE CallInv(d)'
    <2>1. CASE d = c
      BY <2>1
    <2>2. CASE d # c
      BY <2>2, CallFrame
    <2> QED
      BY <2>1, <2>2
  <1> QED
    BY <1>1, <1>2, <1>3 DEF IInv

\* A call that ends without having moved entries of the stored lists alone.
LEMMA ReturnSound ==
    ASSUME IInv, NEW c \in Callers, Return(c),
           ~(sharing /\ project # Absent /\ Stored.shifted = {c})
    PROVE  IInv'
  <1>1. /\ calls \in [Callers -> Call \cup {Idle}] /\ bodies \in [Slots -> Body]
        /\ project # Absent => project.body \in Slots
    BY DEF IInv, TypeOK, Project
  <1>2. /\ calls' \in [Callers -> Call \cup {Idle}]
        /\ calls'[c] = Idle
        /\ \A d \in Callers \ {c} : calls'[d] = calls[d]
    BY <1>1 DEF Return
  <1>3. /\ bodies' \in [Slots -> Body]
        /\ \A s \in Slots : InUse(project, calls', s) => bodies'[s] = bodies[s]
    BY <1>1, CollectKeeps DEF Return
  <1>4. project # Absent => bodies'[project.body] = bodies[project.body]
    BY <1>1, <1>3 DEF InUse
  <1>5. \A d \in Callers \ {c} : \A s \in Slots : Holds(calls[d], s) => bodies'[s] = bodies[s]
    BY <1>2, <1>3 DEF InUse
  <1>6. \A d \in Callers : \A s \in Slots : Holds(calls'[d], s) => Holds(calls[d], s)
    <2>1. \A s : ~Holds(Idle, s)
      BY DEF Holds
    <2> QED
      BY <1>2, <2>1
  <1>7. project' = project /\ sharing' = sharing
    BY DEF Return
  <1>8. OwnLists'
    BY <1>6, <1>7, OwnFrame DEF IInv
  <1>9. CallInv(c)'
    <2>1. Bounded(c)' /\ Ready(c)' /\ Keeps(c)' /\ Shares(c)'
      BY <1>2 DEF Bounded, Ready, Keeps, Shares, Removing, Holds
    <2>2. Moved(c)'
      BY <1>4, <1>7 DEF Moved, Stored
    <2> QED
      BY <2>1, <2>2 DEF CallInv
  <1>10. \A d \in Callers \ {c} : Same(calls[d], calls'[d])
    BY <1>2, SameReflexive
  <1>11. skills' \in [Skills -> Skill \cup {Absent}] /\ files' \in FileSets /\ started' \in 0 .. MaxCalls
    BY DEF Return, IInv, TypeOK
  <1>12. project # Absent => Alike(project.body)
    BY <1>4, SameBodyAlike
  <1>13. \A d \in Callers \ {c} : \A s \in Slots : Holds(calls[d], s) => Alike(s)
    BY <1>5, SameBodyAlike
  <1> QED
    BY <1>2, <1>3, <1>7, <1>8, <1>9, <1>10, <1>11, <1>12, <1>13, QuietStep

\* A call that goes on to its write, or is refused.
LEMMA NormalizedSound ==
    ASSUME IInv, NEW c \in Callers, calls[c] # Idle,
           NEW roots \in Seq(RootEntry), NEW sources \in Seq(SourceEntry), NEW default \in Defaults,
           Normalized(c, roots, sources, default),
           sharing /\ project # Absent /\ Stored.shifted = {c} =>
               /\ calls[c].edit.op = "RemoveProjectRoot"
               /\ NormalizeDefaultRootID(default, roots) # Absent
    PROVE  IInv'
  <1> DEFINE stored == NormalizeDefaultRootID(default, roots)
             w == [phase |-> "ready", edit |-> calls[c].edit, roots |-> roots,
                   sources |-> sources, default |-> stored, overtaken |-> calls[c].overtaken]
  <1>1. CASE stored = Absent
    <2>1. Return(c)
      BY <1>1 DEF Normalized
    <2> QED
      BY <1>1, <2>1, ReturnSound
  <1>2. CASE stored # Absent
    <2>1. stored \in Defaults /\ Listed(stored, roots)
      BY <1>2, Normalised
    <2>2. /\ calls' = [calls EXCEPT ![c] = w]
          /\ bodies' = Collect(bodies, project, calls')
          /\ UNCHANGED <<sharing, project, skills, files, started>>
      BY <1>2 DEF Normalized
    <2>3. /\ calls \in [Callers -> Call \cup {Idle}] /\ bodies \in [Slots -> Body]
          /\ project # Absent => project.body \in Slots
      BY DEF IInv, TypeOK, Project
    <2>4. w \in Call
      <3>1. calls[c].edit \in Edits /\ calls[c].overtaken \in BOOLEAN
        BY <2>3, CallFields
      <3> HIDE DEF stored
      <3>2. w \in Writing
        BY <2>1, <3>1 DEF Writing
      <3> QED
        BY <3>2 DEF Call
    <2>5. w.phase = "ready" /\ w.edit = calls[c].edit /\ w.roots = roots /\ w.default = stored /\ w # Idle
      BY <2>4, CallFields
    <2> HIDE DEF w, stored
    <2>6. /\ calls' \in [Callers -> Call \cup {Idle}]
          /\ calls'[c] = w
          /\ \A d \in Callers \ {c} : calls'[d] = calls[d]
      BY <2>2, <2>3, <2>4
    <2>7. /\ bodies' \in [Slots -> Body]
          /\ \A s \in Slots : InUse(project, calls', s) => bodies'[s] = bodies[s]
      BY <2>2, <2>3, CollectKeeps
    <2>8. project # Absent => bodies'[project.body] = bodies[project.body]
      BY <2>3, <2>7 DEF InUse
    <2>9. \A d \in Callers \ {c} : \A s \in Slots : Holds(calls[d], s) => bodies'[s] = bodies[s]
      BY <2>6, <2>7 DEF InUse
    <2>10. \A d \in Callers : \A s \in Slots : Holds(calls'[d], s) => Holds(calls[d], s)
      <3>1. \A s : ~Holds(w, s)
        BY <2>5 DEF Holds
      <3> QED
        BY <2>6, <3>1
    <2>11. OwnLists'
      BY <2>2, <2>10, OwnFrame DEF IInv
    <2>12. CallInv(c)'
      <3>1. Bounded(c)' /\ Keeps(c)' /\ Shares(c)'
        BY <2>5, <2>6 DEF Bounded, Keeps, Shares, Removing, Holds
      <3>2. Ready(c)'
        BY <2>1, <2>5, <2>6 DEF Ready
      <3>3. Moved(c)'
        BY <2>2, <2>5, <2>6, <2>8 DEF Moved, Stored
      <3> QED
        BY <3>1, <3>2, <3>3 DEF CallInv
    <2>13. \A d \in Callers \ {c} : Same(calls[d], calls'[d])
      BY <2>6, SameReflexive
    <2>14. skills' \in [Skills -> Skill \cup {Absent}] /\ files' \in FileSets /\ started' \in 0 .. MaxCalls
      BY <2>2 DEF IInv, TypeOK
    <2>15. project # Absent => Alike(project.body)
      BY <2>8, SameBodyAlike
    <2>16. \A d \in Callers \ {c} : \A s \in Slots : Holds(calls[d], s) => Alike(s)
      BY <2>9, SameBodyAlike
    <2> QED
      BY <2>2, <2>6, <2>7, <2>11, <2>12, <2>13, <2>14, <2>15, <2>16, QuietStep
  <1> QED
    BY <1>1, <1>2

-----------------------------------------------------------------------------
(* The store's operations.                                                 *)

\* A record written to a slot of its own.
LEMMA NewRecord ==
    ASSUME IInv, sharing' = sharing, NEW default \in Defaults,
           project' = [body |-> FreeSlot, default |-> default],
           bodies' \in [Slots -> Body], bodies'[FreeSlot].shifted = {}, Listed(default, bodies'[FreeSlot].roots),
           calls' \in [Callers -> Call \cup {Idle}],
           \A d \in Callers : calls'[d] = Idle \/ Same(calls[d], calls'[d]),
           \A d \in Callers : \A s \in Slots : Holds(calls'[d], s) => bodies'[s] = bodies[s],
           skills' \in [Skills -> Skill \cup {Absent}], files' \in FileSets, started' \in 0 .. MaxCalls
    PROVE  IInv'
  <1>1. FreeSlot \in Slots /\ ~InUse(project, calls, FreeSlot)
    BY SlotIsFree DEF IInv
  <1>2. project' \in Project /\ project'.body = FreeSlot /\ project'.default = default
    BY <1>1 DEF Project
  <1>3. \A d \in Callers : \A s \in Slots : Holds(calls'[d], s) => Holds(calls[d], s)
    <2>1. \A s : ~Holds(Idle, s)
      BY DEF Holds
    <2> QED
      BY <2>1, SameHolds
  <1>4. \A d \in Callers : ~Holds(calls'[d], FreeSlot)
    BY <1>1, <1>3 DEF InUse
  <1>5. TypeOK'
    <2>1. OwnLists'
      BY <1>2, <1>3, OwnFrame DEF IInv
    <2> QED
      BY <1>2, <2>1 DEF IInv, TypeOK
  <1>6. Stored' = bodies'[FreeSlot]
    BY <1>2 DEF Stored
  <1>7. StoredListed' /\ CopiesStay'
    BY <1>2, <1>6 DEF StoredListed, CopiesStay
  <1>8. ASSUME NEW d \in Callers PROVE CallInv(d)'
    <2> DEFINE x == calls[d]
               y == calls'[d]
    <2>1. x \in Call \cup {Idle} /\ y \in Call \cup {Idle} /\ CallInv(d)
      BY DEF IInv, TypeOK
    <2>2. Bounded(d)'
      <3> SUFFICES ASSUME Removing(d)'
                   PROVE  y.next \in 1..(Len(bodies'[y.slot].roots) + 1) /\ y.kept < y.next
        BY DEF Bounded, Read
      <3>1. y # Idle /\ y.phase = "removing" /\ y.slot \in Slots
        BY <2>1, CallFields DEF Removing
      <3>2. /\ x # Idle /\ x.phase = "removing" /\ y.next = x.next /\ y.kept = x.kept /\ y.slot = x.slot
        BY <3>1 DEF Same
      <3>3. bodies'[y.slot] = bodies[x.slot]
        BY <3>1, <3>2 DEF Holds
      <3>4. x.next \in 1..(Len(bodies[x.slot].roots) + 1) /\ x.kept < x.next
        BY <2>1, <3>2 DEF CallInv, Bounded, Removing, Read
      <3> QED
        BY <3>2, <3>3, <3>4
    <2>3. Ready(d)'
      BY <2>1 DEF CallInv, Ready, Same
    <2>4. Shares(d)'
      BY <1>2, <1>4 DEF Shares
    <2>5. Moved(d)'
      BY <1>6 DEF Moved
    <2>6. Keeps(d)'
      BY <1>2, <1>4 DEF Keeps, Removing, Holds
    <2> QED
      BY <2>2, <2>3, <2>4, <2>5, <2>6 DEF CallInv
  <1> QED
    BY <1>5, <1>7, <1>8 DEF IInv

LEMMA UpdateProjectWrites ==
    ASSUME IInv, NEW c \in Callers, calls[c] # Idle, calls[c].phase = "ready", UpdateProject(c)
    PROVE  /\ sharing' = sharing /\ calls[c].default \in Defaults
           /\ project' = [body |-> FreeSlot, default |-> calls[c].default]
           /\ bodies' \in [Slots -> Body]
           /\ bodies'[FreeSlot] = [roots |-> calls[c].roots, sources |-> calls[c].sources, shifted |-> {}]
           /\ calls' \in [Callers -> Call \cup {Idle}]
           /\ \A d \in Callers : calls'[d] = Idle \/ Same(calls[d], calls'[d])
           /\ \A d \in Callers : \A s \in Slots : Holds(calls'[d], s) => bodies'[s] = bodies[s]
           /\ skills' \in [Skills -> Skill \cup {Absent}] /\ files' \in FileSets /\ started' \in 0 .. MaxCalls
  <1>1. /\ calls \in [Callers -> Call \cup {Idle}] /\ bodies \in [Slots -> Body]
        /\ calls[c].roots \in Seq(RootEntry) /\ calls[c].sources \in Seq(SourceEntry)
        /\ calls[c].default \in Defaults
    <2>1. calls \in [Callers -> Call \cup {Idle}] /\ bodies \in [Slots -> Body]
      BY DEF IInv, TypeOK
    <2> QED
      BY <2>1, CallFields
  <1>3. PICK body : body = [roots |-> calls[c].roots, sources |-> calls[c].sources, shifted |-> {}]
    OBVIOUS
  <1>4. body \in Body /\ body.shifted = {} /\ body.roots = calls[c].roots
    BY <1>1, <1>3 DEF Body
  <1>5. FreeSlot \in Slots /\ ~InUse(project, calls, FreeSlot)
    BY SlotIsFree DEF IInv
  <1>6. PICK idle : idle = [calls EXCEPT ![c] = Idle]
    OBVIOUS
  <1>7. /\ idle \in [Callers -> Call \cup {Idle}] /\ idle[c] = Idle
        /\ \A d \in Callers \ {c} : idle[d] = calls[d]
    BY <1>1, <1>6
  <1>8. PICK bs : bs = [bodies EXCEPT ![FreeSlot] = body]
    OBVIOUS
  <1>9. bs \in [Slots -> Body] /\ bs[FreeSlot] = body /\ \A s \in Slots \ {FreeSlot} : bs[s] = bodies[s]
    BY <1>1, <1>4, <1>5, <1>8
  <1>10. /\ project' = [body |-> FreeSlot, default |-> calls[c].default]
         /\ calls' = Overtake(idle, c)
         /\ bodies' = Collect(bs, project', calls')
         /\ UNCHANGED <<sharing, skills, files, started>>
    BY <1>3, <1>6, <1>8 DEF UpdateProject
  <1>11. calls' \in [Callers -> Call \cup {Idle}] /\ \A d \in Callers : Same(idle[d], calls'[d])
    BY <1>7, <1>10, OvertakeSame
  <1>12. \A d \in Callers : calls'[d] = Idle \/ Same(calls[d], calls'[d])
    BY <1>7, <1>11 DEF Same
  <1>13. bodies' \in [Slots -> Body] /\ \A s \in Slots : InUse(project', calls', s) => bodies'[s] = bs[s]
    BY <1>9, <1>10, CollectKeeps
  <1>14. FreeSlot \in Slots /\ InUse(project', calls', FreeSlot)
    <2>1. project' \in Project /\ project'.body = FreeSlot
      BY <1>1, <1>5, <1>10 DEF Project
    <2>2. project' # Absent
      BY <2>1, ContextAssumption
    <2> QED
      BY <1>5, <2>1, <2>2 DEF InUse
  <1>15. \A d \in Callers : \A s \in Slots : Holds(calls'[d], s) => bodies'[s] = bodies[s]
    <2>1. \A d \in Callers : \A s \in Slots : Holds(calls'[d], s) => Holds(calls[d], s)
      <3>1. \A s : ~Holds(Idle, s)
        BY DEF Holds
      <3> QED
        BY <3>1, <1>12, SameHolds
    <2>2. \A d \in Callers : ~Holds(calls'[d], FreeSlot)
      BY <1>5, <2>1 DEF InUse
    <2> QED
      BY <2>2, <1>9, <1>13 DEF InUse
  <1>16. skills' \in [Skills -> Skill \cup {Absent}] /\ files' \in FileSets /\ started' \in 0 .. MaxCalls
    BY <1>10 DEF IInv, TypeOK
  <1>17. bodies'[FreeSlot] = body
    BY <1>9, <1>13, <1>14
  <1> QED
    BY <1>1, <1>3, <1>10, <1>11, <1>12, <1>13, <1>15, <1>16, <1>17

LEMMA UpdateProjectSound ==
    ASSUME IInv, NEW c \in Callers, calls[c] # Idle, calls[c].phase = "ready", UpdateProject(c)
    PROVE  IInv'
  <1>1. Listed(calls[c].default, calls[c].roots)
    BY DEF IInv, CallInv, Ready
  <1>2. /\ sharing' = sharing /\ calls[c].default \in Defaults
        /\ project' = [body |-> FreeSlot, default |-> calls[c].default]
        /\ bodies' \in [Slots -> Body]
        /\ bodies'[FreeSlot] = [roots |-> calls[c].roots, sources |-> calls[c].sources, shifted |-> {}]
        /\ calls' \in [Callers -> Call \cup {Idle}]
        /\ \A d \in Callers : calls'[d] = Idle \/ Same(calls[d], calls'[d])
        /\ \A d \in Callers : \A s \in Slots : Holds(calls'[d], s) => bodies'[s] = bodies[s]
        /\ skills' \in [Skills -> Skill \cup {Absent}] /\ files' \in FileSets /\ started' \in 0 .. MaxCalls
    BY UpdateProjectWrites
  <1>3. bodies'[FreeSlot].shifted = {} /\ bodies'[FreeSlot].roots = calls[c].roots
    BY <1>2
  <1> QED
    BY <1>1, <1>2, <1>3, NewRecord

LEMMA WriteSound ==
    ASSUME IInv, NEW c \in Callers, Write(c)
    PROVE  IInv'
  <1>1. CASE project = Absent
    BY <1>1, ReturnSound DEF Write
  <1>2. CASE project # Absent
    BY <1>2, UpdateProjectSound DEF Write
  <1> QED
    BY <1>1, <1>2

\* What a host writes, in either of its two operations.
HostWrites(host) ==
    LET default == NormalizeDefaultRootID(host.default, host.roots)
        bs == [bodies EXCEPT ![FreeSlot] = [NoBody EXCEPT !.roots = host.roots]]
    IN  /\ default # Absent
        /\ project' = [body |-> FreeSlot, default |-> default]
        /\ calls' = Overtake(calls, Absent)
        /\ bodies' \in {bs, Collect(bs, project', calls)}
        /\ UNCHANGED <<sharing, skills, files, started>>

LEMMA HostWritesRecord ==
    ASSUME IInv, NEW host \in HostProjects, HostWrites(host)
    PROVE  LET default == NormalizeDefaultRootID(host.default, host.roots)
           IN  /\ sharing' = sharing /\ default \in Defaults /\ Listed(default, host.roots)
               /\ project' = [body |-> FreeSlot, default |-> default]
               /\ bodies' \in [Slots -> Body]
               /\ bodies'[FreeSlot] = [NoBody EXCEPT !.roots = host.roots]
               /\ calls' \in [Callers -> Call \cup {Idle}]
               /\ \A d \in Callers : Same(calls[d], calls'[d])
               /\ \A d \in Callers : \A s \in Slots : Holds(calls'[d], s) => bodies'[s] = bodies[s]
               /\ skills' \in [Skills -> Skill \cup {Absent}] /\ files' \in FileSets /\ started' \in 0 .. MaxCalls
  <1>1. /\ calls \in [Callers -> Call \cup {Idle}] /\ bodies \in [Slots -> Body]
        /\ host.roots \in Seq(RootEntry) /\ host.default \in Defaults
    BY ContextAssumption DEF IInv, TypeOK
  <1>2. PICK default : default = NormalizeDefaultRootID(host.default, host.roots)
    OBVIOUS
  <1>3. default \in Defaults /\ Listed(default, host.roots)
    BY <1>1, <1>2, Normalised DEF HostWrites
  <1>4. PICK body : body = [NoBody EXCEPT !.roots = host.roots]
    OBVIOUS
  <1>5. body \in Body /\ body.shifted = {} /\ body.roots = host.roots
    <2>1. NoBody \in Body /\ NoBody.shifted = {}
      BY DEF NoBody, Body
    <2> QED
      BY <2>1, <1>1, <1>4 DEF Body
  <1>6. FreeSlot \in Slots /\ ~InUse(project, calls, FreeSlot)
    BY SlotIsFree DEF IInv
  <1>7. PICK bs : bs = [bodies EXCEPT ![FreeSlot] = body]
    OBVIOUS
  <1>8. bs \in [Slots -> Body] /\ bs[FreeSlot] = body /\ \A s \in Slots \ {FreeSlot} : bs[s] = bodies[s]
    BY <1>1, <1>5, <1>6, <1>7
  <1>9. /\ project' = [body |-> FreeSlot, default |-> default]
        /\ calls' = Overtake(calls, Absent)
        /\ bodies' \in {bs, Collect(bs, project', calls)}
        /\ UNCHANGED <<sharing, skills, files, started>>
    BY <1>2, <1>4, <1>7 DEF HostWrites
  <1>10. calls' \in [Callers -> Call \cup {Idle}] /\ \A d \in Callers : Same(calls[d], calls'[d])
    BY <1>1, <1>9, OvertakeSame
  <1>11. bodies' \in [Slots -> Body] /\ \A s \in Slots : InUse(project', calls, s) => bodies'[s] = bs[s]
    BY <1>8, <1>9, CollectKeeps
  <1>12. InUse(project', calls, FreeSlot)
    <2>1. project' \in Project /\ project'.body = FreeSlot
      BY <1>3, <1>6, <1>9 DEF Project
    <2>2. project' # Absent
      BY <2>1, ContextAssumption
    <2> QED
      BY <2>1, <2>2 DEF InUse
  <1>13. \A d \in Callers : \A s \in Slots : Holds(calls'[d], s) => bodies'[s] = bodies[s]
    <2>1. \A d \in Callers : \A s \in Slots : Holds(calls'[d], s) => Holds(calls[d], s) /\ s # FreeSlot
      BY <1>6, <1>10, SameHolds DEF InUse
    <2> QED
      BY <2>1, <1>8, <1>11 DEF InUse
  <1>14. skills' \in [Skills -> Skill \cup {Absent}] /\ files' \in FileSets /\ started' \in 0 .. MaxCalls
    BY <1>9 DEF IInv, TypeOK
  <1>15. bodies'[FreeSlot] = body
    BY <1>6, <1>8, <1>11, <1>12
  <1> QED
    BY <1>2, <1>3, <1>4, <1>9, <1>10, <1>11, <1>13, <1>14, <1>15

LEMMA HostWritesSound ==
    ASSUME IInv, NEW host \in HostProjects, HostWrites(host)
    PROVE  IInv'
  <1>1. [NoBody EXCEPT !.roots = host.roots].shifted = {} /\ [NoBody EXCEPT !.roots = host.roots].roots = host.roots
    BY DEF NoBody
  <1> QED
    BY <1>1, HostWritesRecord, NewRecord

LEMMA DeleteProjectSound ==
    ASSUME IInv, DeleteProject
    PROVE  IInv'
  <1>1. /\ calls \in [Callers -> Call \cup {Idle}] /\ bodies \in [Slots -> Body]
    BY DEF IInv, TypeOK
  <1>2. /\ project' = Absent
        /\ skills' = [k \in Skills |-> Absent]
        /\ calls' = Overtake(calls, Absent)
        /\ bodies' = Collect(bodies, Absent, calls)
        /\ UNCHANGED <<sharing, files, started>>
    BY DEF DeleteProject
  <1>3. calls' \in [Callers -> Call \cup {Idle}] /\ \A d \in Callers : Same(calls[d], calls'[d])
    BY <1>1, <1>2, OvertakeSame
  <1>4. bodies' \in [Slots -> Body] /\ \A s \in Slots : InUse(Absent, calls, s) => bodies'[s] = bodies[s]
    BY <1>1, <1>2, CollectKeeps
  <1>5. \A d \in Callers : \A s \in Slots : Holds(calls'[d], s) => Holds(calls[d], s)
    BY <1>3, SameHolds
  <1>6. TypeOK'
    <2>1. OwnLists'
      BY <1>2, <1>5, OwnFrame DEF IInv
    <2> QED
      BY <1>2, <1>3, <1>4, <2>1 DEF IInv, TypeOK
  <1>7. StoredListed' /\ CopiesStay'
    BY <1>2 DEF StoredListed, CopiesStay
  <1>8. ASSUME NEW d \in Callers PROVE CallInv(d)'
    <2> DEFINE x == calls[d]
               y == calls'[d]
    <2>1. x \in Call \cup {Idle} /\ Same(x, y) /\ CallInv(d)
      BY <1>3 DEF IInv, TypeOK
    <2>2. Bounded(d)'
      <3> SUFFICES ASSUME Removing(d)'
                   PROVE  y.next \in 1..(Len(bodies'[y.slot].roots) + 1) /\ y.kept < y.next
        BY DEF Bounded, Read
      <3>1. /\ x # Idle /\ x.phase = "removing" /\ y.next = x.next /\ y.kept = x.kept /\ y.slot = x.slot
        BY <2>1 DEF Removing, Same
      <3>2. x.slot \in Slots /\ Holds(x, x.slot)
        BY <2>1, <3>1, CallFields DEF Holds
      <3>3. bodies'[y.slot] = bodies[x.slot]
        BY <3>1, <3>2, <1>4 DEF InUse
      <3>4. x.next \in 1..(Len(bodies[x.slot].roots) + 1) /\ x.kept < x.next
        BY <2>1, <3>1 DEF CallInv, Bounded, Removing, Read
      <3> QED
        BY <3>1, <3>3, <3>4
    <2>3. Ready(d)'
      BY <2>1 DEF CallInv, Ready, Same
    <2>4. Shares(d)' /\ Moved(d)' /\ Keeps(d)'
      BY <1>2 DEF Shares, Moved, Keeps
    <2> QED
      BY <2>2, <2>3, <2>4 DEF CallInv
  <1> QED
    BY <1>6, <1>7, <1>8 DEF IInv

LEMMA GetProjectSound ==
    ASSUME IInv, NEW c \in Callers, NEW edit \in Edits, GetProject(c, edit)
    PROVE  IInv'
  <1>1. /\ calls \in [Callers -> Call \cup {Idle}] /\ bodies \in [Slots -> Body]
        /\ project \in Project /\ project.body \in Slots /\ project.default \in Defaults
        /\ calls[c] = Idle /\ sharing \in BOOLEAN
    BY DEF IInv, TypeOK, Project, GetProject
  <1>2. FreeSlot \in Slots /\ ~InUse(project, calls, FreeSlot)
    BY SlotIsFree DEF IInv
  <1>3. PICK slot : slot = IF sharing THEN project.body ELSE FreeSlot
    OBVIOUS
  <1>4. slot \in Slots
    BY <1>1, <1>2, <1>3
  <1>5. PICK r : r = [phase |-> "read", edit |-> edit, slot |-> slot,
                      default |-> project.default, overtaken |-> FALSE]
    OBVIOUS
  <1>6. /\ r \in Call /\ r # Idle /\ r.phase = "read" /\ r.slot = slot /\ r.default = project.default
    <2>1. r \in Reading /\ r.phase = "read" /\ r.slot = slot /\ r.default = project.default
      BY <1>1, <1>4, <1>5 DEF Reading
    <2> QED
      BY <2>1, CallFields DEF Call
  <1>7. /\ calls' = [calls EXCEPT ![c] = r]
        /\ bodies' = [bodies EXCEPT ![slot] = bodies[project.body]]
        /\ started < MaxCalls /\ started' = started + 1
        /\ UNCHANGED <<sharing, project, skills, files>>
    BY <1>3, <1>5 DEF GetProject, Stored
  <1>8. /\ calls' \in [Callers -> Call \cup {Idle}] /\ calls'[c] = r
        /\ \A d \in Callers \ {c} : calls'[d] = calls[d]
    BY <1>1, <1>6, <1>7
  <1>9. /\ bodies' \in [Slots -> Body]
        /\ \A s \in Slots : InUse(project, calls, s) => bodies'[s] = bodies[s]
    BY <1>1, <1>2, <1>3, <1>4, <1>7
  <1>10. project # Absent /\ InUse(project, calls, project.body)
    BY <1>1 DEF InUse, GetProject
  <1>11. OwnLists'
    <2> SUFFICES ASSUME NEW a \in Callers, NEW b \in Callers, NEW s \in Slots, ~sharing, Holds(calls'[a], s)
                 PROVE  project.body # s /\ (Holds(calls'[b], s) => a = b)
      BY <1>7 DEF OwnLists
    <2>1. slot = FreeSlot /\ slot # project.body /\ \A d \in Callers : ~Holds(calls[d], slot)
      BY <1>2, <1>3, <1>10 DEF InUse
    <2>2. Holds(r, s) <=> s = slot
      BY <1>6 DEF Holds
    <2>3. ASSUME NEW d \in Callers, Holds(calls'[d], s) PROVE IF d = c THEN s = slot ELSE Holds(calls[d], s)
      BY <1>8, <2>2, <2>3
    <2>4. Holds(calls[a], s) => project.body # s /\ (Holds(calls[b], s) => a = b)
      BY <1>10 DEF IInv, TypeOK, OwnLists
    <2> QED
      BY <2>1, <2>3, <2>4
  <1>12. CallInv(c)'
    <2>1. Bounded(c)' /\ Ready(c)' /\ Keeps(c)'
      BY <1>6, <1>8 DEF Bounded, Ready, Keeps, Removing
    <2>2. Shares(c)'
      BY <1>6, <1>7, <1>8 DEF Shares
    <2>3. Moved(c)'
      <3>1. Stored.shifted # {c} \/ ~sharing
        BY <1>1, <1>10 DEF IInv, CallInv, Moved
      <3>2. Stored' = Stored
        BY <1>1, <1>7, <1>9, <1>10 DEF Stored
      <3> QED
        BY <1>7, <3>1, <3>2 DEF Moved
    <2> QED
      BY <2>1, <2>2, <2>3 DEF CallInv
  <1>13. started' \in 0 .. MaxCalls
    BY <1>7, ContextAssumption DEF IInv, TypeOK
  <1>14. skills' \in [Skills -> Skill \cup {Absent}] /\ files' \in FileSets
    BY <1>7 DEF IInv, TypeOK
  <1>15. \A d \in Callers \ {c} : Same(calls[d], calls'[d])
    BY <1>8, SameReflexive
  <1>16. Alike(project.body)
    BY <1>1, <1>9, <1>10, SameBodyAlike
  <1>17. \A d \in Callers \ {c} : \A s \in Slots : Holds(calls[d], s) => Alike(s)
    BY <1>9, SameBodyAlike DEF InUse
  <1>18. project' = project /\ sharing' = sharing
    BY <1>7
  <1> QED
    BY <1>8, <1>9, <1>11, <1>12, <1>13, <1>14, <1>15, <1>16, <1>17, <1>18, QuietStep

-----------------------------------------------------------------------------
(* The helpers' edits.                                                     *)

LEMMA Reader ==
    ASSUME IInv, NEW c \in Callers, calls[c] # Idle, calls[c].phase \in {"read", "edited"}
    PROVE  /\ calls[c] \in Reading /\ calls[c] \in Call
           /\ calls[c].slot \in Slots /\ Holds(calls[c], calls[c].slot)
           /\ Read(c) \in Body
           /\ Read(c).roots \in Seq(RootEntry) /\ Read(c).sources \in Seq(SourceEntry)
           /\ calls[c].default \in Defaults /\ calls[c].edit \in Edits
           /\ ~(sharing /\ project # Absent /\ Stored.shifted = {c})
  <1>1. calls[c] \in Call /\ bodies \in [Slots -> Body]
    BY DEF IInv, TypeOK
  <1>2. /\ calls[c] \in Reading /\ calls[c].slot \in Slots
        /\ calls[c].default \in Defaults /\ calls[c].edit \in Edits
    BY <1>1, CallFields
  <1>3. Read(c) \in Body /\ Read(c).roots \in Seq(RootEntry) /\ Read(c).sources \in Seq(SourceEntry)
    BY <1>1, <1>2 DEF Read, Body
  <1>4. ~(sharing /\ project # Absent /\ Stored.shifted = {c})
    BY DEF IInv, CallInv, Moved
  <1>5. Holds(calls[c], calls[c].slot)
    BY DEF Holds
  <1> QED
    BY <1>1, <1>2, <1>3, <1>4, <1>5

LEMMA RootAddedSound ==
    ASSUME IInv, NEW c \in Callers, CreateRoot(c) \/ AttachProjectRoot(c)
    PROVE  IInv'
  <1>1. calls[c] # Idle /\ calls[c].phase = "read" /\ calls[c].edit.op \in {"CreateRoot", "AttachProjectRoot"}
    BY DEF CreateRoot, AttachProjectRoot, Editing
  <1>2. /\ Read(c).roots \in Seq(RootEntry) /\ Read(c).sources \in Seq(SourceEntry)
        /\ calls[c].default \in Defaults /\ calls[c].edit \in Edits
        /\ ~(sharing /\ project # Absent /\ Stored.shifted = {c})
    BY <1>1, Reader
  <1>3. NormalizedRoot(c) \in RootEntry
    BY <1>1, <1>2, EditFields DEF NormalizedRoot, Target
  <1>4. CASE Return(c)
    BY <1>2, <1>4, ReturnSound
  <1>5. CASE ~Return(c)
    <2>1. Normalized(c, Append(Read(c).roots, NormalizedRoot(c)), Read(c).sources, calls[c].default)
      BY <1>5 DEF CreateRoot, AttachProjectRoot
    <2>2. Append(Read(c).roots, NormalizedRoot(c)) \in Seq(RootEntry)
      BY <1>2, <1>3, AppendIds
    <2> QED
      BY <1>1, <1>2, <2>1, <2>2, NormalizedSound
  <1> QED
    BY <1>4, <1>5

LEMMA DeleteRootSound ==
    ASSUME IInv, NEW c \in Callers, DeleteRoot(c)
    PROVE  IInv'
  <1>1. calls[c] # Idle /\ calls[c].phase = "read"
    BY DEF DeleteRoot, Editing
  <1>2. /\ Read(c).roots \in Seq(RootEntry) /\ Read(c).sources \in Seq(SourceEntry)
        /\ calls[c].default \in Defaults
        /\ ~(sharing /\ project # Absent /\ Stored.shifted = {c})
    BY <1>1, Reader
  <1>3. CASE Return(c)
    BY <1>2, <1>3, ReturnSound
  <1>4. CASE ~Return(c)
    <2> DEFINE default == IF calls[c].default = Target(c) THEN NoRoot ELSE calls[c].default
    <2>1. Normalized(c, Without(Read(c).roots, Target(c)), Read(c).sources, default)
      BY <1>4 DEF DeleteRoot
    <2>2. Without(Read(c).roots, Target(c)) \in Seq(RootEntry)
      BY <1>2, WithoutIds
    <2>3. default \in Defaults
      BY <1>2 DEF Defaults
    <2> HIDE DEF default
    <2> QED
      BY <1>1, <1>2, <2>1, <2>2, <2>3, NormalizedSound
  <1> QED
    BY <1>3, <1>4

LEMMA SourceEditSound ==
    ASSUME IInv, NEW c \in Callers, CreateContextSource(c) \/ DeleteContextSource(c)
    PROVE  IInv'
  <1>1. /\ calls[c] # Idle /\ calls[c].phase = "read"
        /\ calls[c].edit.op \in {"CreateContextSource", "DeleteContextSource"}
    BY DEF CreateContextSource, DeleteContextSource, Editing
  <1>2. /\ Read(c).roots \in Seq(RootEntry) /\ Read(c).sources \in Seq(SourceEntry)
        /\ calls[c].default \in Defaults /\ calls[c].edit \in Edits
        /\ ~(sharing /\ project # Absent /\ Stored.shifted = {c})
    BY <1>1, Reader
  <1>3. NormalizedSource(c) \in SourceEntry
    BY <1>1, <1>2, EditFields DEF NormalizedSource, Target
  <1>4. CASE Return(c)
    BY <1>2, <1>4, ReturnSound
  <1>5. CASE ~Return(c)
    <2>1. PICK sources : /\ sources \in {Append(Read(c).sources, NormalizedSource(c)),
                                        Without(Read(c).sources, Target(c))}
                         /\ Normalized(c, Read(c).roots, sources, calls[c].default)
      BY <1>5 DEF CreateContextSource, DeleteContextSource
    <2>2. sources \in Seq(SourceEntry)
      <3>1. CASE sources = Append(Read(c).sources, NormalizedSource(c))
        BY <1>2, <1>3, <3>1, AppendIds
      <3>2. CASE sources = Without(Read(c).sources, Target(c))
        BY <1>2, <3>2, WithoutIds
      <3> QED
        BY <2>1, <3>1, <3>2
    <2> QED
      BY <1>1, <1>2, <2>1, <2>2, NormalizedSound
  <1> QED
    BY <1>4, <1>5

LEMMA WholeEditSound ==
    ASSUME IInv, NEW c \in Callers, SetProjectDefaults(c) \/ PatchProject(c) \/ FinishUpdate(c)
    PROVE  IInv'
  <1>1. /\ calls[c] # Idle /\ calls[c].phase \in {"read", "edited"}
    BY DEF SetProjectDefaults, PatchProject, FinishUpdate, Editing
  <1>2. /\ Read(c).roots \in Seq(RootEntry) /\ Read(c).sources \in Seq(SourceEntry)
        /\ calls[c].default \in Defaults /\ calls[c].edit \in Edits
        /\ ~(sharing /\ project # Absent /\ Stored.shifted = {c})
    BY <1>1, Reader
  <1>3. PICK roots, default :
           /\ roots \in Seq(RootEntry) /\ default \in Defaults
           /\ Normalized(c, roots, Read(c).sources, default)
    <2>1. CASE SetProjectDefaults(c)
      <3>1. Target(c) \in Defaults
        BY <1>2, <2>1, EditFields DEF SetProjectDefaults, Editing, Target, Defaults
      <3> QED
        BY <1>2, <2>1, <3>1 DEF SetProjectDefaults
    <2>2. CASE FinishUpdate(c)
      BY <1>2, <2>2 DEF FinishUpdate
    <2>3. CASE PatchProject(c)
      <3> DEFINE given == calls[c].edit.content
                 default == IF calls[c].default \in Ids(given) THEN calls[c].default ELSE NoRoot
      <3>1. CASE Normalized(c, Read(c).roots, Read(c).sources, calls[c].default)
        BY <1>2, <3>1
      <3>2. CASE Editing(c, "PatchRoots") /\ Normalized(c, given, Read(c).sources, default)
        <4>1. given \in Seq(RootEntry)
          BY <1>2, <3>2, EditFields DEF Editing
        <4>2. default \in Defaults
          BY <1>2 DEF Defaults
        <4> HIDE DEF given, default
        <4> QED
          BY <3>2, <4>1, <4>2
      <3> QED
        BY <2>3, <3>1, <3>2 DEF PatchProject
    <2> QED
      BY <2>1, <2>2, <2>3
  <1> QED
    BY <1>1, <1>2, <1>3, NormalizedSound

\* An entry assigned in place: the ids of the lists stay what they were.
LEMMA AssignWrites ==
    ASSUME IInv, NEW c \in Callers, calls[c] # Idle, calls[c].phase = "read",
           NEW list \in Lists, NEW entry, entry.id = Target(c),
           list = "roots" => entry \in RootEntry, list = "sources" => entry \in SourceEntry,
           AssignEntry(c, list, entry), ~Return(c)
    PROVE  LET r == calls'[c] IN
           /\ bodies' \in [Slots -> Body] /\ \A s \in Slots : Alike(s)
           /\ \A s \in Slots \ {calls[c].slot} : bodies'[s] = bodies[s]
           /\ bodies'[calls[c].slot] = [Read(c) EXCEPT ![list] = Put(Read(c)[list], entry)]
           /\ calls' \in [Callers -> Call \cup {Idle}]
           /\ r \in Call /\ r # Idle /\ r.phase = "edited"
           /\ r.slot = calls[c].slot /\ r.default = calls[c].default
           /\ r.edit = calls[c].edit /\ r.overtaken = calls[c].overtaken
           /\ \A d \in Callers \ {c} : Same(calls[d], calls'[d])
           /\ \A d \in Callers \ {c} : IF sharing /\ calls[d] # Idle THEN calls'[d].overtaken
                                       ELSE calls'[d] = calls[d]
           /\ UNCHANGED <<sharing, project, skills, files, started>>
  <1>0. /\ calls[c] \in Reading /\ calls[c] \in Call
         /\ calls[c].slot \in Slots /\ Holds(calls[c], calls[c].slot)
         /\ Read(c) \in Body
         /\ Read(c).roots \in Seq(RootEntry) /\ Read(c).sources \in Seq(SourceEntry)
    BY Reader
  <1>1. /\ Target(c) \in Ids(Read(c)[list])
        /\ bodies' = [bodies EXCEPT ![calls[c].slot][list] = Put(@, entry)]
        /\ calls' = [IF sharing THEN Overtake(calls, c) ELSE calls EXCEPT ![c].phase = "edited"]
        /\ UNCHANGED <<sharing, project, skills, files, started>>
    BY DEF AssignEntry
  <1> DEFINE slot == calls[c].slot
  <1>2. bodies \in [Slots -> Body] /\ calls \in [Callers -> Call \cup {Idle}]
    BY DEF IInv, TypeOK
  <1>3. bodies[slot] = Read(c)
    BY DEF Read
  <1>4. PICK b : b = [bodies[slot] EXCEPT ![list] = Put(bodies[slot][list], entry)]
    OBVIOUS
  <1>5. /\ b \in Body
        /\ b.shifted = bodies[slot].shifted
        /\ SameIds(bodies[slot].roots, b.roots) /\ SameIds(bodies[slot].sources, b.sources)
    <2>0. \A l : SameIds(l, l)
      BY DEF SameIds
    <2>1. CASE list = "roots"
      <3>1. b = [bodies[slot] EXCEPT !.roots = Put(Read(c).roots, entry)]
        BY <1>3, <1>4, <2>1
      <3>2. Put(Read(c).roots, entry) \in Seq(RootEntry) /\ SameIds(Read(c).roots, Put(Read(c).roots, entry))
        <4>1. entry \in RootEntry /\ entry.id \in Ids(Read(c).roots)
          BY <1>1, <2>1
        <4> QED
          BY <1>0, <4>1, PutKeepsIds
      <3> QED
        BY <1>0, <1>3, <2>0, <3>1, <3>2 DEF Body
    <2>2. CASE list = "sources"
      <3>1. b = [bodies[slot] EXCEPT !.sources = Put(Read(c).sources, entry)]
        BY <1>3, <1>4, <2>2
      <3>2. /\ Put(Read(c).sources, entry) \in Seq(SourceEntry)
            /\ SameIds(Read(c).sources, Put(Read(c).sources, entry))
        <4>1. entry \in SourceEntry /\ entry.id \in Ids(Read(c).sources)
          BY <1>1, <2>2
        <4> QED
          BY <1>0, <4>1, PutKeepsIds
      <3> QED
        BY <1>0, <1>3, <2>0, <3>1, <3>2 DEF Body
    <2> QED
      BY <2>1, <2>2 DEF Lists
  <1>6. bodies' = [bodies EXCEPT ![slot] = b]
    BY <1>1, <1>2, <1>4, <1>0
  <1>7. /\ bodies' \in [Slots -> Body]
        /\ \A s \in Slots : Alike(s)
    <2>1. bodies' \in [Slots -> Body] /\ bodies'[slot] = b /\ \A s \in Slots \ {slot} : bodies'[s] = bodies[s]
      BY <1>0, <1>2, <1>5, <1>6
    <2>2. Alike(slot)
      BY <1>5, <2>1 DEF Alike
    <2> QED
      BY <2>1, <2>2, SameBodyAlike
  <1>8. PICK cs : cs = IF sharing THEN Overtake(calls, c) ELSE calls
    OBVIOUS
  <1>9. /\ cs \in [Callers -> Call \cup {Idle}] /\ cs[c] = calls[c]
        /\ \A d \in Callers : Same(calls[d], cs[d])
        /\ \A d \in Callers \ {c} : IF sharing /\ calls[d] # Idle THEN cs[d].overtaken ELSE cs[d] = calls[d]
    BY <1>2, <1>8, OvertakeSame, SameReflexive
  <1>10. PICK r : r = [calls[c] EXCEPT !.phase = "edited"]
    OBVIOUS
  <1>11. /\ r \in Call /\ r # Idle /\ r.phase = "edited" /\ r.slot = slot /\ r.default = calls[c].default
         /\ r.edit = calls[c].edit /\ r.overtaken = calls[c].overtaken
    <2>1. /\ r \in Reading /\ r.phase = "edited" /\ r.slot = slot /\ r.default = calls[c].default
          /\ r.edit = calls[c].edit /\ r.overtaken = calls[c].overtaken
      BY <1>0, <1>10 DEF Reading
    <2> QED
      BY <2>1, CallFields DEF Call
  <1>12. calls' = [cs EXCEPT ![c] = r]
    BY <1>1, <1>8, <1>9, <1>10
  <1>13. /\ calls' \in [Callers -> Call \cup {Idle}] /\ calls'[c] = r
         /\ \A d \in Callers \ {c} : calls'[d] = cs[d]
    BY <1>9, <1>11, <1>12
  <1>14. bodies'[slot] = b /\ b = [Read(c) EXCEPT ![list] = Put(Read(c)[list], entry)]
    BY <1>0, <1>2, <1>3, <1>4, <1>6
  <1> QED
    BY <1>1, <1>7, <1>9, <1>11, <1>13, <1>14

LEMMA AssignSound ==
    ASSUME IInv, NEW c \in Callers, calls[c] # Idle, calls[c].phase = "read",
           NEW list \in Lists, NEW entry, entry.id = Target(c),
           list = "roots" => entry \in RootEntry, list = "sources" => entry \in SourceEntry,
           AssignEntry(c, list, entry)
    PROVE  IInv'
  <1>1. /\ calls[c] \in Reading /\ calls[c] \in Call
        /\ calls[c].slot \in Slots /\ Holds(calls[c], calls[c].slot)
        /\ Read(c) \in Body
        /\ Read(c).roots \in Seq(RootEntry) /\ Read(c).sources \in Seq(SourceEntry)
        /\ ~(sharing /\ project # Absent /\ Stored.shifted = {c})
    BY Reader
  <1>2. CASE Return(c)
    BY <1>1, <1>2, ReturnSound
  <1>3. CASE ~Return(c)
    <2>1. /\ bodies' \in [Slots -> Body] /\ \A s \in Slots : Alike(s)
          /\ calls' \in [Callers -> Call \cup {Idle}]
          /\ calls'[c] # Idle /\ calls'[c].phase = "edited"
          /\ calls'[c].slot = calls[c].slot /\ calls'[c].default = calls[c].default
          /\ \A d \in Callers \ {c} : Same(calls[d], calls'[d])
          /\ UNCHANGED <<sharing, project, skills, files, started>>
      BY <1>3, AssignWrites
    <2>2. PICK r : r = calls'[c]
      OBVIOUS
    <2>3. \A d \in Callers : \A s \in Slots : Holds(calls'[d], s) => Holds(calls[d], s)
      <3>1. \A s \in Slots : Holds(r, s) => Holds(calls[c], s)
        BY <2>1, <2>2 DEF Holds
      <3> QED
        BY <2>1, <2>2, <3>1, SameHolds
    <2>4. OwnLists'
      BY <2>1, <2>3, OwnFrame DEF IInv
    <2>5. CallInv(c)'
      <3>1. Bounded(c)' /\ Ready(c)' /\ Keeps(c)'
        BY <2>1, <2>2 DEF Bounded, Ready, Keeps, Removing
      <3>2. Shares(c)'
        <4>1. sharing /\ project # Absent /\ Holds(calls[c], project.body) => calls[c].default = project.default
          BY DEF IInv, CallInv, Shares
        <4>2. Holds(r, project.body) => Holds(calls[c], project.body)
          BY <2>1, <2>2 DEF Holds
        <4> QED
          BY <2>1, <2>2, <4>1, <4>2 DEF Shares
      <3>3. Moved(c)'
        <4>1. project # Absent => project.body \in Slots
          BY DEF IInv, TypeOK, Project
        <4> QED
          BY <1>1, <2>1, <4>1 DEF Moved, Stored, Alike
      <3> QED
        BY <3>1, <3>2, <3>3 DEF CallInv
    <2>6. project # Absent => Alike(project.body)
      BY <2>1 DEF IInv, TypeOK, Project
    <2>7. skills' \in [Skills -> Skill \cup {Absent}] /\ files' \in FileSets /\ started' \in 0 .. MaxCalls
      BY <2>1 DEF IInv, TypeOK
    <2>8. project' = project /\ sharing' = sharing
      BY <2>1
    <2> QED
      BY <2>1, <2>2, <2>4, <2>5, <2>6, <2>7, <2>8, QuietStep
  <1> QED
    BY <1>2, <1>3

LEMMA UpdateEntrySound ==
    ASSUME IInv, NEW c \in Callers, UpdateRoot(c) \/ UpdateContextSource(c)
    PROVE  IInv'
  <1>1. /\ calls[c] # Idle /\ calls[c].phase = "read"
    BY DEF UpdateRoot, UpdateContextSource, Editing
  <1>2. calls[c].edit \in Edits
    BY <1>1, Reader
  <1>3. CASE UpdateRoot(c)
    <2>1. NormalizedRoot(c) \in RootEntry /\ NormalizedRoot(c).id = Target(c)
      BY <1>2, <1>3, EditFields DEF NormalizedRoot, Target, UpdateRoot, Editing
    <2>2. "roots" \in Lists /\ AssignEntry(c, "roots", NormalizedRoot(c))
      BY <1>3 DEF UpdateRoot, Lists
    <2> QED
      BY <1>1, <2>1, <2>2, AssignSound
  <1>4. CASE UpdateContextSource(c)
    <2>1. NormalizedSource(c) \in SourceEntry /\ NormalizedSource(c).id = Target(c)
      BY <1>2, <1>4, EditFields DEF NormalizedSource, Target, UpdateContextSource, Editing
    <2>2. "sources" \in Lists /\ AssignEntry(c, "sources", NormalizedSource(c))
      BY <1>4 DEF UpdateContextSource, Lists
    <2> QED
      BY <1>1, <2>1, <2>2, AssignSound
  <1> QED
    BY <1>3, <1>4

-----------------------------------------------------------------------------
(* The removal that moves entries in what it read.                         *)

LEMMA Remover ==
    ASSUME IInv, NEW c \in Callers, Removing(c)
    PROVE  /\ calls[c] \in Removal /\ calls[c] \in Call
           /\ calls[c].slot \in Slots /\ Holds(calls[c], calls[c].slot)
           /\ Read(c) = bodies[calls[c].slot] /\ Read(c) \in Body
           /\ Read(c).roots \in Seq(RootEntry) /\ Read(c).sources \in Seq(SourceEntry)
           /\ calls[c].default \in Defaults /\ calls[c].edit \in Edits
           /\ calls[c].edit.op = "RemoveProjectRoot"
           /\ calls[c].next \in 1 .. Len(Read(c).roots) + 1
           /\ calls[c].kept \in Nat /\ calls[c].kept < calls[c].next
  <1>1. calls[c] \in Call /\ bodies \in [Slots -> Body] /\ calls[c].phase = "removing" /\ calls[c] # Idle
    BY DEF IInv, TypeOK, Removing
  <1>2. /\ calls[c] \in Removal /\ calls[c].slot \in Slots
        /\ calls[c].default \in Defaults /\ calls[c].edit \in Edits
        /\ calls[c].edit.op = "RemoveProjectRoot" /\ calls[c].kept \in Nat
    BY <1>1, CallFields
  <1>3. /\ Read(c) = bodies[calls[c].slot] /\ Read(c) \in Body
        /\ Read(c).roots \in Seq(RootEntry) /\ Read(c).sources \in Seq(SourceEntry)
    BY <1>1, <1>2 DEF Read, Body
  <1>4. Holds(calls[c], calls[c].slot)
    BY <1>1 DEF Holds
  <1>5. calls[c].next \in 1 .. Len(Read(c).roots) + 1 /\ calls[c].kept < calls[c].next
    BY DEF IInv, CallInv, Bounded
  <1> QED
    BY <1>1, <1>2, <1>3, <1>4, <1>5

LEMMA RemoveProjectRootSound ==
    ASSUME IInv, NEW c \in Callers, RemoveProjectRoot(c)
    PROVE  IInv'
  <1>1. /\ calls[c] # Idle /\ calls[c].phase = "read" /\ calls[c].edit.op = "RemoveProjectRoot"
    BY DEF RemoveProjectRoot, Editing
  <1>2. /\ calls[c] \in Reading /\ calls[c] \in Call
        /\ calls[c].slot \in Slots /\ Holds(calls[c], calls[c].slot)
        /\ Read(c).roots \in Seq(RootEntry)
        /\ calls[c].default \in Defaults /\ calls[c].edit \in Edits
        /\ ~(sharing /\ project # Absent /\ Stored.shifted = {c})
    BY <1>1, Reader
  <1>3. PICK r : r = [phase |-> "removing", edit |-> calls[c].edit, slot |-> calls[c].slot,
                      default |-> calls[c].default, next |-> 1, kept |-> 0,
                      overtaken |-> calls[c].overtaken]
    OBVIOUS
  <1>4. /\ r \in Call /\ r # Idle /\ r.phase = "removing" /\ r.slot = calls[c].slot
        /\ r.default = calls[c].default /\ r.next = 1 /\ r.kept = 0 /\ r.edit = calls[c].edit
    <2>1. calls[c].overtaken \in BOOLEAN
      BY <1>2, CallFields
    <2>2. r \in Removal
      BY <1>1, <1>2, <1>3, <2>1 DEF Removal
    <2> QED
      BY <1>3, <2>2, CallFields DEF Call
  <1>5. /\ calls' = [calls EXCEPT ![c] = r]
        /\ UNCHANGED <<sharing, project, bodies, skills, files, started>>
    BY <1>3 DEF RemoveProjectRoot
  <1>6. calls \in [Callers -> Call \cup {Idle}] /\ bodies \in [Slots -> Body]
    BY DEF IInv, TypeOK
  <1>7. /\ calls' \in [Callers -> Call \cup {Idle}] /\ calls'[c] = r
        /\ \A d \in Callers \ {c} : calls'[d] = calls[d]
    BY <1>4, <1>5, <1>6
  <1>8. \A d \in Callers : \A s \in Slots : Holds(calls'[d], s) => Holds(calls[d], s)
    BY <1>1, <1>4, <1>7 DEF Holds
  <1>9. OwnLists'
    BY <1>5, <1>8, OwnFrame DEF IInv
  <1>10. CallInv(c)'
    <2>1. Bounded(c)'
      BY <1>2, <1>4, <1>5, <1>7 DEF Bounded, Read
    <2>2. Ready(c)'
      BY <1>4, <1>7 DEF Ready
    <2>3. sharing /\ project # Absent /\ calls[c].slot = project.body => calls[c].default = project.default
      BY <1>2 DEF IInv, CallInv, Shares
    <2>4. Shares(c)'
      BY <1>4, <1>5, <1>7, <2>3 DEF Shares, Holds
    <2>5. Moved(c)'
      BY <1>2, <1>5 DEF Moved, Stored
    <2>6. Keeps(c)'
      <3> SUFFICES ASSUME sharing, project # Absent, calls[c].slot = project.body, Stored.shifted \subseteq {c},
                          calls[c].default # NoRoot
                   PROVE  \E i \in Live(r, Stored.roots) : Stored.roots[i].id = calls[c].default
        BY <1>4, <1>5, <1>7 DEF Keeps, Stored
      <3>1. Stored.shifted = {}
        BY <1>2
      <3>2. project.default \in Ids(Stored.roots)
        BY <2>3, <3>1 DEF IInv, StoredListed, Listed
      <3>3. Live(r, Stored.roots) = DOMAIN Stored.roots
        <4>1. Stored.roots \in Seq(RootEntry)
          BY <1>2 DEF Read, Stored
        <4> QED
          BY <1>4, <4>1 DEF Live
      <3> QED
        BY <2>3, <3>2, <3>3 DEF Ids
    <2> QED
      BY <2>1, <2>2, <2>4, <2>5, <2>6 DEF CallInv
  <1>11. \A d \in Callers \ {c} : Same(calls[d], calls'[d])
    BY <1>7, SameReflexive
  <1>12. \A s \in Slots : Alike(s)
    BY <1>5, SameBodyAlike
  <1>13. project # Absent => Alike(project.body)
    BY <1>12 DEF IInv, TypeOK, Project
  <1>14. skills' \in [Skills -> Skill \cup {Absent}] /\ files' \in FileSets /\ started' \in 0 .. MaxCalls
    BY <1>5 DEF IInv, TypeOK
  <1>15. project' = project /\ sharing' = sharing /\ bodies' \in [Slots -> Body]
    BY <1>5, <1>6
  <1> QED
    BY <1>7, <1>9, <1>10, <1>11, <1>12, <1>13, <1>14, <1>15, QuietStep

\* The lists after one step of a removal: an entry that stays is at the end of
\* those kept, and every other entry is where it was.
LEMMA RemoveStepLists ==
    ASSUME IInv, NEW c \in Callers, RemoveStep(c)
    PROVE  LET slot == calls[c].slot
               kept == calls[c].kept
               next == calls[c].next
               roots == bodies[slot].roots
               keep == roots[next].id # calls[c].edit.id
               new == bodies'[slot]
           IN  /\ bodies' \in [Slots -> Body]
               /\ \A s \in Slots \ {slot} : bodies'[s] = bodies[s]
               /\ new.sources = bodies[slot].sources
               /\ Len(new.roots) = Len(roots)
               /\ \A i \in 1 .. Len(roots) : i # kept + 1 => new.roots[i] = roots[i]
               /\ keep => new.roots[kept + 1] = roots[next]
               /\ ~keep => new.roots = roots
               /\ \/ new.shifted = bodies[slot].shifted /\ new.roots = roots
                  \/ new.shifted = bodies[slot].shifted \cup {c} /\ keep /\ kept + 1 < next
  <1> DEFINE slot == calls[c].slot
             kept == calls[c].kept
             next == calls[c].next
             roots == bodies[slot].roots
             keep == roots[next].id # calls[c].edit.id
             moves == keep /\ roots[kept + 1] # roots[next]
  <1>1. Removing(c)
    BY DEF RemoveStep
  <1>2. /\ slot \in Slots /\ Read(c) = bodies[slot] /\ bodies[slot] \in Body /\ roots \in Seq(RootEntry)
        /\ next \in 1 .. Len(roots) + 1 /\ kept \in Nat /\ kept < next
    BY <1>1, Remover
  <1>3. /\ next <= Len(roots)
        /\ bodies' = IF moves
                     THEN [bodies EXCEPT ![slot].roots[kept + 1] = roots[next],
                                         ![slot].shifted = @ \cup {c}]
                     ELSE bodies
    BY <1>2 DEF RemoveStep
  <1>4. bodies \in [Slots -> Body]
    BY DEF IInv, TypeOK
  <1>5. CASE ~moves
    <2>1. bodies' = bodies
      BY <1>3, <1>5
    <2>2. keep => roots[kept + 1] = roots[next]
      BY <1>5
    <2> QED
      BY <2>1, <2>2, <1>4
  <1>6. CASE moves
    <2>1. PICK b : b = [roots |-> [roots EXCEPT ![kept + 1] = roots[next]],
                        sources |-> bodies[slot].sources,
                        shifted |-> bodies[slot].shifted \cup {c}]
      OBVIOUS
    <2>2. kept + 1 < next /\ kept + 1 \in 1 .. Len(roots)
      <3>1. kept + 1 # next
        BY <1>6
      <3> HIDE DEF kept, next, roots
      <3> QED
        BY <1>2, <1>3, <3>1
    <2>3. PICK nr : nr = [roots EXCEPT ![kept + 1] = roots[next]]
      OBVIOUS
    <2>4. /\ nr \in Seq(RootEntry) /\ Len(nr) = Len(roots) /\ nr[kept + 1] = roots[next]
          /\ \A i \in 1 .. Len(roots) : i # kept + 1 => nr[i] = roots[i]
      <3> HIDE DEF kept, next, roots
      <3>1. roots[next] \in RootEntry
        BY <1>2, <1>3
      <3> QED
        BY <1>2, <2>2, <2>3, <3>1
    <2>5. b.roots = nr /\ b.sources = bodies[slot].sources /\ b.shifted = bodies[slot].shifted \cup {c}
      BY <2>1, <2>3
    <2>6. b \in Body
      <3>1. b = [roots |-> nr, sources |-> bodies[slot].sources, shifted |-> bodies[slot].shifted \cup {c}]
        BY <2>1, <2>3
      <3> QED
        BY <1>2, <2>4, <3>1 DEF Body
    <2>7. bodies' = [bodies EXCEPT ![slot] = b]
      <3>1. bodies[slot] = [roots |-> roots, sources |-> bodies[slot].sources, shifted |-> bodies[slot].shifted]
        BY <1>2 DEF Body
      <3>2. bodies' = [bodies EXCEPT ![slot].roots[kept + 1] = roots[next], ![slot].shifted = @ \cup {c}]
        BY <1>3, <1>6
      <3>3. PICK one : one = [bodies EXCEPT ![slot] = [bodies[slot] EXCEPT !.roots = nr]]
        OBVIOUS
      <3>4. one = [bodies EXCEPT ![slot].roots[kept + 1] = roots[next]]
        <4> HIDE DEF slot, kept, next
        <4> QED
          BY <2>3, <3>3
      <3>5. one[slot] = [roots |-> nr, sources |-> bodies[slot].sources, shifted |-> bodies[slot].shifted]
        <4>1. one[slot] = [bodies[slot] EXCEPT !.roots = nr]
          BY <1>2, <1>4, <3>3
        <4> HIDE DEF slot
        <4> QED
          BY <3>1, <4>1
      <3>6. bodies' = [one EXCEPT ![slot] = [one[slot] EXCEPT !.shifted = one[slot].shifted \cup {c}]]
        <4> HIDE DEF slot, kept, next, roots
        <4> QED
          BY <3>2, <3>4
      <3>7. [one[slot] EXCEPT !.shifted = one[slot].shifted \cup {c}] = b
        <4>1. PICK o : o = one[slot]
          OBVIOUS
        <4>2. o = [roots |-> nr, sources |-> bodies[slot].sources, shifted |-> bodies[slot].shifted]
          BY <3>5, <4>1
        <4>3. [o EXCEPT !.shifted = o.shifted \cup {c}] =
              [roots |-> nr, sources |-> bodies[slot].sources, shifted |-> bodies[slot].shifted \cup {c}]
          <5>1. PICK t, u : t = bodies[slot].sources /\ u = bodies[slot].shifted
            OBVIOUS
          <5>2. o = [roots |-> nr, sources |-> t, shifted |-> u]
            BY <4>2, <5>1
          <5>3. o.shifted = u
            BY <5>2
          <5>4. [o EXCEPT !.shifted = u \cup {c}] = [roots |-> nr, sources |-> t, shifted |-> u \cup {c}]
            BY ONLY <5>2
          <5> QED
            BY <5>1, <5>3, <5>4
        <4> QED
          BY <2>1, <2>3, <4>1, <4>3
      <3>8. bodies' = [one EXCEPT ![slot] = b]
        BY <3>6, <3>7
      <3> HIDE DEF slot
      <3> QED
        BY <1>2, <1>4, <3>3, <3>8
    <2>8. bodies' \in [Slots -> Body] /\ bodies'[slot] = b /\ \A s \in Slots \ {slot} : bodies'[s] = bodies[s]
      <3> HIDE DEF slot
      <3> QED
        BY <1>2, <1>4, <2>6, <2>7
    <2> QED
      BY <1>6, <2>2, <2>4, <2>5, <2>8
  <1> QED
    BY <1>5, <1>6

LEMMA RemoveStepCalls ==
    ASSUME IInv, NEW c \in Callers, RemoveStep(c)
    PROVE  LET x == calls[c]
               y == calls'[c]
               keep == bodies[x.slot].roots[x.next].id # x.edit.id
           IN  /\ calls' \in [Callers -> Call \cup {Idle}]
               /\ \A d \in Callers \ {c} : Same(calls[d], calls'[d])
               /\ y \in Call /\ y.phase = "removing" /\ y.slot = x.slot /\ y.default = x.default /\ y.edit = x.edit
               /\ y.next = x.next + 1
               /\ y.kept = IF keep THEN x.kept + 1 ELSE x.kept
               /\ y.overtaken = x.overtaken
               /\ \A d \in Callers \ {c} : \/ calls'[d] = calls[d] /\ (calls[d] = Idle \/ bodies' = bodies \/ ~sharing)
                                           \/ calls'[d] # Idle /\ calls'[d].overtaken
  <1> DEFINE x == calls[c]
             roots == bodies[x.slot].roots
             keep == roots[x.next].id # x.edit.id
             moves == keep /\ roots[x.kept + 1] # roots[x.next]
  <1>1. /\ Removing(c) /\ x \in Removal /\ x \in Call /\ Read(c) = bodies[x.slot]
        /\ x.next \in Nat /\ x.kept \in Nat
    <2>1. Removing(c)
      BY DEF RemoveStep
    <2> QED
      BY <2>1, Remover DEF Removal
  <1>2. calls \in [Callers -> Call \cup {Idle}]
    BY DEF IInv, TypeOK
  <1>3. PICK cs : cs = IF moves /\ sharing THEN Overtake(calls, c) ELSE calls
    OBVIOUS
  <1>4. /\ cs \in [Callers -> Call \cup {Idle}] /\ cs[c] = x
        /\ \A d \in Callers : Same(calls[d], cs[d])
        /\ \A d \in Callers \ {c} : \/ cs[d] = calls[d] /\ (calls[d] = Idle \/ ~moves \/ ~sharing)
                                    \/ cs[d] # Idle /\ cs[d].overtaken
    <2>1. \A d \in Callers : calls[d] # Idle /\ Same(calls[d], cs[d]) => cs[d] # Idle
      BY DEF Same
    <2> HIDE DEF moves
    <2> QED
      BY <1>2, <1>3, <2>1, OvertakeSame, SameReflexive
  <1>5. PICK n : n = IF keep THEN x.kept + 1 ELSE x.kept
    OBVIOUS
  <1>6. PICK r : r = [phase |-> "removing", edit |-> x.edit, slot |-> x.slot, default |-> x.default,
                      next |-> x.next + 1, kept |-> n, overtaken |-> x.overtaken]
    OBVIOUS
  <1>7. n \in Nat
    <2> HIDE DEF keep
    <2> QED
      BY <1>1, <1>5
  <1>8. /\ r \in Call /\ r.phase = "removing" /\ r.slot = x.slot /\ r.default = x.default /\ r.edit = x.edit
        /\ r.next = x.next + 1 /\ r.kept = n /\ r.overtaken = x.overtaken
    <2>1. r \in Removal
      BY <1>1, <1>6, <1>7 DEF Removal
    <2> QED
      BY <1>6, <2>1 DEF Call
  <1>9. calls' = [cs EXCEPT ![c] = r]
    <2>1. calls' = [cs EXCEPT ![c].next = @ + 1, ![c].kept = IF keep THEN @ + 1 ELSE @]
      BY <1>1, <1>3 DEF RemoveStep
    <2>2. PICK one : one = [cs EXCEPT ![c].next = @ + 1]
      OBVIOUS
    <2>3. PICK g : g = [x EXCEPT !.next = x.next + 1]
      OBVIOUS
    <2>4. g \in Removal /\ g.kept = x.kept
      BY <1>1, <2>3 DEF Removal
    <2>5. one = [cs EXCEPT ![c] = g]
      BY <1>4, <2>2, <2>3
    <2>6. one[c] = g
      BY <1>4, <2>5
    <2>7. PICK h : h = [g EXCEPT !.kept = n]
      OBVIOUS
    <2>8. h = r
      <3>1. x = [phase |-> "removing", edit |-> x.edit, slot |-> x.slot, default |-> x.default,
                 next |-> x.next, kept |-> x.kept, overtaken |-> x.overtaken]
        BY <1>1 DEF Removal
      <3>2. g = [phase |-> "removing", edit |-> x.edit, slot |-> x.slot, default |-> x.default,
                 next |-> x.next + 1, kept |-> x.kept, overtaken |-> x.overtaken]
        <4>1. PICK e, s, t, m, k, o : /\ e = x.edit /\ s = x.slot /\ t = x.default /\ m = x.next
                                      /\ k = x.kept /\ o = x.overtaken
          OBVIOUS
        <4>2. x = [phase |-> "removing", edit |-> e, slot |-> s, default |-> t,
                   next |-> m, kept |-> k, overtaken |-> o]
          BY <3>1, <4>1
        <4>3. g = [x EXCEPT !.next = m + 1]
          BY <2>3, <4>1
        <4> HIDE DEF x
        <4> QED
          BY <4>1, <4>2, <4>3
      <3> HIDE DEF x
      <3> QED
        BY <1>6, <2>7, <3>2
    <2>9. calls' = [one EXCEPT ![c] = h]
      <3>1. calls' = [one EXCEPT ![c].kept = IF keep THEN @ + 1 ELSE @]
        <4> HIDE DEF keep
        <4> QED
          BY <2>1, <2>2
      <3>2. calls' = [one EXCEPT ![c] = [one[c] EXCEPT !.kept = IF keep THEN one[c].kept + 1 ELSE one[c].kept]]
        <4> HIDE DEF keep
        <4> QED
          BY <3>1
      <3>3. (IF keep THEN one[c].kept + 1 ELSE one[c].kept) = n
        <4> HIDE DEF keep
        <4> QED
          BY <1>5, <2>4, <2>6
      <3> HIDE DEF keep
      <3> QED
        BY <2>6, <2>7, <3>2, <3>3
    <2> QED
      BY <1>4, <2>5, <2>8, <2>9
  <1>10. /\ calls' \in [Callers -> Call \cup {Idle}] /\ calls'[c] = r
         /\ \A d \in Callers \ {c} : calls'[d] = cs[d]
    BY <1>4, <1>8, <1>9
  <1>11. ~moves => bodies' = bodies
    BY <1>1 DEF RemoveStep
  <1> HIDE DEF moves
  <1> HIDE DEF keep
  <1> QED
    BY <1>4, <1>5, <1>8, <1>10, <1>11 DEF keep

LEMMA RemoveStepSound ==
    ASSUME IInv, NEW c \in Callers, RemoveStep(c)
    PROVE  IInv'
  <1> DEFINE x == calls[c]
             y == calls'[c]
             slot == x.slot
             roots == bodies[slot].roots
             new == bodies'[slot]
             keep == roots[x.next].id # x.edit.id
  <1>1. /\ Removing(c) /\ x \in Removal /\ x \in Call /\ Read(c) = bodies[slot]
        /\ slot \in Slots /\ Holds(x, slot) /\ roots \in Seq(RootEntry)
        /\ x.next \in 1 .. Len(roots) /\ x.kept \in Nat /\ x.kept < x.next
    <2>1. Removing(c)
      BY DEF RemoveStep
    <2>2. /\ x \in Removal /\ x \in Call /\ slot \in Slots /\ Holds(x, slot) /\ Read(c) = bodies[slot]
          /\ Read(c).roots \in Seq(RootEntry)
          /\ x.next \in 1 .. Len(Read(c).roots) + 1 /\ x.kept \in Nat /\ x.kept < x.next
      BY <2>1, Remover
    <2>3. x.next <= Len(Read(c).roots)
      BY DEF RemoveStep
    <2> HIDE DEF x
    <2> QED
      BY <2>1, <2>2, <2>3
  <1>2. UNCHANGED <<sharing, project, skills, files, started>>
    BY DEF RemoveStep
  <1>3. /\ bodies' \in [Slots -> Body]
        /\ \A s \in Slots \ {slot} : bodies'[s] = bodies[s]
        /\ new.sources = bodies[slot].sources
        /\ Len(new.roots) = Len(roots)
        /\ \A i \in 1 .. Len(roots) : i # x.kept + 1 => new.roots[i] = roots[i]
        /\ keep => new.roots[x.kept + 1] = roots[x.next]
        /\ ~keep => new.roots = roots
        /\ \/ new.shifted = bodies[slot].shifted /\ new.roots = roots
           \/ new.shifted = bodies[slot].shifted \cup {c} /\ keep /\ x.kept + 1 < x.next
    BY RemoveStepLists
  <1>4. /\ calls' \in [Callers -> Call \cup {Idle}]
        /\ \A d \in Callers \ {c} : Same(calls[d], calls'[d])
        /\ y \in Call /\ y.phase = "removing" /\ y.slot = slot /\ y.default = x.default /\ y.edit = x.edit
        /\ y.next = x.next + 1
        /\ y.kept = IF keep THEN x.kept + 1 ELSE x.kept
    BY RemoveStepCalls
  <1>5. bodies \in [Slots -> Body] /\ calls \in [Callers -> Call \cup {Idle}] /\ y # Idle
    BY <1>4, CallFields DEF IInv, TypeOK
  <1>6. ASSUME NEW d \in Callers, NEW s \in Slots, Holds(calls'[d], s) PROVE Holds(calls[d], s)
    <2>1. CASE d = c
      BY <1>1, <1>4, <1>6, <2>1 DEF Holds, Removing
    <2>2. CASE d # c
      BY <1>4, <1>6, <2>2, SameHolds
    <2> QED
      BY <2>1, <2>2
  <1>7. TypeOK'
    <2>1. OwnLists'
      BY <1>2, <1>6, OwnFrame DEF IInv
    <2> QED
      BY <1>2, <1>3, <1>4, <2>1 DEF IInv, TypeOK
  <1> DEFINE there == project # Absent /\ project.body = slot
  <1>8. there => sharing /\ Stored = bodies[slot] /\ Stored' = new
    BY <1>1, <1>2 DEF IInv, TypeOK, OwnLists, Stored
  <1>9. project # Absent /\ ~there => Stored' = Stored
    BY <1>2, <1>3 DEF Stored, IInv, TypeOK, Project
  <1> HIDE DEF x, y, new, roots, keep, slot
  <1>10. StoredListed'
    <2>1. CASE there
      <3>1. (bodies[slot].shifted = {} /\ new.roots = roots) \/ new.shifted # {}
        BY <1>3
      <3>2. new.shifted = {} => Listed(project.default, new.roots)
        BY <1>3, <1>8, <2>1, <3>1 DEF IInv, StoredListed, roots
      <3> QED
        BY <1>2, <1>8, <2>1, <3>2 DEF StoredListed
    <2>2. CASE ~there
      BY <1>2, <1>9, <2>2 DEF IInv, StoredListed
    <2> QED
      BY <2>1, <2>2
  <1>11. CopiesStay'
    BY <1>2, <1>8, <1>9 DEF IInv, CopiesStay
  <1>12. ASSUME NEW d \in Callers PROVE Bounded(d)'
    <2>1. CASE d = c
      <3>1. y.next \in 1 .. Len(new.roots) + 1 /\ y.kept < y.next
        BY <1>1, <1>3, <1>4
      <3>2. bodies'[y.slot] = new
        BY <1>4 DEF new
      <3> QED
        BY <2>1, <3>1, <3>2 DEF Bounded, Read, y
    <2>2. CASE d # c
      <3> DEFINE u == calls[d]
                 v == calls'[d]
      <3> SUFFICES ASSUME Removing(d)'
                   PROVE  v.next \in 1..(Len(bodies'[v.slot].roots) + 1) /\ v.kept < v.next
        BY DEF Bounded, Read
      <3>1. /\ u # Idle /\ u.phase = "removing" /\ v.next = u.next /\ v.kept = u.kept /\ v.slot = u.slot
        BY <1>4, <2>2 DEF Removing, Same
      <3>2. u.slot \in Slots /\ u.next \in 1..(Len(bodies[u.slot].roots) + 1) /\ u.kept < u.next
        BY <3>1, Remover DEF Removing
      <3>3. Len(bodies'[u.slot].roots) = Len(bodies[u.slot].roots)
        BY <1>3, <3>2 DEF new, roots
      <3> QED
        BY <3>1, <3>2, <3>3
    <2> QED
      BY <2>1, <2>2
  <1>13. ASSUME NEW d \in Callers PROVE Ready(d)' /\ Shares(d)'
    <2>1. Ready(d) /\ Shares(d)
      BY DEF IInv, CallInv
    <2>2. CASE d = c
      <3>1. Ready(d)'
        BY <1>4, <2>2 DEF Ready, y
      <3>2. Holds(y, project.body) => project.body = slot
        BY <1>4 DEF Holds
      <3>3. Shares(d)'
        BY <1>1, <1>2, <1>4, <2>1, <2>2, <3>2 DEF Shares, x, y
      <3> QED
        BY <3>1, <3>3
    <2>3. CASE d # c
      <3>1. Same(calls[d], calls'[d])
        BY <1>4, <2>3
      <3>2. Ready(d)'
        BY <2>1, <3>1 DEF Ready, Same
      <3>3. Shares(d)'
        BY <1>2, <2>1, <3>1 DEF Shares, Same, Holds
      <3> QED
        BY <3>2, <3>3
    <2> QED
      BY <2>2, <2>3
  <1>14. ASSUME NEW d \in Callers, d # c PROVE Moved(d)' /\ Keeps(d)'
    <2>1. Same(calls[d], calls'[d]) /\ Moved(d) /\ Keeps(d)
      BY <1>4, <1>14 DEF IInv, CallInv
    <2>2. CASE project = Absent
      BY <1>2, <2>2 DEF Moved, Keeps
    <2>3. CASE project # Absent /\ ~there
      <3>1. Stored' = Stored
        BY <1>9, <2>3
      <3>2. Moved(d)'
        BY <1>2, <2>1, <2>3, <3>1 DEF Moved, Same
      <3>3. Keeps(d)'
        <4> SUFFICES ASSUME Removing(d)', Keeps(d)
                     PROVE  Keeps(d)'
          BY <2>1 DEF Keeps
        <4>1. /\ Removing(d) /\ calls'[d].slot = calls[d].slot /\ calls'[d].default = calls[d].default
              /\ calls'[d].edit = calls[d].edit
              /\ \A l : Live(calls'[d], l) = Live(calls[d], l)
          BY <2>1 DEF Removing, Same, Live
        <4> QED
          BY <1>2, <3>1, <4>1 DEF Keeps
      <3> QED
        BY <3>2, <3>3
    <2>4. CASE there /\ new.roots = roots /\ new.shifted = bodies[slot].shifted
      <3>1. Stored'.roots = Stored.roots /\ Stored'.shifted = Stored.shifted
        BY <1>8, <2>4 DEF roots
      <3>2. Moved(d)'
        BY <1>2, <2>1, <2>4, <3>1 DEF Moved, Same
      <3>3. Keeps(d)'
        <4> SUFFICES ASSUME Removing(d)', Keeps(d)
                     PROVE  Keeps(d)'
          BY <2>1 DEF Keeps
        <4>1. /\ Removing(d) /\ calls'[d].slot = calls[d].slot /\ calls'[d].default = calls[d].default
              /\ calls'[d].edit = calls[d].edit
              /\ \A l : Live(calls'[d], l) = Live(calls[d], l)
          BY <2>1 DEF Removing, Same, Live
        <4> QED
          BY <1>2, <3>1, <4>1 DEF Keeps
      <3> QED
        BY <3>2, <3>3
    <2>5. CASE there /\ new.shifted = bodies[slot].shifted \cup {c}
      <3>1. c \in Stored'.shifted
        BY <1>8, <2>5
      <3> QED
        BY <3>1, <1>14 DEF Moved, Keeps
    <2> QED
      BY <1>3, <2>2, <2>3, <2>4, <2>5
  <1>15. Moved(c)'
    <2> SUFFICES ASSUME sharing, project # Absent, Stored'.shifted = {c}
                 PROVE  y.slot = project.body /\ y.kept + 1 < y.next
      BY <1>2, <1>4, <1>5 DEF Moved, y
    <2>1. Moved(c)
      BY DEF IInv, CallInv
    <2>2. Stored.shifted = {c} => slot = project.body /\ x.kept + 1 < x.next
      BY <1>1, <2>1 DEF Moved, Removing, x, slot
    <2>3. there /\ x.kept + 1 < x.next
      BY <1>3, <1>8, <1>9, <2>2
    <2> QED
      BY <1>1, <1>4, <2>3
  <1>16. Keeps(c)'
    <2> SUFFICES ASSUME sharing, project # Absent, y.slot = project.body, Stored'.shifted \subseteq {c},
                        y.default \notin {NoRoot, y.edit.id}
                 PROVE  \E i \in Live(y, Stored'.roots) : Stored'.roots[i].id = y.default
      BY <1>2 DEF Keeps, y
    <2>1. there /\ Stored.shifted \subseteq {c}
      BY <1>3, <1>4, <1>8
    <2>2. PICK i \in Live(x, roots) : roots[i].id = x.default
      <3>1. Keeps(c)
        BY DEF IInv, CallInv
      <3> QED
        BY <1>1, <1>4, <1>8, <2>1, <3>1 DEF Keeps, x, slot, roots
    <2>3. i \in 1 .. x.kept \/ i \in x.next .. Len(roots)
      BY <2>2 DEF Live
    <2>4. Live(y, new.roots) = (1 .. y.kept) \cup (x.next + 1 .. Len(roots))
      BY <1>3, <1>4 DEF Live
    <2>5. CASE i \in 1 .. x.kept
      <3>1. i \in 1 .. y.kept /\ i \in 1 .. Len(roots) /\ i # x.kept + 1
        BY <1>1, <1>4, <2>5
      <3> QED
        BY <1>3, <1>4, <1>8, <2>1, <2>2, <2>4, <3>1
    <2>6. CASE i = x.next
      <3>1. keep
        BY <1>4, <2>2, <2>6 DEF keep
      <3>2. x.kept + 1 \in 1 .. y.kept /\ new.roots[x.kept + 1].id = x.default
        BY <1>1, <1>3, <1>4, <2>2, <2>6, <3>1
      <3> QED
        BY <1>4, <1>8, <2>1, <2>4, <3>2
    <2>7. CASE i \in x.next + 1 .. Len(roots)
      <3>1. i \in 1 .. Len(roots) /\ i # x.kept + 1
        BY <1>1, <2>7
      <3> QED
        BY <1>3, <1>4, <1>8, <2>1, <2>2, <2>4, <2>7, <3>1
    <2> QED
      BY <1>1, <2>3, <2>5, <2>6, <2>7
  <1> QED
    BY <1>7, <1>10, <1>11, <1>12, <1>13, <1>14, <1>15, <1>16 DEF IInv, CallInv

LEMMA FinishRemovalSound ==
    ASSUME IInv, NEW c \in Callers, FinishRemoval(c)
    PROVE  IInv'
  <1> DEFINE call == calls[c]
             roots == SubSeq(Read(c).roots, 1, call.kept)
             default == IF call.default = call.edit.id THEN NoRoot ELSE call.default
  <1>1. Removing(c) /\ call # Idle
    BY DEF FinishRemoval, Removing
  <1>2. /\ Read(c) = bodies[call.slot]
        /\ Read(c).roots \in Seq(RootEntry) /\ Read(c).sources \in Seq(SourceEntry)
        /\ call.default \in Defaults
        /\ call.edit.op = "RemoveProjectRoot"
        /\ call.next = Len(Read(c).roots) + 1
        /\ call.kept \in 0 .. Len(Read(c).roots)
    <2>1. /\ Read(c) = bodies[call.slot]
          /\ Read(c).roots \in Seq(RootEntry) /\ Read(c).sources \in Seq(SourceEntry)
          /\ call.default \in Defaults
          /\ call.edit.op = "RemoveProjectRoot"
          /\ call.next \in 1 .. Len(Read(c).roots) + 1
          /\ call.kept \in Nat /\ call.kept < call.next
      BY <1>1, Remover
    <2>2. call.next > Len(Read(c).roots)
      BY DEF FinishRemoval
    <2> HIDE DEF call
    <2> QED
      BY <2>1, <2>2
  <1>3. ASSUME sharing, project # Absent, Stored.shifted = {c}
        PROVE  /\ call.slot = project.body /\ Stored = Read(c)
               /\ call.kept < Len(Read(c).roots)
               /\ \/ call.default \in {NoRoot, call.edit.id}
                  \/ \E i \in 1 .. call.kept : Read(c).roots[i].id = call.default
    <2>1. Moved(c) /\ Keeps(c)
      BY DEF IInv, CallInv
    <2>2. call.slot = project.body /\ call.kept + 1 < call.next
      BY <1>1, <1>3, <2>1 DEF Moved, Removing
    <2>3. Stored = Read(c)
      BY <1>2, <2>2 DEF Stored
    <2>4. \/ call.default \in {NoRoot, call.edit.id}
          \/ \E i \in Live(call, Read(c).roots) : Read(c).roots[i].id = call.default
      BY <1>1, <1>3, <2>1, <2>2, <2>3 DEF Keeps
    <2>5. Live(call, Read(c).roots) = 1 .. call.kept
      <3>1. Len(Read(c).roots) \in Nat
        BY <1>2
      <3> HIDE DEF call
      <3> QED
        BY <1>2, <3>1 DEF Live
    <2>6. call.kept < Len(Read(c).roots)
      <3>1. Len(Read(c).roots) \in Nat
        BY <1>2
      <3> HIDE DEF call
      <3> QED
        BY <1>2, <2>2, <3>1
    <2> QED
      BY <2>2, <2>3, <2>4, <2>5, <2>6
  <1>4. CASE call.kept = Len(Read(c).roots)
    <2>1. ~(sharing /\ project # Absent /\ Stored.shifted = {c})
      <3>1. Len(Read(c).roots) \in Nat
        BY <1>2
      <3> HIDE DEF call
      <3> QED
        BY <1>3, <1>4, <3>1
    <2>2. Return(c)
      BY <1>4 DEF FinishRemoval
    <2> QED
      BY <2>1, <2>2, ReturnSound
  <1>5. CASE call.kept # Len(Read(c).roots)
    <2>1. Normalized(c, roots, Read(c).sources, default)
      BY <1>5 DEF FinishRemoval
    <2>2. /\ roots \in Seq(RootEntry) /\ Len(roots) = call.kept
          /\ \A i \in 1 .. call.kept : roots[i] = Read(c).roots[i]
      <3> HIDE DEF call
      <3> QED
        BY <1>2, SubSeqIds
    <2>3. default \in Defaults
      BY <1>2 DEF Defaults
    <2> HIDE DEF roots
    <2>4. ASSUME sharing, project # Absent, Stored.shifted = {c}
          PROVE  NormalizeDefaultRootID(default, roots) # Absent
      <3>1. default = NoRoot \/ default \in Ids(roots)
        <4>1. CASE call.default \in {NoRoot, call.edit.id}
          BY <4>1
        <4>2. CASE call.default # call.edit.id /\ \E i \in 1 .. call.kept : Read(c).roots[i].id = call.default
          <5>1. DOMAIN roots = 1 .. call.kept
            BY <2>2
          <5> QED
            BY <2>2, <4>2, <5>1 DEF Ids
        <4> QED
          BY <1>3, <2>4, <4>1, <4>2
      <3> HIDE DEF default
      <3> QED
        BY <2>2, <2>3, <3>1, Normalised
    <2> HIDE DEF default
    <2> QED
      BY <1>1, <1>2, <2>1, <2>2, <2>3, <2>4, NormalizedSound
  <1> QED
    BY <1>4, <1>5

-----------------------------------------------------------------------------
(* Skills.                                                                 *)

\* A step that writes skills and at most ends or continues a discovery.
LEMMA SkillStep ==
    ASSUME IInv, UNCHANGED <<sharing, project, bodies, files, started>>,
           skills' \in [Skills -> Skill \cup {Absent}], calls' \in [Callers -> Call \cup {Idle}],
           \A d \in Callers :
               \/ Same(calls[d], calls'[d])
               \/ /\ calls[d] # Idle /\ calls[d].phase = "discovering"
                  /\ calls'[d] = Idle \/ calls'[d].phase = "discovering"
    PROVE  IInv'
  <1>1. bodies' \in [Slots -> Body] /\ \A s : Alike(s)
    BY SameBodyAlike DEF IInv, TypeOK
  <1>2. \A d \in Callers : \A s \in Slots : Holds(calls'[d], s) => Holds(calls[d], s)
    <2> SUFFICES ASSUME NEW d \in Callers, NEW s \in Slots, Holds(calls'[d], s)
                 PROVE  Holds(calls[d], s)
      OBVIOUS
    <2>1. Same(calls[d], calls'[d])
      BY DEF Holds
    <2> QED
      BY <2>1, SameHolds
  <1>3. TypeOK'
    <2>1. OwnLists'
      BY <1>2, OwnFrame DEF IInv
    <2> QED
      BY <2>1 DEF IInv, TypeOK
  <1>4. StoredListed' /\ CopiesStay'
    BY <1>1, StoreFrame
  <1>5. ASSUME NEW d \in Callers PROVE CallInv(d)'
    <2>1. CASE Same(calls[d], calls'[d])
      BY <1>1, <2>1, CallFrame
    <2>2. CASE /\ calls[d] # Idle /\ calls[d].phase = "discovering"
               /\ calls'[d] = Idle \/ calls'[d].phase = "discovering"
      <3>1. Moved(d)
        BY DEF IInv, CallInv
      <3>2. Moved(d)'
        BY <2>2, <3>1 DEF Moved, Stored
      <3> QED
        BY <2>2, <3>2 DEF CallInv, Bounded, Ready, Shares, Keeps, Removing, Holds
    <2> QED
      BY <2>1, <2>2
  <1> QED
    BY <1>3, <1>4, <1>5 DEF IInv

LEMMA HostSkillSound ==
    ASSUME IInv, NEW k \in Skills, NEW input \in SkillInputs,
           CreateProjectSkill(k, input) \/ UpdateProjectSkill(k, input)
    PROVE  IInv'
  <1>1. /\ skills' = [skills EXCEPT ![k] = NormalizeProjectSkill(input)]
        /\ calls' = OvertakeDiscoveries(calls, Absent)
        /\ UNCHANGED <<sharing, project, bodies, files, started>>
    BY DEF CreateProjectSkill, UpdateProjectSkill
  <1>2. NormalizeProjectSkill(input) \in Skill
    <2>1. input \in [description : Descriptions, status : SkillStatuses \cup {Unset}]
      BY ContextAssumption
    <2>2. PICK t, u : t = input.description /\ u = input.status
      OBVIOUS
    <2>3. input = [description |-> t, status |-> u] /\ t \in Descriptions /\ u \in SkillStatuses \cup {Unset}
      BY <2>1, <2>2
    <2>4. NormalizeProjectSkill(input) = [description |-> t, status |-> IF u = Unset THEN "available" ELSE u]
      BY <2>3 DEF NormalizeProjectSkill
    <2>5. (IF u = Unset THEN "available" ELSE u) \in SkillStatuses
      BY <2>3 DEF SkillStatuses
    <2> QED
      BY <2>3, <2>4, <2>5 DEF Skill
  <1>3. /\ calls' \in [Callers -> Call \cup {Idle}]
        /\ \A d \in Callers : Same(calls[d], calls'[d])
    BY <1>1, OvertakeDiscoveriesSame DEF IInv, TypeOK
  <1>4. skills' \in [Skills -> Skill \cup {Absent}]
    BY <1>1, <1>2 DEF IInv, TypeOK
  <1> QED
    BY <1>1, <1>3, <1>4, SkillStep

LEMMA ScanSkillsSound ==
    ASSUME IInv, NEW c \in Callers, ScanSkills(c)
    PROVE  IInv'
  <1>1. calls[c] # Idle /\ calls[c].phase = "read"
    BY DEF ScanSkills, Editing
  <1>2. /\ calls[c] \in Call /\ calls[c].edit \in Edits
        /\ ~(sharing /\ project # Absent /\ Stored.shifted = {c})
    BY <1>1, Reader
  <1>3. CASE project = Absent
    BY <1>2, <1>3, ReturnSound DEF ScanSkills
  <1>4. CASE project # Absent
    <2>1. PICK declared : declared = [k \in Skills |-> DeclaredStatus(Read(c), k)]
      OBVIOUS
    <2>2. declared \in [Skills -> SkillStatuses]
      BY <2>1 DEF DeclaredStatus, SkillStatuses
    <2>3. PICK todo : todo = {k \in Skills : IF declared[k] = "missing"
                                             THEN skills[k] # Absent /\ skills[k].status # "missing"
                                             ELSE TRUE}
      OBVIOUS
    <2>4. PICK r : r = [phase |-> "discovering", edit |-> calls[c].edit, prior |-> skills,
                        declared |-> declared, todo |-> todo, overtaken |-> calls[c].overtaken]
      OBVIOUS
    <2>5. r \in Call /\ r # Idle /\ r.phase = "discovering"
      <3>1. calls[c].overtaken \in BOOLEAN
        BY <1>2, CallFields
      <3>2. todo \in SUBSET Skills
        BY <2>3
      <3>3. skills \in [Skills -> Skill \cup {Absent}]
        BY DEF IInv, TypeOK
      <3>4. r \in Discovery
        BY <1>2, <2>2, <2>4, <3>1, <3>2, <3>3 DEF Discovery
      <3> QED
        BY <2>4, <3>4, CallFields DEF Call
    <2>6. /\ calls' = [calls EXCEPT ![c] = r]
          /\ bodies' = Collect(bodies, project, calls')
          /\ UNCHANGED <<sharing, project, skills, files, started>>
      BY <1>4, <2>1, <2>3, <2>4 DEF ScanSkills
    <2>7. /\ calls \in [Callers -> Call \cup {Idle}] /\ bodies \in [Slots -> Body]
          /\ project # Absent => project.body \in Slots
      BY DEF IInv, TypeOK, Project
    <2>8. /\ calls' \in [Callers -> Call \cup {Idle}]
          /\ calls'[c] = r
          /\ \A d \in Callers \ {c} : calls'[d] = calls[d]
      BY <2>5, <2>6, <2>7
    <2>9. /\ bodies' \in [Slots -> Body]
          /\ \A s \in Slots : InUse(project, calls', s) => bodies'[s] = bodies[s]
      BY <2>6, <2>7, CollectKeeps
    <2>10. project # Absent => bodies'[project.body] = bodies[project.body]
      BY <2>7, <2>9 DEF InUse
    <2>11. \A d \in Callers \ {c} : \A s \in Slots : Holds(calls[d], s) => bodies'[s] = bodies[s]
      BY <2>8, <2>9 DEF InUse
    <2>12. \A d \in Callers : \A s \in Slots : Holds(calls'[d], s) => Holds(calls[d], s)
      <3>1. \A s : ~Holds(r, s)
        BY <2>5 DEF Holds
      <3> QED
        BY <2>8, <3>1
    <2>13. OwnLists'
      BY <2>6, <2>12, OwnFrame DEF IInv
    <2>14. CallInv(c)'
      <3>1. Bounded(c)' /\ Ready(c)' /\ Keeps(c)' /\ Shares(c)'
        BY <2>5, <2>8 DEF Bounded, Ready, Keeps, Shares, Removing, Holds
      <3>2. Moved(c)'
        BY <1>2, <2>6, <2>10 DEF Moved, Stored
      <3> QED
        BY <3>1, <3>2 DEF CallInv
    <2>15. \A d \in Callers \ {c} : Same(calls[d], calls'[d])
      BY <2>8, SameReflexive
    <2>16. skills' \in [Skills -> Skill \cup {Absent}] /\ files' \in FileSets /\ started' \in 0 .. MaxCalls
      BY <2>6 DEF IInv, TypeOK
    <2>17. project # Absent => Alike(project.body)
      BY <2>10, SameBodyAlike
    <2>18. \A d \in Callers \ {c} : \A s \in Slots : Holds(calls[d], s) => Alike(s)
      BY <2>11, SameBodyAlike
    <2>19. project' = project /\ sharing' = sharing
      BY <2>6
    <2> QED
      BY <2>8, <2>9, <2>13, <2>14, <2>15, <2>16, <2>17, <2>18, <2>19, QuietStep
  <1> QED
    BY <1>3, <1>4

\* The description of a skill that was registered before: as it was listed, but
\* the file's where a found skill had none.
DescriptionKept(call, k, description) ==
    description = IF call.prior[k].description = Blank /\ call.declared[k] # "missing"
                  THEN FileDescription ELSE call.prior[k].description

\* What discovery writes for a skill is a record of it with the declared status.
LEMMA ReconciledSkill ==
    ASSUME NEW call \in Discovery, NEW k \in Skills
    PROVE  /\ Reconciled(call, k) \in Skill
           /\ Reconciled(call, k).status = call.declared[k]
           /\ call.prior[k] # Absent => DescriptionKept(call, k, Reconciled(call, k).description)
  <1>1. call.prior[k] \in Skill \cup {Absent} /\ call.declared[k] \in SkillStatuses
    BY DEF Discovery
  <1>2. FileDescription \in Descriptions
    BY ContextAssumption
  <1> DEFINE prior == call.prior[k]
             fromFile == prior = Absent \/ (call.declared[k] # "missing" /\ prior.description = Blank)
             description == IF fromFile THEN FileDescription ELSE prior.description
  <1>3. description \in Descriptions
    BY <1>1, <1>2 DEF Skill
  <1>4. Reconciled(call, k) = [description |-> description, status |-> call.declared[k]]
    BY DEF Reconciled
  <1>5. prior # Absent => DescriptionKept(call, k, description)
    BY DEF DescriptionKept
  <1> HIDE DEF description
  <1> QED
    BY <1>1, <1>3, <1>4, <1>5 DEF Skill

LEMMA DiscoverStepSound ==
    ASSUME IInv, NEW c \in Callers, NEW k \in Skills, DiscoverStep(c, k)
    PROVE  IInv'
  <1> DEFINE call == calls[c]
             refused == project = Absent \/ (call.prior[k] = Absent) # (skills[k] = Absent)
  <1>1. /\ call # Idle /\ call.phase = "discovering"
        /\ calls \in [Callers -> Call \cup {Idle}] /\ skills \in [Skills -> Skill \cup {Absent}]
    BY DEF DiscoverStep, IInv, TypeOK
  <1>2. call \in Call /\ call \in Discovery
    BY <1>1, CallFields
  <1>3. /\ skills' = IF refused THEN skills ELSE [skills EXCEPT ![k] = Reconciled(call, k)]
        /\ calls' = IF refused THEN [calls EXCEPT ![c] = Idle]
                    ELSE [OvertakeDiscoveries(calls, c) EXCEPT ![c].todo = @ \ {k}]
        /\ UNCHANGED <<sharing, project, bodies, files, started>>
    BY DEF DiscoverStep
  <1>4. CASE refused
    <2>1. skills' = skills /\ calls' = [calls EXCEPT ![c] = Idle]
      BY <1>3, <1>4
    <2>2. /\ calls' \in [Callers -> Call \cup {Idle}] /\ calls'[c] = Idle
          /\ \A d \in Callers \ {c} : calls'[d] = calls[d]
      BY <1>1, <2>1
    <2>3. \A d \in Callers \ {c} : Same(calls[d], calls'[d])
      BY <2>2, SameReflexive
    <2> QED
      BY <1>1, <1>3, <2>1, <2>2, <2>3, SkillStep
  <1>5. CASE ~refused
    <2>1. PICK cs : cs = OvertakeDiscoveries(calls, c)
      OBVIOUS
    <2>2. /\ skills' = [skills EXCEPT ![k] = Reconciled(call, k)]
          /\ calls' = [cs EXCEPT ![c].todo = @ \ {k}]
      BY <1>3, <1>5, <2>1
    <2>3. /\ cs \in [Callers -> Call \cup {Idle}] /\ cs[c] = call
          /\ \A d \in Callers : Same(calls[d], cs[d])
      BY <1>1, <2>1, OvertakeDiscoveriesSame
    <2>4. Reconciled(call, k) \in Skill
      BY <1>1, <1>2, ReconciledSkill
    <2>5. skills' \in [Skills -> Skill \cup {Absent}]
      BY <1>1, <2>2, <2>4
    <2>6. PICK r : r = [call EXCEPT !.todo = call.todo \ {k}]
      OBVIOUS
    <2>7. r \in Call /\ r.phase = "discovering"
      <3>1. r \in Discovery
        BY <1>2, <2>6 DEF Discovery
      <3> QED
        BY <3>1 DEF Call, Discovery
    <2>8. calls' = [cs EXCEPT ![c] = r]
      BY <2>2, <2>3, <2>6
    <2>9. /\ calls' \in [Callers -> Call \cup {Idle}] /\ calls'[c] = r
          /\ \A d \in Callers \ {c} : Same(calls[d], calls'[d])
      BY <2>3, <2>7, <2>8
    <2> QED
      BY <1>1, <1>3, <2>5, <2>7, <2>9, SkillStep
  <1> QED
    BY <1>4, <1>5

LEMMA FinishDiscoverySound ==
    ASSUME IInv, NEW c \in Callers, FinishDiscovery(c)
    PROVE  IInv'
  <1>1. ~(sharing /\ project # Absent /\ Stored.shifted = {c})
    <2>1. Moved(c)
      BY DEF IInv, CallInv
    <2> QED
      BY <2>1 DEF FinishDiscovery, Moved
  <1> QED
    BY <1>1, ReturnSound DEF FinishDiscovery

-----------------------------------------------------------------------------
(* Ids stay unique in a copying store.                                     *)

LEMMA UniqueFrame ==
    ASSUME UInv, ~sharing, NEW d \in Callers, calls[d] \in Call \cup {Idle}, Same(calls[d], calls'[d]),
           \A s \in Slots : Holds(calls[d], s) => bodies'[s] = bodies[s]
    PROVE  CallUnique(d)'
  <1> DEFINE x == calls[d]
             y == calls'[d]
  <1>1. CallUnique(d)
    BY DEF UInv
  <1>2. CASE y # Idle /\ y.phase \in {"read", "edited", "removing"}
    <2>1. /\ x # Idle /\ x.phase = y.phase /\ x.slot = y.slot /\ x.slot \in Slots /\ Holds(x, x.slot)
          /\ x.phase = "removing" => x.next = y.next /\ x.kept = y.kept
      BY <1>2, CallFields DEF Same, Holds
    <2>2. Read(d)' = Read(d)
      BY <2>1 DEF Read
    <2>3. x.phase = "removing" => \A l : Live(y, l) = Live(x, l)
      BY <2>1 DEF Live
    <2> QED
      BY <1>1, <1>2, <2>1, <2>2, <2>3 DEF CallUnique, Removing
  <1>3. CASE y # Idle /\ y.phase = "ready"
    BY <1>1, <1>3 DEF CallUnique, Removing, Same
  <1>4. CASE y = Idle \/ y.phase \notin {"read", "edited", "removing", "ready"}
    BY <1>4 DEF CallUnique, Removing
  <1> QED
    BY <1>2, <1>3, <1>4

LEMMA UniqueStored ==
    ASSUME UInv, project' = project, sharing' = sharing,
           project # Absent => Stored' = Stored
    PROVE  RootIdsUnique'
  BY DEF UInv, RootIdsUnique

\* A step of one call that leaves the project in its place.
LEMMA UniqueQuiet ==
    ASSUME IInv, UInv, NEW c \in Callers, project' = project, sharing' = sharing,
           ~sharing /\ project # Absent => Stored' = Stored,
           \A d \in Callers \ {c} : Same(calls[d], calls'[d]),
           ~sharing => \A d \in Callers \ {c} : \A s \in Slots : Holds(calls[d], s) => bodies'[s] = bodies[s],
           ~sharing => CallUnique(c)'
    PROVE  UInv'
  <1>1. RootIdsUnique'
    BY UniqueStored DEF RootIdsUnique
  <1>2. ASSUME ~sharing, NEW d \in Callers PROVE CallUnique(d)'
    <2>1. CASE d = c
      BY <1>2, <2>1
    <2>2. CASE d # c
      BY <1>2, <2>2, UniqueFrame DEF IInv, TypeOK
    <2> QED
      BY <2>1, <2>2
  <1> QED
    BY <1>1, <1>2 DEF UInv

\* Who holds lists in a copying store holds neither those of another nor those stored.
LEMMA OwnList ==
    ASSUME IInv, ~sharing, NEW c \in Callers, NEW s \in Slots, Holds(calls[c], s)
    PROVE  /\ project # Absent => project.body # s
           /\ \A d \in Callers \ {c} : ~Holds(calls[d], s)
  BY DEF IInv, TypeOK, OwnLists

\* A call that lets go of what it read.
LEMMA UniqueRelease ==
    ASSUME IInv, UInv, NEW c \in Callers, project' = project, sharing' = sharing,
           NEW r, calls' = [calls EXCEPT ![c] = r],
           bodies' = Collect(bodies, project, calls'),
           r = Idle \/ r.phase = "discovering" \/ (r.phase = "ready" /\ UniqueLists(r.roots, r.sources))
             \/ (sharing /\ r.phase = "ready")
    PROVE  UInv'
  <1>1. /\ calls \in [Callers -> Call \cup {Idle}] /\ bodies \in [Slots -> Body]
        /\ project # Absent => project.body \in Slots
    BY DEF IInv, TypeOK, Project
  <1>2. calls'[c] = r /\ \A d \in Callers \ {c} : calls'[d] = calls[d]
    BY <1>1
  <1>3. \A s \in Slots : InUse(project, calls', s) => bodies'[s] = bodies[s]
    BY <1>1, CollectKeeps
  <1>4. project # Absent => Stored' = Stored
    BY <1>1, <1>3 DEF InUse, Stored
  <1>5. \A d \in Callers \ {c} : \A s \in Slots : Holds(calls[d], s) => bodies'[s] = bodies[s]
    BY <1>2, <1>3 DEF InUse
  <1>6. ~sharing => CallUnique(c)'
    BY <1>2 DEF CallUnique, Removing
  <1>7. \A d \in Callers \ {c} : Same(calls[d], calls'[d])
    BY <1>2, SameReflexive
  <1> QED
    BY <1>4, <1>5, <1>6, <1>7, UniqueQuiet

LEMMA UniqueReturn ==
    ASSUME IInv, UInv, NEW c \in Callers, Return(c)
    PROVE  UInv'
  BY UniqueRelease DEF Return

LEMMA UniqueNormalized ==
    ASSUME IInv, UInv, NEW c \in Callers, NEW roots, NEW sources, NEW default,
           Normalized(c, roots, sources, default), ~sharing => UniqueLists(roots, sources)
    PROVE  UInv'
  <1> DEFINE stored == NormalizeDefaultRootID(default, roots)
  <1>1. CASE stored = Absent
    BY <1>1, UniqueReturn DEF Normalized
  <1>2. CASE stored # Absent
    <2>1. PICK r : r = [phase |-> "ready", edit |-> calls[c].edit, roots |-> roots,
                        sources |-> sources, default |-> stored, overtaken |-> calls[c].overtaken]
      OBVIOUS
    <2>2. /\ calls' = [calls EXCEPT ![c] = r]
          /\ bodies' = Collect(bodies, project, calls')
          /\ project' = project /\ sharing' = sharing
      BY <1>2, <2>1 DEF Normalized
    <2>3. r.phase = "ready" /\ r.roots = roots /\ r.sources = sources
      BY <2>1
    <2> HIDE DEF stored
    <2> QED
      BY <2>2, <2>3, UniqueRelease
  <1> QED
    BY <1>1, <1>2

\* A record written to a slot of its own.
LEMMA UniqueRecord ==
    ASSUME IInv, UInv, sharing' = sharing, project'.body = FreeSlot,
           ~sharing => UniqueLists(bodies'[FreeSlot].roots, bodies'[FreeSlot].sources),
           \A d \in Callers : calls'[d] = Idle \/ Same(calls[d], calls'[d]),
           \A d \in Callers : \A s \in Slots : Holds(calls'[d], s) => bodies'[s] = bodies[s]
    PROVE  UInv'
  <1>1. RootIdsUnique'
    BY DEF RootIdsUnique, Stored, UniqueLists
  <1>2. ASSUME ~sharing, NEW d \in Callers PROVE CallUnique(d)'
    <2>1. CASE calls'[d] = Idle
      BY <2>1 DEF CallUnique, Removing
    <2>2. CASE Same(calls[d], calls'[d])
      <3>1. \A s \in Slots : Holds(calls[d], s) => bodies'[s] = bodies[s]
        BY <2>2, SameHolds
      <3> QED
        BY <1>2, <2>2, <3>1, UniqueFrame DEF IInv, TypeOK
    <2> QED
      BY <2>1, <2>2
  <1> QED
    BY <1>1, <1>2 DEF UInv

LEMMA UniqueWrite ==
    ASSUME IInv, UInv, NEW c \in Callers, Write(c)
    PROVE  UInv'
  <1>1. CASE project = Absent
    BY <1>1, UniqueReturn DEF Write
  <1>2. CASE project # Absent
    <2>1. calls[c] # Idle /\ calls[c].phase = "ready" /\ UpdateProject(c)
      BY <1>2 DEF Write
    <2>2. /\ sharing' = sharing
          /\ project' = [body |-> FreeSlot, default |-> calls[c].default]
          /\ bodies'[FreeSlot] = [roots |-> calls[c].roots, sources |-> calls[c].sources, shifted |-> {}]
          /\ \A d \in Callers : calls'[d] = Idle \/ Same(calls[d], calls'[d])
          /\ \A d \in Callers : \A s \in Slots : Holds(calls'[d], s) => bodies'[s] = bodies[s]
      BY <2>1, UpdateProjectWrites
    <2>3. ~sharing => UniqueLists(calls[c].roots, calls[c].sources)
      BY <2>1 DEF UInv, CallUnique
    <2>4. /\ project'.body = FreeSlot
          /\ bodies'[FreeSlot].roots = calls[c].roots /\ bodies'[FreeSlot].sources = calls[c].sources
      BY <2>2
    <2> QED
      BY <2>2, <2>3, <2>4, UniqueRecord
  <1> QED
    BY <1>1, <1>2

LEMMA UniqueHost ==
    ASSUME IInv, UInv, NEW host \in HostProjects, HostWrites(host)
    PROVE  UInv'
  <1>1. PICK default : default = NormalizeDefaultRootID(host.default, host.roots)
    OBVIOUS
  <1>2. /\ sharing' = sharing
        /\ project' = [body |-> FreeSlot, default |-> default]
        /\ bodies'[FreeSlot] = [NoBody EXCEPT !.roots = host.roots]
        /\ \A d \in Callers : Same(calls[d], calls'[d])
        /\ \A d \in Callers : \A s \in Slots : Holds(calls'[d], s) => bodies'[s] = bodies[s]
    BY <1>1, HostWritesRecord
  <1>3. /\ project'.body = FreeSlot
        /\ bodies'[FreeSlot].roots = host.roots /\ bodies'[FreeSlot].sources = <<>>
    BY <1>2 DEF NoBody
  <1>4. UniqueLists(host.roots, <<>>)
    BY UniqueInputs DEF UniqueLists, UniqueIds
  <1> QED
    BY <1>2, <1>3, <1>4, UniqueRecord

LEMMA UniqueDelete ==
    ASSUME IInv, UInv, DeleteProject
    PROVE  UInv'
  <1>1. /\ calls \in [Callers -> Call \cup {Idle}] /\ bodies \in [Slots -> Body]
    BY DEF IInv, TypeOK
  <1>2. /\ project' = Absent
        /\ calls' = Overtake(calls, Absent)
        /\ bodies' = Collect(bodies, Absent, calls)
        /\ sharing' = sharing
    BY DEF DeleteProject
  <1>3. \A d \in Callers : Same(calls[d], calls'[d])
    BY <1>1, <1>2, OvertakeSame
  <1>4. \A s \in Slots : InUse(Absent, calls, s) => bodies'[s] = bodies[s]
    BY <1>1, <1>2, CollectKeeps
  <1>5. \A d \in Callers : \A s \in Slots : Holds(calls[d], s) => bodies'[s] = bodies[s]
    BY <1>4 DEF InUse
  <1>6. ~sharing => \A d \in Callers : CallUnique(d)'
    BY <1>1, <1>3, <1>5, UniqueFrame
  <1> QED
    BY <1>2, <1>6 DEF UInv, RootIdsUnique

LEMMA UniqueGet ==
    ASSUME IInv, UInv, NEW c \in Callers, NEW edit \in Edits, GetProject(c, edit)
    PROVE  UInv'
  <1>1. /\ calls \in [Callers -> Call \cup {Idle}] /\ bodies \in [Slots -> Body]
        /\ project # Absent /\ project \in Project /\ project.body \in Slots
    BY DEF IInv, TypeOK, Project, GetProject
  <1>2. FreeSlot \in Slots /\ ~InUse(project, calls, FreeSlot)
    BY SlotIsFree DEF IInv
  <1>3. PICK slot : slot = IF sharing THEN project.body ELSE FreeSlot
    OBVIOUS
  <1>4. PICK r : r = [phase |-> "read", edit |-> edit, slot |-> slot,
                      default |-> project.default, overtaken |-> FALSE]
    OBVIOUS
  <1>5. r.phase = "read" /\ r.slot = slot
    BY <1>4
  <1>6. /\ calls' = [calls EXCEPT ![c] = r]
        /\ bodies' = [bodies EXCEPT ![slot] = bodies[project.body]]
        /\ project' = project /\ sharing' = sharing
    BY <1>3, <1>4 DEF GetProject, Stored
  <1>7. calls'[c] = r /\ \A d \in Callers \ {c} : calls'[d] = calls[d]
    BY <1>1, <1>6
  <1>8. \A s \in Slots : InUse(project, calls, s) => bodies'[s] = bodies[s]
    BY <1>1, <1>2, <1>3, <1>6
  <1>9. Stored' = Stored
    BY <1>1, <1>6, <1>8 DEF InUse, Stored
  <1>10. \A d \in Callers \ {c} : \A s \in Slots : Holds(calls[d], s) => bodies'[s] = bodies[s]
    BY <1>8 DEF InUse
  <1>11. ASSUME ~sharing PROVE CallUnique(c)'
    <2>1. bodies'[slot] = Stored
      BY <1>1, <1>2, <1>3, <1>6 DEF Stored
    <2>2. UniqueLists(Stored.roots, Stored.sources)
      BY <1>1, <1>11 DEF UInv, RootIdsUnique, UniqueLists
    <2> QED
      BY <1>5, <1>7, <2>1, <2>2 DEF CallUnique, Removing, Read
  <1>12. \A d \in Callers \ {c} : Same(calls[d], calls'[d])
    BY <1>7, SameReflexive
  <1> QED
    BY <1>6, <1>9, <1>10, <1>11, <1>12, UniqueQuiet

\* What the edits through the write do to the ids of the lists.
LEMMA UniqueEdit ==
    ASSUME IInv, UInv, NEW c \in Callers,
           \/ CreateRoot(c) \/ AttachProjectRoot(c) \/ DeleteRoot(c)
           \/ CreateContextSource(c) \/ DeleteContextSource(c)
           \/ SetProjectDefaults(c) \/ PatchProject(c) \/ FinishUpdate(c)
    PROVE  UInv'
  <1> DEFINE roots == Read(c).roots
             sources == Read(c).sources
  <1>1. /\ calls[c] # Idle /\ calls[c].phase \in {"read", "edited"}
    BY DEF CreateRoot, AttachProjectRoot, DeleteRoot, CreateContextSource, DeleteContextSource,
           SetProjectDefaults, PatchProject, FinishUpdate, Editing
  <1>2. roots \in Seq(RootEntry) /\ sources \in Seq(SourceEntry) /\ calls[c].edit \in Edits
    BY <1>1, Reader
  <1>3. ~sharing => UniqueIds(roots) /\ UniqueIds(sources)
    BY <1>1 DEF UInv, CallUnique, UniqueLists
  <1> HIDE DEF roots, sources
  <1>4. CASE Return(c)
    BY <1>4, UniqueReturn
  <1>5. ASSUME CreateRoot(c) \/ AttachProjectRoot(c), ~Return(c) PROVE UInv'
    <2>1. /\ NormalizedRoot(c).id \notin Ids(roots)
          /\ Normalized(c, Append(roots, NormalizedRoot(c)), sources, calls[c].default)
      BY <1>5 DEF CreateRoot, AttachProjectRoot, NormalizedRoot, roots, sources
    <2>2. NormalizedRoot(c) \in RootEntry
      BY <1>2, <1>5, EditFields DEF NormalizedRoot, Target, CreateRoot, AttachProjectRoot, Editing
    <2>3. ~sharing => UniqueLists(Append(roots, NormalizedRoot(c)), sources)
      BY <1>2, <1>3, <2>1, <2>2, AppendIds DEF UniqueLists
    <2> QED
      BY <2>1, <2>3, UniqueNormalized
  <1>6. ASSUME DeleteRoot(c), ~Return(c) PROVE UInv'
    <2>1. PICK default : Normalized(c, Without(roots, Target(c)), sources, default)
      BY <1>6 DEF DeleteRoot, roots, sources
    <2>2. ~sharing => UniqueLists(Without(roots, Target(c)), sources)
      BY <1>2, <1>3, WithoutIds DEF UniqueLists
    <2> QED
      BY <2>1, <2>2, UniqueNormalized
  <1>7. ASSUME CreateContextSource(c), ~Return(c) PROVE UInv'
    <2>1. /\ NormalizedSource(c).id \notin Ids(sources)
          /\ Normalized(c, roots, Append(sources, NormalizedSource(c)), calls[c].default)
      BY <1>7 DEF CreateContextSource, NormalizedSource, roots, sources
    <2>2. NormalizedSource(c) \in SourceEntry
      BY <1>2, <1>7, EditFields DEF NormalizedSource, Target, CreateContextSource, Editing
    <2>3. ~sharing => UniqueLists(roots, Append(sources, NormalizedSource(c)))
      BY <1>2, <1>3, <2>1, <2>2, AppendIds DEF UniqueLists
    <2> QED
      BY <2>1, <2>3, UniqueNormalized
  <1>8. ASSUME DeleteContextSource(c), ~Return(c) PROVE UInv'
    <2>1. Normalized(c, roots, Without(sources, Target(c)), calls[c].default)
      BY <1>8 DEF DeleteContextSource, roots, sources
    <2>2. ~sharing => UniqueLists(roots, Without(sources, Target(c)))
      BY <1>2, <1>3, WithoutIds DEF UniqueLists
    <2> QED
      BY <2>1, <2>2, UniqueNormalized
  <1>9. ASSUME SetProjectDefaults(c) \/ FinishUpdate(c) PROVE UInv'
    <2>1. PICK default : Normalized(c, roots, sources, default)
      BY <1>9 DEF SetProjectDefaults, FinishUpdate, roots, sources
    <2> QED
      BY <1>3, <2>1, UniqueNormalized DEF UniqueLists
  <1>10. ASSUME PatchProject(c) PROVE UInv'
    <2>1. CASE Normalized(c, roots, sources, calls[c].default)
      BY <1>3, <2>1, UniqueNormalized DEF UniqueLists
    <2>2. CASE /\ Editing(c, "PatchRoots")
               /\ \E default : Normalized(c, calls[c].edit.content, sources, default)
      <3>1. UniqueIds(calls[c].edit.content)
        BY <1>2, <2>2, UniqueInputs DEF Editing
      <3> QED
        BY <1>3, <2>2, <3>1, UniqueNormalized DEF UniqueLists
    <2> QED
      BY <1>10, <2>1, <2>2 DEF PatchProject, roots, sources
  <1> QED
    BY <1>4, <1>5, <1>6, <1>7, <1>8, <1>9, <1>10

LEMMA UniqueAssign ==
    ASSUME IInv, UInv, NEW c \in Callers, UpdateRoot(c) \/ UpdateContextSource(c)
    PROVE  UInv'
  <1>1. calls[c] # Idle /\ calls[c].phase = "read"
    BY DEF UpdateRoot, UpdateContextSource, Editing
  <1>2. /\ calls[c].slot \in Slots /\ Holds(calls[c], calls[c].slot) /\ calls[c].edit \in Edits
        /\ Read(c).roots \in Seq(RootEntry) /\ Read(c).sources \in Seq(SourceEntry)
    BY <1>1, Reader
  <1>3. PICK list, entry :
            /\ list \in Lists /\ AssignEntry(c, list, entry) /\ entry.id = Target(c)
            /\ list = "roots" => entry \in RootEntry
            /\ list = "sources" => entry \in SourceEntry
    <2>1. CASE UpdateRoot(c)
      <3>1. NormalizedRoot(c) \in RootEntry /\ NormalizedRoot(c).id = Target(c)
        BY <1>2, <2>1, EditFields DEF NormalizedRoot, Target, UpdateRoot, Editing
      <3> QED
        BY <2>1, <3>1 DEF UpdateRoot, Lists
    <2>2. CASE UpdateContextSource(c)
      <3>1. NormalizedSource(c) \in SourceEntry /\ NormalizedSource(c).id = Target(c)
        BY <1>2, <2>2, EditFields DEF NormalizedSource, Target, UpdateContextSource, Editing
      <3> QED
        BY <2>2, <3>1 DEF UpdateContextSource, Lists
    <2> QED
      BY <2>1, <2>2
  <1>4. CASE Return(c)
    BY <1>4, UniqueReturn
  <1>5. CASE ~Return(c)
    <2> DEFINE slot == calls[c].slot
    <2>1. /\ bodies' \in [Slots -> Body] /\ \A s \in Slots : Alike(s)
          /\ \A s \in Slots \ {slot} : bodies'[s] = bodies[s]
          /\ calls'[c] # Idle /\ calls'[c].phase = "edited" /\ calls'[c].slot = slot
          /\ \A d \in Callers \ {c} : Same(calls[d], calls'[d])
          /\ project' = project /\ sharing' = sharing
      BY <1>1, <1>3, <1>5, AssignWrites
    <2>2. ~sharing /\ project # Absent => Stored' = Stored
      BY <1>2, <2>1, OwnList DEF Stored, IInv, TypeOK, Project
    <2>3. ~sharing => \A d \in Callers \ {c} : \A s \in Slots : Holds(calls[d], s) => bodies'[s] = bodies[s]
      BY <1>2, <2>1, OwnList
    <2>4. ASSUME ~sharing PROVE CallUnique(c)'
      <3>1. UniqueIds(bodies[slot].roots) /\ UniqueIds(bodies[slot].sources)
        BY <1>1, <2>4 DEF UInv, CallUnique, UniqueLists, Read
      <3>2. /\ SameIds(bodies[slot].roots, bodies'[slot].roots)
            /\ SameIds(bodies[slot].sources, bodies'[slot].sources)
        BY <1>2, <2>1 DEF Alike
      <3>3. /\ bodies[slot].roots \in Seq(RootEntry) /\ bodies'[slot].roots \in Seq(RootEntry)
            /\ bodies[slot].sources \in Seq(SourceEntry) /\ bodies'[slot].sources \in Seq(SourceEntry)
        BY <1>2, <2>1 DEF Read, Body
      <3> HIDE DEF slot
      <3>4. UniqueIds(bodies'[slot].roots) /\ UniqueIds(bodies'[slot].sources)
        BY <3>1, <3>2, <3>3, SameIdsSameSet
      <3> QED
        BY <2>1, <3>4 DEF CallUnique, UniqueLists, Removing, Read
    <2> QED
      BY <2>1, <2>2, <2>3, <2>4, UniqueQuiet
  <1> QED
    BY <1>4, <1>5

LEMMA UniqueRemovalStarts ==
    ASSUME IInv, UInv, NEW c \in Callers, RemoveProjectRoot(c)
    PROVE  UInv'
  <1>1. calls[c] # Idle /\ calls[c].phase = "read"
    BY DEF RemoveProjectRoot, Editing
  <1>2. PICK r : r = [phase |-> "removing", edit |-> calls[c].edit, slot |-> calls[c].slot,
                      default |-> calls[c].default, next |-> 1, kept |-> 0,
                      overtaken |-> calls[c].overtaken]
    OBVIOUS
  <1>3. r.phase = "removing" /\ r.slot = calls[c].slot /\ r.next = 1 /\ r.kept = 0
    BY <1>2
  <1>4. /\ calls' = [calls EXCEPT ![c] = r]
        /\ bodies' = bodies /\ project' = project /\ sharing' = sharing
    BY <1>2 DEF RemoveProjectRoot
  <1>5. calls'[c] = r /\ \A d \in Callers \ {c} : calls'[d] = calls[d]
    BY <1>4 DEF IInv, TypeOK
  <1>6. ASSUME ~sharing PROVE CallUnique(c)'
    <2>1. UniqueIds(Read(c).roots) /\ UniqueIds(Read(c).sources) /\ Read(c).roots \in Seq(RootEntry)
      BY <1>1, <1>6, Reader DEF UInv, CallUnique, UniqueLists
    <2>2. Live(r, Read(c).roots) = DOMAIN Read(c).roots
      BY <1>3, <2>1 DEF Live
    <2>3. Read(c)' = Read(c)
      BY <1>3, <1>4, <1>5 DEF Read
    <2> QED
      BY <1>3, <1>5, <2>1, <2>2, <2>3 DEF CallUnique, Removing, UniqueIds
  <1>7. \A d \in Callers \ {c} : Same(calls[d], calls'[d])
    BY <1>5, SameReflexive
  <1>8. project # Absent => Stored' = Stored
    BY <1>4 DEF Stored
  <1> QED
    BY <1>4, <1>6, <1>7, <1>8, UniqueQuiet

\* What a removal still has keeps its ids apart: each entry that remains is one
\* that was there, and no two are the same one.
LEMMA UniqueRemoveStep ==
    ASSUME IInv, UInv, NEW c \in Callers, RemoveStep(c)
    PROVE  UInv'
  <1> DEFINE x == calls[c]
             y == calls'[c]
             slot == x.slot
             roots == bodies[slot].roots
             new == bodies'[slot]
             keep == roots[x.next].id # x.edit.id
  <1>1. /\ Removing(c) /\ Read(c) = bodies[slot]
        /\ slot \in Slots /\ Holds(x, slot) /\ roots \in Seq(RootEntry)
        /\ x.next \in 1 .. Len(roots) /\ x.kept \in Nat /\ x.kept < x.next
    <2>1. Removing(c)
      BY DEF RemoveStep
    <2>2. /\ slot \in Slots /\ Holds(x, slot) /\ Read(c) = bodies[slot]
          /\ Read(c).roots \in Seq(RootEntry)
          /\ x.next \in 1 .. Len(Read(c).roots) + 1 /\ x.kept \in Nat /\ x.kept < x.next
      BY <2>1, Remover
    <2>3. x.next <= Len(Read(c).roots)
      BY DEF RemoveStep
    <2> HIDE DEF x
    <2> QED
      BY <2>1, <2>2, <2>3
  <1>2. project' = project /\ sharing' = sharing
    BY DEF RemoveStep
  <1>3. /\ \A s \in Slots \ {slot} : bodies'[s] = bodies[s]
        /\ new.sources = bodies[slot].sources
        /\ Len(new.roots) = Len(roots)
        /\ \A i \in 1 .. Len(roots) : i # x.kept + 1 => new.roots[i] = roots[i]
        /\ keep => new.roots[x.kept + 1] = roots[x.next]
        /\ ~keep => new.roots = roots
    BY RemoveStepLists
  <1>4. /\ \A d \in Callers \ {c} : Same(calls[d], calls'[d])
        /\ y \in Call /\ y.phase = "removing" /\ y.slot = slot
        /\ y.next = x.next + 1
        /\ y.kept = IF keep THEN x.kept + 1 ELSE x.kept
    BY RemoveStepCalls
  <1>5. ~sharing /\ project # Absent => Stored' = Stored
    BY <1>1, <1>2, <1>3, OwnList DEF Stored, IInv, TypeOK, Project
  <1>6. ~sharing => \A d \in Callers \ {c} : \A s \in Slots : Holds(calls[d], s) => bodies'[s] = bodies[s]
    BY <1>1, <1>3, OwnList
  <1>7. ASSUME ~sharing PROVE CallUnique(c)'
    <2>1. /\ UniqueIds(bodies[slot].sources)
          /\ \A i, j \in Live(x, roots) : roots[i].id = roots[j].id => i = j
      BY <1>1, <1>7 DEF UInv, CallUnique
    <2> DEFINE was(i) == IF keep /\ i = x.kept + 1 THEN x.next ELSE i
    <2> HIDE DEF x, y, slot, roots, new, keep
    <2>2. ASSUME NEW i \in Live(y, new.roots)
          PROVE  was(i) \in Live(x, roots) /\ new.roots[i] = roots[was(i)]
      <3>1. i \in 1 .. y.kept \/ i \in x.next + 1 .. Len(roots)
        BY <1>3, <1>4 DEF Live
      <3>2. CASE keep /\ i = x.kept + 1
        BY <1>1, <1>3, <3>2 DEF Live
      <3>3. CASE ~(keep /\ i = x.kept + 1)
        <4>1. i \in 1 .. x.kept \/ i \in x.next + 1 .. Len(roots)
          BY <1>1, <1>4, <3>1, <3>3
        <4>2. i \in Live(x, roots) /\ i \in 1 .. Len(roots) /\ i # x.kept + 1
          BY <1>1, <4>1 DEF Live
        <4> QED
          BY <1>3, <3>3, <4>2
      <3> QED
        BY <3>2, <3>3
    <2>3. ASSUME NEW i \in Live(y, new.roots), NEW j \in Live(y, new.roots), was(i) = was(j) PROVE i = j
      <3>1. x.next \notin Live(y, new.roots) \/ (keep /\ x.next = x.kept + 1)
        BY <1>1, <1>3, <1>4 DEF Live
      <3> QED
        BY <2>3, <3>1
    <2>4. \A i, j \in Live(y, new.roots) : new.roots[i].id = new.roots[j].id => i = j
      <3> HIDE DEF was
      <3> QED
        BY <2>1, <2>2, <2>3
    <2>5. Read(c)' = new
      BY <1>4 DEF Read, new, y
    <2> QED
      BY <1>3, <1>4, <2>1, <2>4, <2>5 DEF CallUnique, Removing, y
  <1> QED
    BY <1>2, <1>4, <1>5, <1>6, <1>7, UniqueQuiet

LEMMA UniqueRemovalEnds ==
    ASSUME IInv, UInv, NEW c \in Callers, FinishRemoval(c)
    PROVE  UInv'
  <1> DEFINE call == calls[c]
             roots == SubSeq(Read(c).roots, 1, call.kept)
  <1>1. Removing(c)
    BY DEF FinishRemoval
  <1>2. /\ Read(c).roots \in Seq(RootEntry) /\ call.kept \in 0 .. Len(Read(c).roots)
    <2>1. /\ Read(c).roots \in Seq(RootEntry)
          /\ call.next \in 1 .. Len(Read(c).roots) + 1
          /\ call.kept \in Nat /\ call.kept < call.next
      BY <1>1, Remover
    <2> HIDE DEF call
    <2> QED
      BY <2>1
  <1>3. CASE Return(c)
    BY <1>3, UniqueReturn
  <1>4. CASE ~Return(c)
    <2>1. PICK default : Normalized(c, roots, Read(c).sources, default)
      BY <1>4 DEF FinishRemoval
    <2>2. ASSUME ~sharing PROVE UniqueLists(roots, Read(c).sources)
      <3>1. /\ UniqueIds(Read(c).sources)
            /\ \A i, j \in Live(call, Read(c).roots) : Read(c).roots[i].id = Read(c).roots[j].id => i = j
        BY <1>1, <2>2 DEF UInv, CallUnique
      <3> HIDE DEF call
      <3>2. DOMAIN roots = 1 .. call.kept /\ \A i \in 1 .. call.kept : roots[i] = Read(c).roots[i]
        BY <1>2, SubSeqIds
      <3>3. 1 .. call.kept \subseteq Live(call, Read(c).roots)
        BY DEF Live
      <3> HIDE DEF roots
      <3> QED
        BY <3>1, <3>2, <3>3 DEF UniqueLists, UniqueIds
    <2> QED
      BY <2>1, <2>2, UniqueNormalized
  <1> QED
    BY <1>3, <1>4

\* A step that writes skills and at most ends or continues a discovery.
LEMMA UniqueSkillStep ==
    ASSUME IInv, UInv, project' = project, bodies' = bodies, sharing' = sharing,
           \A d \in Callers :
               Same(calls[d], calls'[d]) \/ calls'[d] = Idle \/ calls'[d].phase = "discovering"
    PROVE  UInv'
  <1>1. RootIdsUnique'
    BY UniqueStored DEF Stored
  <1>2. ASSUME ~sharing, NEW d \in Callers PROVE CallUnique(d)'
    <2>1. CASE Same(calls[d], calls'[d])
      BY <1>2, <2>1, UniqueFrame DEF IInv, TypeOK
    <2>2. CASE calls'[d] = Idle \/ calls'[d].phase = "discovering"
      BY <2>2 DEF CallUnique, Removing
    <2> QED
      BY <2>1, <2>2
  <1> QED
    BY <1>1, <1>2 DEF UInv

LEMMA UniqueSkills ==
    ASSUME IInv, UInv, NEW k \in Skills,
           \/ \E input \in SkillInputs : CreateProjectSkill(k, input) \/ UpdateProjectSkill(k, input)
           \/ \E c \in Callers : DiscoverStep(c, k)
    PROVE  UInv'
  <1>1. calls \in [Callers -> Call \cup {Idle}]
    BY DEF IInv, TypeOK
  <1>2. CASE \E input \in SkillInputs : CreateProjectSkill(k, input) \/ UpdateProjectSkill(k, input)
    <2>1. /\ calls' = OvertakeDiscoveries(calls, Absent)
          /\ project' = project /\ bodies' = bodies /\ sharing' = sharing
      BY <1>2 DEF CreateProjectSkill, UpdateProjectSkill
    <2>2. \A d \in Callers : Same(calls[d], calls'[d])
      BY <1>1, <2>1, OvertakeDiscoveriesSame
    <2> QED
      BY <2>1, <2>2, UniqueSkillStep
  <1>3. ASSUME NEW c \in Callers, DiscoverStep(c, k) PROVE UInv'
    <2>1. PICK cs : cs = OvertakeDiscoveries(calls, c)
      OBVIOUS
    <2>2. /\ cs \in [Callers -> Call \cup {Idle}] /\ cs[c] = calls[c]
          /\ \A d \in Callers : Same(calls[d], cs[d])
      BY <1>1, <2>1, OvertakeDiscoveriesSame
    <2>3. calls[c] \in Discovery /\ project' = project /\ bodies' = bodies /\ sharing' = sharing
      BY <1>1, <1>3, CallFields DEF DiscoverStep
    <2>4. \/ calls' = [calls EXCEPT ![c] = Idle]
          \/ calls' = [cs EXCEPT ![c].todo = @ \ {k}]
      BY <1>3, <2>1 DEF DiscoverStep
    <2>5. CASE calls' = [calls EXCEPT ![c] = Idle]
      <3>1. calls'[c] = Idle /\ \A d \in Callers \ {c} : Same(calls[d], calls'[d])
        BY <1>1, <2>5, SameReflexive
      <3> QED
        BY <2>3, <3>1, UniqueSkillStep
    <2>6. CASE calls' = [cs EXCEPT ![c].todo = @ \ {k}]
      <3>1. PICK r : r = [calls[c] EXCEPT !.todo = calls[c].todo \ {k}]
        OBVIOUS
      <3>2. r.phase = "discovering"
        BY <2>3, <3>1 DEF Discovery
      <3>3. calls' = [cs EXCEPT ![c] = r]
        BY <2>2, <2>6, <3>1
      <3>4. calls'[c] = r /\ \A d \in Callers \ {c} : Same(calls[d], calls'[d])
        BY <2>2, <3>3
      <3> QED
        BY <2>3, <3>2, <3>4, UniqueSkillStep
    <2> QED
      BY <2>4, <2>5, <2>6
  <1> QED
    BY <1>2, <1>3

LEMMA UniqueScan ==
    ASSUME IInv, UInv, NEW c \in Callers, ScanSkills(c) \/ FinishDiscovery(c)
    PROVE  UInv'
  <1>1. CASE Return(c)
    BY <1>1, UniqueReturn
  <1>2. CASE ~Return(c)
    <2>1. PICK declared, todo :
              /\ calls' = [calls EXCEPT ![c] =
                     [phase |-> "discovering", edit |-> calls[c].edit, prior |-> skills,
                      declared |-> declared, todo |-> todo, overtaken |-> calls[c].overtaken]]
              /\ bodies' = Collect(bodies, project, calls')
              /\ project' = project /\ sharing' = sharing
      BY <1>2 DEF ScanSkills, FinishDiscovery
    <2>2. PICK r : r = [phase |-> "discovering", edit |-> calls[c].edit, prior |-> skills,
                        declared |-> declared, todo |-> todo, overtaken |-> calls[c].overtaken]
      OBVIOUS
    <2>3. r.phase = "discovering" /\ calls' = [calls EXCEPT ![c] = r]
      BY <2>1, <2>2
    <2> QED
      BY <2>1, <2>3, UniqueRelease
  <1> QED
    BY <1>1, <1>2

LEMMA UniqueKept ==
    IInv /\ UInv /\ [Next]_vars => UInv'
  <1> SUFFICES ASSUME IInv, UInv, [Next]_vars PROVE UInv'
    OBVIOUS
  <1>1. ASSUME NEW host \in HostProjects, CreateProject(host) \/ ReplaceProject(host) PROVE UInv'
    <2>1. HostWrites(host)
      BY <1>1 DEF CreateProject, ReplaceProject, HostWrites
    <2> QED
      BY <2>1, UniqueHost
  <1>2. CASE DeleteProject
    BY <1>2, UniqueDelete
  <1>3. ASSUME NEW c \in Callers, NEW edit \in Edits, GetProject(c, edit) PROVE UInv'
    BY <1>3, UniqueGet
  <1>4. ASSUME NEW c \in Callers, HelperStep(c) PROVE UInv'
    <2>1. CASE \/ CreateRoot(c) \/ AttachProjectRoot(c) \/ DeleteRoot(c)
               \/ CreateContextSource(c) \/ DeleteContextSource(c)
               \/ SetProjectDefaults(c) \/ PatchProject(c) \/ FinishUpdate(c)
      BY <2>1, UniqueEdit
    <2>2. CASE UpdateRoot(c) \/ UpdateContextSource(c)
      BY <2>2, UniqueAssign
    <2>3. CASE RemoveProjectRoot(c)
      BY <2>3, UniqueRemovalStarts
    <2>4. CASE RemoveStep(c)
      BY <2>4, UniqueRemoveStep
    <2>5. CASE FinishRemoval(c)
      BY <2>5, UniqueRemovalEnds
    <2>6. CASE Write(c)
      BY <2>6, UniqueWrite
    <2>7. CASE ScanSkills(c) \/ FinishDiscovery(c)
      BY <2>7, UniqueScan
    <2> QED
      BY <1>4, <2>1, <2>2, <2>3, <2>4, <2>5, <2>6, <2>7 DEF HelperStep
  <1>5. ASSUME NEW k \in Skills,
               \/ \E input \in SkillInputs : CreateProjectSkill(k, input) \/ UpdateProjectSkill(k, input)
               \/ \E c \in Callers : DiscoverStep(c, k)
        PROVE  UInv'
    BY <1>5, UniqueSkills
  <1>6. CASE UNCHANGED vars
    <2>1. UInv' = UInv
      BY <1>6 DEF vars, UInv, RootIdsUnique, CallUnique, Removing, Read, Stored
    <2> QED
      BY <2>1
  <1> QED
    BY <1>1, <1>2, <1>3, <1>4, <1>5, <1>6 DEF Next

-----------------------------------------------------------------------------
(* The theorems.                                                           *)

LEMMA InvariantAtStart ==
    Init => IInv
  <1> SUFFICES ASSUME Init PROVE IInv
    OBVIOUS
  <1>1. NoBody \in Body
    BY DEF NoBody, Body
  <1>2. bodies \in [Slots -> Body] /\ calls \in [Callers -> Call \cup {Idle}]
    BY <1>1 DEF Init
  <1>3. \A c \in Callers : calls[c] = Idle
    BY DEF Init
  <1>4. OwnLists
    BY <1>3 DEF OwnLists, Holds
  <1>5. skills \in [Skills -> Skill \cup {Absent}] /\ started \in 0 .. MaxCalls
    BY ContextAssumption DEF Init
  <1>6. TypeOK
    BY <1>2, <1>4, <1>5 DEF Init, TypeOK
  <1>7. StoredListed /\ CopiesStay
    BY DEF Init, StoredListed, CopiesStay
  <1>8. \A c \in Callers : CallInv(c)
    BY <1>3 DEF Init, CallInv, Bounded, Ready, Shares, Moved, Keeps, Removing, Holds
  <1> QED
    BY <1>6, <1>7, <1>8 DEF IInv

LEMMA InvariantKept ==
    IInv /\ [Next]_vars => IInv'
  <1> SUFFICES ASSUME IInv, [Next]_vars PROVE IInv'
    OBVIOUS
  <1>1. ASSUME NEW host \in HostProjects, CreateProject(host) \/ ReplaceProject(host) PROVE IInv'
    <2>1. HostWrites(host)
      BY <1>1 DEF CreateProject, ReplaceProject, HostWrites
    <2> QED
      BY <2>1, HostWritesSound
  <1>2. CASE DeleteProject
    BY <1>2, DeleteProjectSound
  <1>3. ASSUME NEW c \in Callers, NEW edit \in Edits, GetProject(c, edit) PROVE IInv'
    BY <1>3, GetProjectSound
  <1>4. ASSUME NEW c \in Callers, HelperStep(c) PROVE IInv'
    <2>1. CASE CreateRoot(c) \/ AttachProjectRoot(c)
      BY <2>1, RootAddedSound
    <2>2. CASE DeleteRoot(c)
      BY <2>2, DeleteRootSound
    <2>3. CASE UpdateRoot(c) \/ UpdateContextSource(c)
      BY <2>3, UpdateEntrySound
    <2>4. CASE CreateContextSource(c) \/ DeleteContextSource(c)
      BY <2>4, SourceEditSound
    <2>5. CASE SetProjectDefaults(c) \/ PatchProject(c) \/ FinishUpdate(c)
      BY <2>5, WholeEditSound
    <2>6. CASE RemoveProjectRoot(c)
      BY <2>6, RemoveProjectRootSound
    <2>7. CASE RemoveStep(c)
      BY <2>7, RemoveStepSound
    <2>8. CASE FinishRemoval(c)
      BY <2>8, FinishRemovalSound
    <2>9. CASE Write(c)
      BY <2>9, WriteSound
    <2>10. CASE ScanSkills(c)
      BY <2>10, ScanSkillsSound
    <2>11. CASE FinishDiscovery(c)
      BY <2>11, FinishDiscoverySound
    <2> QED
      BY <1>4, <2>1, <2>2, <2>3, <2>4, <2>5, <2>6, <2>7, <2>8, <2>9, <2>10, <2>11 DEF HelperStep
  <1>5. ASSUME NEW c \in Callers, NEW k \in Skills, DiscoverStep(c, k) PROVE IInv'
    BY <1>5, DiscoverStepSound
  <1>6. ASSUME NEW k \in Skills, NEW input \in SkillInputs,
               CreateProjectSkill(k, input) \/ UpdateProjectSkill(k, input)
        PROVE  IInv'
    BY <1>6, HostSkillSound
  <1>7. CASE UNCHANGED vars
    <2>1. IInv' = IInv
      BY <1>7 DEF vars, IInv, TypeOK, OwnLists, StoredListed, CopiesStay, CallInv, Bounded, Ready,
                  Shares, Moved, Keeps, Removing, Read, Stored
    <2> QED
      BY <2>1
  <1> QED
    BY <1>1, <1>2, <1>3, <1>4, <1>5, <1>6, <1>7 DEF Next

\* The inductive invariant holds in every reachable state.
THEOREM InvariantHolds == Spec => []IInv
  BY InvariantAtStart, InvariantKept, PTL DEF Spec

\* Every variable has its type, a helper's record those of its phase, and over a
\* copying store no two helpers work on the same lists.
THEOREM TypesHold == Spec => []TypeOK
  <1>1. IInv => TypeOK
    BY DEF IInv
  <1> QED
    BY <1>1, InvariantHolds, PTL

\* The default root of the stored project is one of its roots, but in a shared
\* list whose entries a removal has moved: one removal alone still writes what
\* repairs it, two on the one list may not.
THEOREM DefaultRootListed == Spec => []DefaultRootIsRoot
  <1>1. ASSUME IInv PROVE DefaultRootIsRoot
    <2> SUFFICES ASSUME project # Absent PROVE DefaultRootIsRoot
      BY DEF DefaultRootIsRoot
    <2>1. CASE Stored.shifted = {}
      BY <1>1, <2>1 DEF IInv, StoredListed, Listed, DefaultRootIsRoot
    <2>2. CASE Stored.shifted # {}
      <3>1. sharing
        BY <1>1, <2>2 DEF IInv, CopiesStay
      <3>2. Stored.shifted \subseteq Callers /\ calls \in [Callers -> Call \cup {Idle}]
        BY <1>1 DEF IInv, TypeOK, Project, Body, Stored
      <3>3. PICK c \in Stored.shifted : TRUE
        BY <2>2
      <3>4. CASE \E d \in Stored.shifted : d # c
        BY <3>1, <3>3, <3>4 DEF DefaultRootIsRoot
      <3>5. CASE Stored.shifted = {c}
        <4>1. Moved(c) /\ calls[c] \in Call \cup {Idle}
          BY <1>1, <3>2, <3>3 DEF IInv, CallInv
        <4>2. calls[c] # Idle /\ calls[c].edit.op = "RemoveProjectRoot"
          BY <3>1, <3>5, <4>1, CallFields DEF Moved
        <4> QED
          BY <3>1, <3>3, <4>2 DEF DefaultRootIsRoot
      <3> QED
        BY <3>3, <3>4, <3>5
    <2> QED
      BY <2>1, <2>2
  <1> QED
    BY <1>1, InvariantHolds, PTL

\* Over a copying store, and with hosts that do not name an id twice, neither two
\* roots nor two sources of the stored project ever have one id.
THEOREM IdsStayUnique == Spec => []RootIdsUnique
  <1>1. Init => UInv
    <2> SUFFICES ASSUME Init PROVE UInv
      OBVIOUS
    <2>1. \A c \in Callers : calls[c] = Idle
      BY DEF Init
    <2>2. \A c \in Callers : CallUnique(c)
      BY <2>1 DEF CallUnique, Removing
    <2> QED
      BY <2>2 DEF Init, UInv, RootIdsUnique
  <1>2. UInv => RootIdsUnique
    BY DEF UInv
  <1>3. Spec => []UInv
    BY <1>1, UniqueKept, InvariantHolds, PTL DEF Spec
  <1> QED
    BY <1>2, <1>3, PTL

-----------------------------------------------------------------------------
(* What a call that was not overtaken knows of the stored project.         *)

\* What such a call may write over the lists of body.
ExactLists(edit, roots, sources, body) ==
    /\ IF edit.op = "PatchRoots" THEN roots = edit.content
       ELSE Entries(roots, edit.id) = Entries(body.roots, edit.id)
    /\ Entries(sources, edit.id) = Entries(body.sources, edit.id)
    /\ edit.op \in {"CreateRoot", "AttachProjectRoot", "UpdateRoot"} =>
           [id |-> edit.id, content |-> edit.content] \in Entries(roots, NoRoot)
    /\ edit.op \in {"CreateContextSource", "UpdateContextSource"} =>
           [id |-> edit.id, content |-> edit.content] \in Entries(sources, NoRoot)
    /\ edit.op \in {"DeleteRoot", "RemoveProjectRoot"} => edit.id \notin Ids(roots)
    /\ edit.op = "DeleteContextSource" => edit.id \notin Ids(sources)

\* The entries a removal still has, but for the one it removes.
HeldEntries(call, roots) == {roots[i] : i \in {j \in Live(call, roots) : roots[j].id # call.edit.id}}

\* A skill in the middle of a discovery: as it was listed, if it is still to be
\* written, and otherwise written or rightly left alone.
Discovered(call, k) ==
    LET found == call.prior[k] = Absent => call.declared[k] # "missing"
    IN  IF k \in call.todo THEN skills[k] = call.prior[k] /\ found
        ELSE \/ skills[k] = Reconciled(call, k) /\ found
             \/ /\ call.declared[k] = "missing"
                /\ skills[k] = call.prior[k]
                /\ skills[k] # Absent => skills[k].status = "missing"

ReadIsStored(c) ==
    /\ calls[c].phase = "read" => Read(c).roots = Stored.roots /\ Read(c).sources = Stored.sources
    /\ calls[c].phase = "edited" => ExactLists(calls[c].edit, Read(c).roots, Read(c).sources, Stored)
    /\ calls[c].phase = "removing" =>
           /\ Read(c).sources = Stored.sources
           /\ HeldEntries(calls[c], Read(c).roots) = Entries(Stored.roots, calls[c].edit.id)
           /\ \A i \in 1 .. calls[c].kept : Read(c).roots[i].id # calls[c].edit.id
DefaultIsStored(c) ==
    calls[c].phase \in {"read", "edited", "removing"} => calls[c].default = project.default
WritesExactly(c) ==
    calls[c].phase = "ready" =>
        /\ ExactLists(calls[c].edit, calls[c].roots, calls[c].sources, Stored)
        /\ (calls[c].edit.op # "SetProjectDefaults" /\ project.default \in Ids(calls[c].roots)) =>
               calls[c].default = project.default
FindsStored(c) ==
    calls[c].phase = "discovering" =>
        \A k \in Skills : calls[c].declared[k] = DeclaredStatus(Stored, k) /\ Discovered(calls[c], k)

Current(c) ==
    (calls[c] # Idle /\ ~calls[c].overtaken) =>
        /\ project # Absent
        /\ ReadIsStored(c) /\ DefaultIsStored(c) /\ WritesExactly(c) /\ FindsStored(c)
AllCurrent == \A c \in Callers : Current(c)

-----------------------------------------------------------------------------
(* A call that was not overtaken knows the stored project.                 *)

\* A call that a step leaves alone, with all that it knows of.
LEMMA CurrentFrame ==
    ASSUME IInv, NEW d \in Callers, Current(d),
           \/ calls'[d] = Idle
           \/ calls'[d].overtaken
           \/ /\ calls'[d] = calls[d]
              /\ project' = project /\ files' = files
              /\ project # Absent => bodies'[project.body] = bodies[project.body]
              /\ \A s \in Slots : Holds(calls[d], s) => bodies'[s] = bodies[s]
              /\ calls[d].phase = "discovering" => skills' = skills
    PROVE  Current(d)'
  <1>1. CASE calls'[d] = Idle \/ calls'[d].overtaken
    BY <1>1 DEF Current
  <1>2. CASE /\ calls'[d] = calls[d]
             /\ project' = project /\ files' = files
             /\ project # Absent => bodies'[project.body] = bodies[project.body]
             /\ \A s \in Slots : Holds(calls[d], s) => bodies'[s] = bodies[s]
             /\ calls[d].phase = "discovering" => skills' = skills
    <2> SUFFICES ASSUME calls[d] # Idle, ~calls[d].overtaken
                 PROVE  /\ project' # Absent
                        /\ (ReadIsStored(d) /\ DefaultIsStored(d) /\ WritesExactly(d) /\ FindsStored(d))'
      BY <1>2 DEF Current
    <2>1. project # Absent /\ ReadIsStored(d) /\ DefaultIsStored(d) /\ WritesExactly(d) /\ FindsStored(d)
      BY DEF Current
    <2>2. Stored' = Stored
      BY <1>2, <2>1 DEF Stored
    <2>3. ReadIsStored(d)'
      <3> SUFFICES ASSUME calls[d].phase \in {"read", "edited", "removing"} PROVE ReadIsStored(d)'
        BY <1>2 DEF ReadIsStored
      <3>1. calls[d].slot \in Slots /\ Holds(calls[d], calls[d].slot)
        BY CallFields DEF IInv, TypeOK, Holds
      <3>2. Read(d)' = Read(d)
        BY <1>2, <3>1 DEF Read
      <3> QED
        BY <1>2, <2>1, <2>2, <3>2 DEF ReadIsStored
    <2>4. DefaultIsStored(d)'
      BY <1>2, <2>1 DEF DefaultIsStored
    <2>5. WritesExactly(d)'
      BY <1>2, <2>1, <2>2 DEF WritesExactly
    <2>6. FindsStored(d)'
      <3> SUFFICES ASSUME calls[d].phase = "discovering", NEW k \in Skills
                   PROVE  calls[d].declared[k] = DeclaredStatus(Stored, k)' /\ Discovered(calls[d], k)'
        BY <1>2 DEF FindsStored
      <3>1. DeclaredStatus(Stored, k)' = DeclaredStatus(Stored, k)
        BY <1>2, <2>2 DEF DeclaredStatus, Places, GuidedBy
      <3>2. Discovered(calls[d], k)' = Discovered(calls[d], k)
        BY <1>2 DEF Discovered, Reconciled
      <3> QED
        BY <2>1, <3>1, <3>2 DEF FindsStored
    <2> QED
      BY <1>2, <2>1, <2>3, <2>4, <2>5, <2>6
  <1> QED
    BY <1>1, <1>2

\* A step of one call that changes neither the project nor what others hold.
LEMMA CurrentQuiet ==
    ASSUME IInv, AllCurrent, NEW c \in Callers, project' = project, files' = files, skills' = skills,
           \A d \in Callers \ {c} : calls'[d] = calls[d],
           project # Absent => bodies'[project.body] = bodies[project.body],
           \A d \in Callers \ {c} : \A s \in Slots : Holds(calls[d], s) => bodies'[s] = bodies[s],
           Current(c)'
    PROVE  AllCurrent'
  <1> SUFFICES ASSUME NEW d \in Callers PROVE Current(d)'
    BY DEF AllCurrent
  <1>1. CASE d = c
    BY <1>1
  <1>2. CASE d # c
    BY <1>2, CurrentFrame DEF AllCurrent
  <1> QED
    BY <1>1, <1>2

\* What a call leaves when it lets go of the lists it read.
LEMMA LetsGo ==
    ASSUME IInv, NEW c \in Callers, NEW x \in Call \cup {Idle}, \A s \in Slots : ~Holds(x, s),
           calls' = [calls EXCEPT ![c] = x], bodies' = Collect(bodies, project, calls')
    PROVE  /\ calls'[c] = x /\ \A d \in Callers \ {c} : calls'[d] = calls[d]
           /\ project # Absent => bodies'[project.body] = bodies[project.body]
           /\ \A d \in Callers \ {c} : \A s \in Slots : Holds(calls[d], s) => bodies'[s] = bodies[s]
  <1>1. /\ calls \in [Callers -> Call \cup {Idle}] /\ bodies \in [Slots -> Body]
        /\ project # Absent => project.body \in Slots
    BY DEF IInv, TypeOK, Project
  <1>2. calls'[c] = x /\ \A d \in Callers \ {c} : calls'[d] = calls[d]
    BY <1>1
  <1>3. \A s \in Slots : InUse(project, calls', s) => bodies'[s] = bodies[s]
    BY <1>1, CollectKeeps
  <1>4. project # Absent => bodies'[project.body] = bodies[project.body]
    BY <1>1, <1>3 DEF InUse
  <1>5. \A d \in Callers \ {c} : \A s \in Slots : Holds(calls[d], s) => bodies'[s] = bodies[s]
    BY <1>2, <1>3 DEF InUse
  <1> QED
    BY <1>2, <1>4, <1>5

LEMMA CurrentReturn ==
    ASSUME IInv, AllCurrent, NEW c \in Callers, Return(c)
    PROVE  AllCurrent'
  <1>1. /\ calls' = [calls EXCEPT ![c] = Idle] /\ bodies' = Collect(bodies, project, calls')
        /\ UNCHANGED <<sharing, project, skills, files, started>>
    BY DEF Return
  <1>2. \A s \in Slots : ~Holds(Idle, s)
    BY DEF Holds
  <1>3. /\ calls'[c] = Idle /\ \A d \in Callers \ {c} : calls'[d] = calls[d]
        /\ project # Absent => bodies'[project.body] = bodies[project.body]
        /\ \A d \in Callers \ {c} : \A s \in Slots : Holds(calls[d], s) => bodies'[s] = bodies[s]
    BY <1>1, <1>2, LetsGo
  <1>4. Current(c)'
    BY <1>3 DEF Current
  <1> QED
    BY <1>1, <1>3, <1>4, CurrentQuiet

\* A call goes on to its write with lists that change what it is about.
LEMMA CurrentNormalized ==
    ASSUME IInv, AllCurrent, NEW c \in Callers, calls[c] # Idle,
           NEW roots \in Seq(RootEntry), NEW sources \in Seq(SourceEntry), NEW default \in Defaults,
           Normalized(c, roots, sources, default),
           ~calls[c].overtaken =>
               /\ ExactLists(calls[c].edit, roots, sources, Stored)
               /\ (calls[c].edit.op # "SetProjectDefaults" /\ project.default \in Ids(roots)) =>
                      default = project.default
    PROVE  AllCurrent'
  <1> DEFINE stored == NormalizeDefaultRootID(default, roots)
  <1>1. CASE stored = Absent
    BY <1>1, CurrentReturn DEF Normalized
  <1>2. CASE stored # Absent
    <2>1. PICK w : w = [phase |-> "ready", edit |-> calls[c].edit, roots |-> roots,
                        sources |-> sources, default |-> stored, overtaken |-> calls[c].overtaken]
      OBVIOUS
    <2>2. /\ calls' = [calls EXCEPT ![c] = w] /\ bodies' = Collect(bodies, project, calls')
          /\ UNCHANGED <<sharing, project, skills, files, started>>
      BY <1>2, <2>1 DEF Normalized
    <2>3. w \in Call
      <3>1. calls[c].edit \in Edits /\ calls[c].overtaken \in BOOLEAN
        BY CallFields DEF IInv, TypeOK
      <3>2. stored \in Defaults
        BY <1>2, Normalised
      <3> HIDE DEF stored
      <3> QED
        BY <2>1, <3>1, <3>2 DEF Writing, Call
    <2>4. /\ w.phase = "ready" /\ w.edit = calls[c].edit /\ w.roots = roots /\ w.sources = sources
          /\ w.default = stored /\ w.overtaken = calls[c].overtaken
      BY <2>1
    <2>5. /\ calls'[c] = w /\ \A d \in Callers \ {c} : calls'[d] = calls[d]
          /\ project # Absent => bodies'[project.body] = bodies[project.body]
          /\ \A d \in Callers \ {c} : \A s \in Slots : Holds(calls[d], s) => bodies'[s] = bodies[s]
      <3>1. \A s \in Slots : ~Holds(w, s)
        BY <2>4 DEF Holds
      <3> QED
        BY <2>2, <2>3, <3>1, LetsGo
    <2>6. default \in Ids(roots) => stored = default
      <3>1. default \in Ids(roots) => default # NoRoot
        <4>1. \A i \in DOMAIN roots : roots[i] \in RootEntry
          OBVIOUS
        <4> QED
          BY <4>1, ContextAssumption DEF Ids, RootEntry
      <3> QED
        BY <3>1 DEF NormalizeDefaultRootID
    <2> HIDE DEF stored
    <2>7. Current(c)'
      <3> SUFFICES ASSUME ~calls[c].overtaken
                   PROVE  /\ project' # Absent
                          /\ (ReadIsStored(c) /\ DefaultIsStored(c) /\ WritesExactly(c) /\ FindsStored(c))'
        BY <2>4, <2>5 DEF Current
      <3>1. project # Absent
        BY DEF AllCurrent, Current
      <3>2. Stored' = Stored
        BY <2>2, <2>5, <3>1 DEF Stored
      <3>3. WritesExactly(c)'
        BY <2>2, <2>4, <2>5, <2>6, <3>2 DEF WritesExactly
      <3> QED
        BY <2>2, <2>4, <2>5, <3>1, <3>3 DEF ReadIsStored, DefaultIsStored, FindsStored
    <2> QED
      BY <2>2, <2>5, <2>7, CurrentQuiet
  <1> QED
    BY <1>1, <1>2

\* A write of the project overtakes every other call.
LEMMA CurrentOvertaken ==
    ASSUME IInv, \A d \in Callers : calls'[d] = Idle \/ calls'[d].overtaken
    PROVE  AllCurrent'
  BY DEF AllCurrent, Current

LEMMA CurrentProject ==
    ASSUME IInv, \/ \E host \in HostProjects : CreateProject(host) \/ ReplaceProject(host)
                 \/ DeleteProject
    PROVE  AllCurrent'
  <1>1. calls' = Overtake(calls, Absent)
    BY DEF CreateProject, ReplaceProject, DeleteProject
  <1>2. \A d \in Callers : d # Absent
    BY ContextAssumption
  <1>3. \A d \in Callers : calls'[d] = Idle \/ calls'[d].overtaken
    BY <1>1, <1>2, OvertakeSame DEF IInv, TypeOK
  <1> QED
    BY <1>3, CurrentOvertaken

LEMMA CurrentWrite ==
    ASSUME IInv, AllCurrent, NEW c \in Callers, Write(c)
    PROVE  AllCurrent'
  <1>1. CASE project = Absent
    BY <1>1, CurrentReturn DEF Write
  <1>2. CASE project # Absent
    <2>1. PICK idle : idle = [calls EXCEPT ![c] = Idle]
      OBVIOUS
    <2>2. calls' = Overtake(idle, c)
      BY <1>2, <2>1 DEF Write, UpdateProject
    <2>3. idle \in [Callers -> Call \cup {Idle}] /\ idle[c] = Idle
      BY <2>1 DEF IInv, TypeOK
    <2>4. \A d \in Callers : calls'[d] = Idle \/ calls'[d].overtaken
      BY <2>2, <2>3, OvertakeSame
    <2> QED
      BY <2>4, CurrentOvertaken
  <1> QED
    BY <1>1, <1>2

LEMMA CurrentGet ==
    ASSUME IInv, AllCurrent, NEW c \in Callers, NEW edit \in Edits, GetProject(c, edit)
    PROVE  AllCurrent'
  <1>1. /\ calls \in [Callers -> Call \cup {Idle}] /\ bodies \in [Slots -> Body]
        /\ project \in Project /\ project.body \in Slots /\ project # Absent
    BY DEF IInv, TypeOK, Project, GetProject
  <1>2. FreeSlot \in Slots /\ ~InUse(project, calls, FreeSlot)
    BY SlotIsFree DEF IInv
  <1>3. PICK slot : slot = IF sharing THEN project.body ELSE FreeSlot
    OBVIOUS
  <1>4. PICK r : r = [phase |-> "read", edit |-> edit, slot |-> slot,
                      default |-> project.default, overtaken |-> FALSE]
    OBVIOUS
  <1>5. r.phase = "read" /\ r.slot = slot /\ r.default = project.default
    BY <1>4
  <1>6. /\ calls' = [calls EXCEPT ![c] = r]
        /\ bodies' = [bodies EXCEPT ![slot] = bodies[project.body]]
        /\ UNCHANGED <<sharing, project, skills, files>>
    BY <1>3, <1>4 DEF GetProject, Stored
  <1>7. calls'[c] = r /\ \A d \in Callers \ {c} : calls'[d] = calls[d]
    BY <1>1, <1>6
  <1>8. /\ \A s \in Slots : InUse(project, calls, s) => bodies'[s] = bodies[s]
        /\ bodies'[slot] = bodies[project.body]
    BY <1>1, <1>2, <1>3, <1>6
  <1>9. bodies'[project.body] = bodies[project.body]
    BY <1>1, <1>8 DEF InUse
  <1>10. \A d \in Callers \ {c} : \A s \in Slots : Holds(calls[d], s) => bodies'[s] = bodies[s]
    BY <1>8 DEF InUse
  <1>11. Current(c)'
    <2>1. Read(c)' = Stored' /\ project' # Absent
      BY <1>1, <1>5, <1>6, <1>7, <1>8, <1>9 DEF Read, Stored
    <2>2. ReadIsStored(c)' /\ DefaultIsStored(c)' /\ WritesExactly(c)' /\ FindsStored(c)'
      BY <1>5, <1>6, <1>7, <2>1 DEF ReadIsStored, DefaultIsStored, WritesExactly, FindsStored
    <2> QED
      BY <2>1, <2>2 DEF Current
  <1> QED
    BY <1>6, <1>7, <1>9, <1>10, <1>11, CurrentQuiet

\* What a call that was not overtaken has in hand before its edit.
LEMMA ReadStored ==
    ASSUME IInv, AllCurrent, NEW c \in Callers, calls[c] # Idle, calls[c].phase = "read", ~calls[c].overtaken
    PROVE  /\ project # Absent /\ calls[c].default = project.default
           /\ Read(c).roots = Stored.roots /\ Read(c).sources = Stored.sources
  BY DEF AllCurrent, Current, ReadIsStored, DefaultIsStored

LEMMA CurrentRootAdded ==
    ASSUME IInv, AllCurrent, NEW c \in Callers, CreateRoot(c) \/ AttachProjectRoot(c)
    PROVE  AllCurrent'
  <1> DEFINE edit == calls[c].edit
             e == [id |-> edit.id, content |-> edit.content]
             roots == Append(Read(c).roots, e)
  <1>1. calls[c] # Idle /\ calls[c].phase = "read" /\ edit.op \in {"CreateRoot", "AttachProjectRoot"}
    BY DEF CreateRoot, AttachProjectRoot, Editing
  <1>2. /\ Read(c).roots \in Seq(RootEntry) /\ Read(c).sources \in Seq(SourceEntry)
        /\ calls[c].default \in Defaults /\ edit \in Edits
    BY <1>1, Reader
  <1>3. e \in RootEntry /\ e = NormalizedRoot(c) /\ edit.id # NoRoot
    BY <1>1, <1>2, EditFields, ContextAssumption DEF NormalizedRoot, Target
  <1>4. CASE Return(c)
    BY <1>4, CurrentReturn
  <1>5. CASE ~Return(c)
    <2>1. Normalized(c, roots, Read(c).sources, calls[c].default)
      BY <1>3, <1>5 DEF CreateRoot, AttachProjectRoot
    <2>2. roots \in Seq(RootEntry)
      BY <1>2, <1>3, AppendIds
    <2>3. Entries(roots, edit.id) = Entries(Read(c).roots, edit.id) /\ e \in Entries(roots, NoRoot)
      <3>1. e.id = edit.id
        OBVIOUS
      <3> HIDE DEF e, edit
      <3> QED
        BY <1>2, <1>3, <3>1, AppendedEntry
    <2> HIDE DEF roots
    <2>4. ASSUME ~calls[c].overtaken
          PROVE  ExactLists(edit, roots, Read(c).sources, Stored) /\ calls[c].default = project.default
      <3>1. /\ calls[c].default = project.default
            /\ Read(c).roots = Stored.roots /\ Read(c).sources = Stored.sources
        BY <1>1, <2>4, ReadStored
      <3> QED
        BY <1>1, <2>3, <3>1 DEF ExactLists
    <2> QED
      BY <1>1, <1>2, <2>1, <2>2, <2>4, CurrentNormalized
  <1> QED
    BY <1>4, <1>5

LEMMA CurrentRootDeleted ==
    ASSUME IInv, AllCurrent, NEW c \in Callers, DeleteRoot(c)
    PROVE  AllCurrent'
  <1> DEFINE edit == calls[c].edit
             roots == Without(Read(c).roots, edit.id)
             default == IF calls[c].default = edit.id THEN NoRoot ELSE calls[c].default
  <1>1. calls[c] # Idle /\ calls[c].phase = "read" /\ edit.op = "DeleteRoot"
    BY DEF DeleteRoot, Editing
  <1>2. /\ Read(c).roots \in Seq(RootEntry) /\ Read(c).sources \in Seq(SourceEntry)
        /\ calls[c].default \in Defaults /\ edit \in Edits
    BY <1>1, Reader
  <1>3. CASE Return(c)
    BY <1>3, CurrentReturn
  <1>4. CASE ~Return(c)
    <2>1. Normalized(c, roots, Read(c).sources, default)
      BY <1>4 DEF DeleteRoot, Target
    <2>2. /\ roots \in Seq(RootEntry) /\ edit.id \notin Ids(roots)
          /\ Entries(roots, edit.id) = Entries(Read(c).roots, edit.id)
      BY <1>2, WithoutIds
    <2>3. default \in Defaults
      BY <1>2 DEF Defaults
    <2> HIDE DEF roots
    <2>4. ASSUME ~calls[c].overtaken
          PROVE  /\ ExactLists(edit, roots, Read(c).sources, Stored)
                 /\ project.default \in Ids(roots) => default = project.default
      <3>1. /\ calls[c].default = project.default
            /\ Read(c).roots = Stored.roots /\ Read(c).sources = Stored.sources
        BY <1>1, <2>4, ReadStored
      <3>2. project.default \in Ids(roots) => default = project.default
        BY <2>2, <3>1
      <3> QED
        BY <1>1, <2>2, <3>1, <3>2 DEF ExactLists
    <2> HIDE DEF default
    <2> QED
      BY <1>1, <1>2, <2>1, <2>2, <2>3, <2>4, CurrentNormalized
  <1> QED
    BY <1>3, <1>4

LEMMA CurrentSourceEdit ==
    ASSUME IInv, AllCurrent, NEW c \in Callers, CreateContextSource(c) \/ DeleteContextSource(c)
    PROVE  AllCurrent'
  <1> DEFINE edit == calls[c].edit
             e == [id |-> edit.id, content |-> edit.content]
  <1>1. /\ calls[c] # Idle /\ calls[c].phase = "read"
        /\ edit.op \in {"CreateContextSource", "DeleteContextSource"}
    BY DEF CreateContextSource, DeleteContextSource, Editing
  <1>2. /\ Read(c).roots \in Seq(RootEntry) /\ Read(c).sources \in Seq(SourceEntry)
        /\ calls[c].default \in Defaults /\ edit \in Edits
    BY <1>1, Reader
  <1>3. e \in SourceEntry /\ e = NormalizedSource(c) /\ edit.id # NoRoot
    BY <1>1, <1>2, EditFields, ContextAssumption DEF NormalizedSource, Target
  <1>4. CASE Return(c)
    BY <1>4, CurrentReturn
  <1>5. CASE ~Return(c)
    <2>1. PICK sources :
             /\ \/ edit.op = "CreateContextSource" /\ sources = Append(Read(c).sources, e)
                \/ edit.op = "DeleteContextSource" /\ sources = Without(Read(c).sources, edit.id)
             /\ Normalized(c, Read(c).roots, sources, calls[c].default)
      <3> HIDE DEF e
      <3> QED
        BY <1>3, <1>5 DEF CreateContextSource, DeleteContextSource, Editing, Target
    <2>2. /\ sources \in Seq(SourceEntry)
          /\ Entries(sources, edit.id) = Entries(Read(c).sources, edit.id)
          /\ edit.op = "CreateContextSource" => e \in Entries(sources, NoRoot)
          /\ edit.op = "DeleteContextSource" => edit.id \notin Ids(sources)
      <3>1. e.id = edit.id
        OBVIOUS
      <3> HIDE DEF e, edit
      <3>2. CASE edit.op = "CreateContextSource" /\ sources = Append(Read(c).sources, e)
        BY <1>2, <1>3, <3>1, <3>2, AppendIds, AppendedEntry
      <3>3. CASE edit.op = "DeleteContextSource" /\ sources = Without(Read(c).sources, edit.id)
        BY <1>2, <3>3, WithoutIds
      <3> QED
        BY <2>1, <3>2, <3>3
    <2>3. ASSUME ~calls[c].overtaken
          PROVE  ExactLists(edit, Read(c).roots, sources, Stored) /\ calls[c].default = project.default
      <3>1. /\ calls[c].default = project.default
            /\ Read(c).roots = Stored.roots /\ Read(c).sources = Stored.sources
        BY <1>1, <2>3, ReadStored
      <3> QED
        BY <1>1, <2>2, <3>1 DEF ExactLists
    <2> QED
      BY <1>1, <1>2, <2>1, <2>2, <2>3, CurrentNormalized
  <1> QED
    BY <1>4, <1>5

LEMMA CurrentWholeEdit ==
    ASSUME IInv, AllCurrent, NEW c \in Callers, SetProjectDefaults(c) \/ PatchProject(c)
    PROVE  AllCurrent'
  <1> DEFINE edit == calls[c].edit
             given == edit.content
             default == IF calls[c].default \in Ids(given) THEN calls[c].default ELSE NoRoot
  <1>1. calls[c] # Idle /\ calls[c].phase = "read"
    BY DEF SetProjectDefaults, PatchProject, Editing
  <1>2. /\ Read(c).roots \in Seq(RootEntry) /\ Read(c).sources \in Seq(SourceEntry)
        /\ calls[c].default \in Defaults /\ edit \in Edits
    BY <1>1, Reader
  <1>3. ~calls[c].overtaken =>
            /\ calls[c].default = project.default
            /\ Read(c).roots = Stored.roots /\ Read(c).sources = Stored.sources
    BY <1>1, ReadStored
  <1>4. CASE SetProjectDefaults(c)
    <2>1. edit.op = "SetProjectDefaults" /\ Normalized(c, Read(c).roots, Read(c).sources, edit.id)
      BY <1>4 DEF SetProjectDefaults, Editing, Target
    <2>2. edit.id \in Defaults
      BY <1>2, <2>1, EditFields DEF Defaults
    <2>3. ~calls[c].overtaken => ExactLists(edit, Read(c).roots, Read(c).sources, Stored)
      BY <1>3, <2>1 DEF ExactLists
    <2> QED
      BY <1>1, <1>2, <2>1, <2>2, <2>3, CurrentNormalized
  <1>5. CASE Editing(c, "RenameProject") /\ Normalized(c, Read(c).roots, Read(c).sources, calls[c].default)
    <2>1. ~calls[c].overtaken => ExactLists(edit, Read(c).roots, Read(c).sources, Stored)
      BY <1>3, <1>5 DEF ExactLists, Editing
    <2> QED
      BY <1>1, <1>2, <1>3, <1>5, <2>1, CurrentNormalized
  <1>6. CASE Editing(c, "PatchRoots") /\ Normalized(c, given, Read(c).sources, default)
    <2>1. edit.op = "PatchRoots" /\ given \in Seq(RootEntry)
      BY <1>2, <1>6, EditFields DEF Editing
    <2>2. default \in Defaults
      BY <1>2 DEF Defaults
    <2>3. ~calls[c].overtaken => /\ ExactLists(edit, given, Read(c).sources, Stored)
                                 /\ project.default \in Ids(given) => default = project.default
      BY <1>3, <2>1 DEF ExactLists
    <2> HIDE DEF default, given
    <2> QED
      BY <1>1, <1>2, <1>6, <2>1, <2>2, <2>3, CurrentNormalized
  <1> QED
    BY <1>4, <1>5, <1>6 DEF PatchProject

LEMMA CurrentFinishUpdate ==
    ASSUME IInv, AllCurrent, NEW c \in Callers, FinishUpdate(c)
    PROVE  AllCurrent'
  <1>1. /\ calls[c] # Idle /\ calls[c].phase = "edited"
        /\ Normalized(c, Read(c).roots, Read(c).sources, calls[c].default)
    BY DEF FinishUpdate
  <1>2. /\ Read(c).roots \in Seq(RootEntry) /\ Read(c).sources \in Seq(SourceEntry)
        /\ calls[c].default \in Defaults
    BY <1>1, Reader
  <1>3. ~calls[c].overtaken => /\ ExactLists(calls[c].edit, Read(c).roots, Read(c).sources, Stored)
                               /\ calls[c].default = project.default
    BY <1>1 DEF AllCurrent, Current, ReadIsStored, DefaultIsStored
  <1> QED
    BY <1>1, <1>2, <1>3, CurrentNormalized

\* The entry is assigned in the lists that were read; if those are the stored
\* ones, in both.
LEMMA CurrentUpdateEntry ==
    ASSUME IInv, AllCurrent, NEW c \in Callers, UpdateRoot(c) \/ UpdateContextSource(c)
    PROVE  AllCurrent'
  <1> DEFINE edit == calls[c].edit
             slot == calls[c].slot
             e == [id |-> edit.id, content |-> edit.content]
  <1>1. calls[c] # Idle /\ calls[c].phase = "read" /\ edit.op \in {"UpdateRoot", "UpdateContextSource"}
    BY DEF UpdateRoot, UpdateContextSource, Editing
  <1>2. /\ slot \in Slots /\ Holds(calls[c], slot) /\ edit \in Edits
        /\ Read(c) \in Body /\ Read(c) = bodies[slot]
        /\ Read(c).roots \in Seq(RootEntry) /\ Read(c).sources \in Seq(SourceEntry)
    BY <1>1, Reader DEF Read
  <1>3. PICK list \in Lists :
           /\ AssignEntry(c, list, e)
           /\ edit.op = IF list = "roots" THEN "UpdateRoot" ELSE "UpdateContextSource"
    <2>1. NormalizedRoot(c) = e /\ NormalizedSource(c) = e
      BY DEF NormalizedRoot, NormalizedSource, Target
    <2> HIDE DEF e
    <2> QED
      BY <2>1 DEF UpdateRoot, UpdateContextSource, Editing, Lists
  <1>4. /\ list = "roots" => e \in RootEntry
        /\ list = "sources" => e \in SourceEntry
        /\ e.id = edit.id /\ edit.id # NoRoot /\ e.id = Target(c)
    BY <1>1, <1>2, <1>3, EditFields, ContextAssumption DEF Target
  <1>5. CASE Return(c)
    BY <1>5, CurrentReturn
  <1>6. CASE ~Return(c)
    <2> HIDE DEF e
    <2>1. /\ bodies' \in [Slots -> Body]
          /\ \A s \in Slots \ {slot} : bodies'[s] = bodies[s]
          /\ bodies'[slot] = [Read(c) EXCEPT ![list] = Put(Read(c)[list], e)]
          /\ calls'[c] # Idle /\ calls'[c].phase = "edited"
          /\ calls'[c].slot = slot /\ calls'[c].default = calls[c].default
          /\ calls'[c].edit = edit /\ calls'[c].overtaken = calls[c].overtaken
          /\ \A d \in Callers \ {c} : IF sharing /\ calls[d] # Idle THEN calls'[d].overtaken
                                      ELSE calls'[d] = calls[d]
          /\ UNCHANGED <<sharing, project, skills, files, started>>
      BY <1>1, <1>3, <1>4, <1>6, AssignWrites
    <2>2. e.id \in Ids(Read(c)[list])
      BY <1>3, <1>4, <1>6 DEF AssignEntry
    <2>3. PICK new : new = bodies'[slot]
      OBVIOUS
    <2>4. /\ Entries(new.roots, edit.id) = Entries(Read(c).roots, edit.id)
          /\ Entries(new.sources, edit.id) = Entries(Read(c).sources, edit.id)
          /\ list = "roots" => e \in Entries(new.roots, NoRoot)
          /\ list = "sources" => e \in Entries(new.sources, NoRoot)
      <3> HIDE DEF edit, slot
      <3>1. CASE list = "roots"
        <4>1. new.roots = Put(Read(c).roots, e) /\ new.sources = Read(c).sources
          BY <1>2, <2>1, <2>3, <3>1 DEF Body
        <4>2. /\ Entries(Put(Read(c).roots, e), e.id) = Entries(Read(c).roots, e.id)
              /\ e \in Entries(Put(Read(c).roots, e), NoRoot)
          BY <1>2, <1>4, <2>2, <3>1, PutEntries
        <4> QED
          BY <1>4, <3>1, <4>1, <4>2
      <3>2. CASE list = "sources"
        <4>1. new.sources = Put(Read(c).sources, e) /\ new.roots = Read(c).roots
          BY <1>2, <2>1, <2>3, <3>2 DEF Body
        <4>2. /\ Entries(Put(Read(c).sources, e), e.id) = Entries(Read(c).sources, e.id)
              /\ e \in Entries(Put(Read(c).sources, e), NoRoot)
          BY <1>2, <1>4, <2>2, <3>2, PutEntries
        <4> QED
          BY <1>4, <3>2, <4>1, <4>2
      <3> QED
        BY <3>1, <3>2 DEF Lists
    <2>5. Current(c)'
      <3> SUFFICES ASSUME ~calls[c].overtaken
                   PROVE  /\ project' # Absent
                          /\ (ReadIsStored(c) /\ DefaultIsStored(c) /\ WritesExactly(c) /\ FindsStored(c))'
        BY <2>1 DEF Current
      <3>1. /\ project # Absent /\ calls[c].default = project.default
            /\ Read(c).roots = Stored.roots /\ Read(c).sources = Stored.sources
        BY <1>1, ReadStored
      <3>2. Read(c)' = new
        BY <2>1, <2>3 DEF Read
      <3>3. /\ Entries(new.roots, edit.id) = Entries(Stored'.roots, edit.id)
            /\ Entries(new.sources, edit.id) = Entries(Stored'.sources, edit.id)
        <4>1. CASE project.body = slot
          BY <2>1, <2>3, <4>1 DEF Stored
        <4>2. CASE project.body # slot
          <5>1. Stored' = Stored
            BY <2>1, <3>1, <4>2 DEF Stored, IInv, TypeOK, Project
          <5> QED
            BY <2>4, <3>1, <5>1
        <4> QED
          BY <4>1, <4>2
      <3>4. ExactLists(edit, new.roots, new.sources, Stored')
        BY <1>3, <2>4, <3>3 DEF ExactLists, Lists, e
      <3>5. ReadIsStored(c)'
        BY <2>1, <3>2, <3>4 DEF ReadIsStored
      <3> QED
        BY <2>1, <3>1, <3>5 DEF DefaultIsStored, WritesExactly, FindsStored
    <2>6. CASE sharing
      <3>1. \A d \in Callers \ {c} : Current(d)'
        BY <2>1, <2>6, CurrentFrame DEF AllCurrent
      <3> QED
        BY <2>5, <3>1 DEF AllCurrent
    <2>7. CASE ~sharing
      <3>1. /\ project # Absent => project.body # slot
            /\ \A d \in Callers \ {c} : ~Holds(calls[d], slot)
        BY <1>2, <2>7, OwnList
      <3>2. project # Absent => bodies'[project.body] = bodies[project.body]
        BY <2>1, <3>1 DEF IInv, TypeOK, Project
      <3>3. \A d \in Callers \ {c} : \A s \in Slots : Holds(calls[d], s) => bodies'[s] = bodies[s]
        BY <2>1, <3>1
      <3>4. \A d \in Callers \ {c} : calls'[d] = calls[d]
        BY <2>1, <2>7
      <3>5. project' = project /\ files' = files /\ skills' = skills
        BY <2>1
      <3> QED
        BY <2>5, <3>2, <3>3, <3>4, <3>5, CurrentQuiet
    <2> QED
      BY <2>6, <2>7
  <1> QED
    BY <1>5, <1>6

LEMMA CurrentRemovalStarts ==
    ASSUME IInv, AllCurrent, NEW c \in Callers, RemoveProjectRoot(c)
    PROVE  AllCurrent'
  <1>1. calls[c] # Idle /\ calls[c].phase = "read"
    BY DEF RemoveProjectRoot, Editing
  <1>2. Read(c).roots \in Seq(RootEntry)
    BY <1>1, Reader
  <1>3. PICK r : r = [phase |-> "removing", edit |-> calls[c].edit, slot |-> calls[c].slot,
                      default |-> calls[c].default, next |-> 1, kept |-> 0,
                      overtaken |-> calls[c].overtaken]
    OBVIOUS
  <1>4. /\ r.phase = "removing" /\ r.slot = calls[c].slot /\ r.default = calls[c].default
        /\ r.next = 1 /\ r.kept = 0 /\ r.edit = calls[c].edit /\ r.overtaken = calls[c].overtaken
    BY <1>3
  <1>5. /\ calls' = [calls EXCEPT ![c] = r]
        /\ UNCHANGED <<sharing, project, bodies, skills, files, started>>
    BY <1>3 DEF RemoveProjectRoot
  <1>6. calls'[c] = r /\ \A d \in Callers \ {c} : calls'[d] = calls[d]
    BY <1>5 DEF IInv, TypeOK
  <1>7. HeldEntries(r, Read(c).roots) = Entries(Read(c).roots, r.edit.id)
    <2>1. Live(r, Read(c).roots) = DOMAIN Read(c).roots
      BY <1>2, <1>4 DEF Live
    <2> QED
      BY <2>1 DEF HeldEntries, Entries
  <1>8. Current(c)'
    <2> SUFFICES ASSUME ~calls[c].overtaken
                 PROVE  /\ project' # Absent
                        /\ (ReadIsStored(c) /\ DefaultIsStored(c) /\ WritesExactly(c) /\ FindsStored(c))'
      BY <1>4, <1>6 DEF Current
    <2>1. /\ project # Absent /\ calls[c].default = project.default
          /\ Read(c).roots = Stored.roots /\ Read(c).sources = Stored.sources
      BY <1>1, ReadStored
    <2>2. Read(c)' = Read(c) /\ Stored' = Stored
      BY <1>4, <1>5, <1>6 DEF Read, Stored
    <2>3. ReadIsStored(c)'
      <3>1. \A i \in 1 .. r.kept : FALSE
        BY <1>4
      <3> QED
        BY <1>4, <1>6, <1>7, <2>1, <2>2, <3>1 DEF ReadIsStored
    <2> QED
      BY <1>4, <1>5, <1>6, <2>1, <2>3 DEF DefaultIsStored, WritesExactly, FindsStored
  <1> QED
    BY <1>5, <1>6, <1>8, CurrentQuiet

\* One step of a removal x, which y continues, from the roots old to the roots new.
Moves(old, new, x, y) ==
    /\ Len(new) = Len(old) /\ x.edit = y.edit
    /\ x.next \in 1 .. Len(old) /\ x.kept \in Nat /\ x.kept < x.next
    /\ y.next = x.next + 1
    /\ y.kept = IF old[x.next].id # x.edit.id THEN x.kept + 1 ELSE x.kept
    /\ \A i \in 1 .. Len(old) : i # x.kept + 1 => new[i] = old[i]
    /\ old[x.next].id # x.edit.id => new[x.kept + 1] = old[x.next]
    /\ old[x.next].id = x.edit.id => new = old
    /\ \A i \in 1 .. x.kept : old[i].id # x.edit.id

\* Moving an entry to the end of those kept loses none that the removal has, and
\* in a list that holds no others adds none.
LEMMA MovedEntries ==
    ASSUME NEW old \in Seq(RootEntry), NEW new \in Seq(RootEntry), NEW x, NEW y, Moves(old, new, x, y)
    PROVE  /\ HeldEntries(y, new) = HeldEntries(x, old)
           /\ \A i \in 1 .. y.kept : new[i].id # y.edit.id
           /\ HeldEntries(x, old) = Entries(old, x.edit.id) => HeldEntries(y, new) = Entries(new, x.edit.id)
  <1>1. PICK id, k, n, L : id = x.edit.id /\ k = x.kept /\ n = x.next /\ L = Len(old)
    OBVIOUS
  <1>2. L \in Nat /\ n \in 1 .. L /\ k \in Nat /\ k < n /\ Len(new) = L
    BY <1>1 DEF Moves
  <1>3. DOMAIN old = 1 .. L /\ DOMAIN new = 1 .. L
    BY <1>1, <1>2
  <1>4. Live(x, old) = (1 .. k) \cup (n .. L)
    BY <1>1 DEF Live
  <1>5. /\ \A i \in 1 .. L : i # k + 1 => new[i] = old[i]
        /\ old[n].id # id => new[k + 1] = old[n]
        /\ old[n].id = id => new = old
        /\ \A i \in 1 .. k : old[i].id # id
    BY <1>1 DEF Moves
  <1>6. y.edit.id = id
    BY <1>1 DEF Moves
  <1>7. CASE old[n].id = id
    <2>1. Live(y, new) = (1 .. k) \cup ((n + 1) .. L)
      BY <1>1, <1>2, <1>7 DEF Live, Moves
    <2>2. n .. L = {n} \cup ((n + 1) .. L)
      BY <1>2
    <2>3. new = old
      BY <1>5, <1>7
    <2>4. HeldEntries(y, new) = HeldEntries(x, old)
      BY <1>1, <1>4, <1>6, <1>7, <2>1, <2>2, <2>3 DEF HeldEntries
    <2>5. y.kept = k
      BY <1>1, <1>7 DEF Moves
    <2> QED
      BY <1>1, <1>5, <1>6, <1>7, <2>3, <2>4, <2>5
  <1>8. CASE old[n].id # id
    <2>1. y.kept = k + 1 /\ Live(y, new) = (1 .. (k + 1)) \cup ((n + 1) .. L)
      BY <1>1, <1>2, <1>8 DEF Live, Moves
    <2>2. \A i \in 1 .. k : i \in 1 .. L /\ new[i] = old[i]
      BY <1>2, <1>5
    <2>3. \A i \in (n + 1) .. L : i \in 1 .. L /\ new[i] = old[i]
      BY <1>2, <1>5
    <2>4. new[k + 1] = old[n] /\ k + 1 \in 1 .. L
      BY <1>2, <1>5, <1>8
    <2>5. \A i : i \in Live(y, new) <=> i \in 1 .. k \/ i = k + 1 \/ i \in (n + 1) .. L
      BY <1>2, <2>1
    <2>6. \A i : i \in Live(x, old) <=> i \in 1 .. k \/ i = n \/ i \in (n + 1) .. L
      BY <1>2, <1>4
    <2>7. HeldEntries(y, new) = HeldEntries(x, old)
      <3>1. ASSUME NEW i \in Live(y, new) PROVE \E j \in Live(x, old) : old[j] = new[i]
        BY <2>2, <2>3, <2>4, <2>5, <2>6
      <3>2. ASSUME NEW j \in Live(x, old) PROVE \E i \in Live(y, new) : new[i] = old[j]
        BY <2>2, <2>3, <2>4, <2>5, <2>6
      <3>3. \A z : z \in HeldEntries(y, new) <=> \E i \in Live(y, new) : z = new[i] /\ new[i].id # id
        BY <1>6 DEF HeldEntries
      <3>4. \A z : z \in HeldEntries(x, old) <=> \E j \in Live(x, old) : z = old[j] /\ old[j].id # id
        BY <1>1 DEF HeldEntries
      <3>5. \A z : z \in HeldEntries(y, new) <=> z \in HeldEntries(x, old)
        BY <3>1, <3>2, <3>3, <3>4
      <3> QED
        BY <3>5
    <2>8. \A i \in 1 .. y.kept : new[i].id # id
      <3> SUFFICES ASSUME NEW i \in 1 .. (k + 1) PROVE new[i].id # id
        BY <2>1
      <3>1. i \in 1 .. k \/ i = k + 1
        BY <1>2
      <3> QED
        BY <1>5, <1>8, <2>2, <2>4, <3>1
    <2>9. ASSUME HeldEntries(x, old) = Entries(old, id) PROVE HeldEntries(y, new) = Entries(new, id)
      <3>1. Entries(new, id) \subseteq Entries(old, id)
        <4> SUFFICES ASSUME NEW i \in 1 .. L, new[i].id # id PROVE new[i] \in Entries(old, id)
          BY <1>3 DEF Entries
        <4>1. PICK j \in 1 .. L : new[i] = old[j]
          BY <1>2, <1>5, <2>4
        <4> QED
          BY <1>3, <4>1 DEF Entries
      <3>2. HeldEntries(y, new) \subseteq Entries(new, id)
        <4>1. Live(y, new) \subseteq 1 .. L
          BY <2>2, <2>3, <2>4, <2>5
        <4> QED
          BY <1>3, <1>6, <4>1 DEF HeldEntries, Entries
      <3> QED
        BY <2>7, <2>9, <3>1, <3>2
    <2> QED
      BY <1>1, <1>6, <2>7, <2>8, <2>9
  <1> QED
    BY <1>7, <1>8

LEMMA CurrentRemoveStep ==
    ASSUME IInv, AllCurrent, NEW c \in Callers, RemoveStep(c)
    PROVE  AllCurrent'
  <1> DEFINE x == calls[c]
             y == calls'[c]
             slot == x.slot
             roots == bodies[slot].roots
             new == bodies'[slot]
             keep == roots[x.next].id # x.edit.id
  <1>1. /\ Removing(c) /\ Read(c) = bodies[slot] /\ bodies[slot] \in Body
        /\ slot \in Slots /\ Holds(x, slot) /\ roots \in Seq(RootEntry)
        /\ x.next \in 1 .. Len(roots) /\ x.kept \in Nat /\ x.kept < x.next
    <2>1. Removing(c)
      BY DEF RemoveStep
    <2>2. /\ slot \in Slots /\ Holds(x, slot) /\ Read(c) = bodies[slot] /\ Read(c) \in Body
          /\ Read(c).roots \in Seq(RootEntry)
          /\ x.next \in 1 .. Len(Read(c).roots) + 1 /\ x.kept \in Nat /\ x.kept < x.next
      BY <2>1, Remover
    <2>3. x.next <= Len(Read(c).roots)
      BY DEF RemoveStep
    <2> HIDE DEF x
    <2> QED
      BY <2>1, <2>2, <2>3
  <1>2. /\ bodies' \in [Slots -> Body]
        /\ \A s \in Slots \ {slot} : bodies'[s] = bodies[s]
        /\ new.sources = bodies[slot].sources
        /\ Len(new.roots) = Len(roots)
        /\ \A i \in 1 .. Len(roots) : i # x.kept + 1 => new.roots[i] = roots[i]
        /\ keep => new.roots[x.kept + 1] = roots[x.next]
        /\ ~keep => new.roots = roots
    BY RemoveStepLists
  <1>3. /\ y \in Call /\ y.phase = "removing" /\ y.slot = slot /\ y.default = x.default /\ y.edit = x.edit
        /\ y.next = x.next + 1 /\ y.kept = (IF keep THEN x.kept + 1 ELSE x.kept)
        /\ y.overtaken = x.overtaken
        /\ \A d \in Callers \ {c} : \/ calls'[d] = calls[d] /\ (calls[d] = Idle \/ bodies' = bodies \/ ~sharing)
                                    \/ calls'[d] # Idle /\ calls'[d].overtaken
    BY RemoveStepCalls
  <1>4. UNCHANGED <<sharing, project, skills, files>>
    BY DEF RemoveStep
  <1> HIDE DEF keep
  <1>5. Current(c)'
    <2> SUFFICES ASSUME ~x.overtaken
                 PROVE  /\ project' # Absent
                        /\ (ReadIsStored(c) /\ DefaultIsStored(c) /\ WritesExactly(c) /\ FindsStored(c))'
      BY <1>3 DEF Current
    <2>1. /\ project # Absent /\ x.default = project.default
          /\ bodies[slot].sources = Stored.sources
          /\ HeldEntries(x, roots) = Entries(Stored.roots, x.edit.id)
          /\ \A i \in 1 .. x.kept : roots[i].id # x.edit.id
      BY <1>1 DEF AllCurrent, Current, ReadIsStored, DefaultIsStored, Removing
    <2>2. /\ HeldEntries(y, new.roots) = HeldEntries(x, roots)
          /\ \A i \in 1 .. y.kept : new.roots[i].id # y.edit.id
          /\ HeldEntries(x, roots) = Entries(roots, x.edit.id) =>
                 HeldEntries(y, new.roots) = Entries(new.roots, x.edit.id)
      <3>1. new.roots \in Seq(RootEntry)
        BY <1>1, <1>2 DEF Body
      <3>2. PICK old, news : old = roots /\ news = new.roots
        OBVIOUS
      <3>3. old \in Seq(RootEntry) /\ news \in Seq(RootEntry)
        BY <1>1, <3>1, <3>2
      <3>4. Moves(old, news, x, y)
        BY <1>1, <1>2, <1>3, <2>1, <3>2 DEF keep, Moves
      <3>5. /\ HeldEntries(y, news) = HeldEntries(x, old)
            /\ \A i \in 1 .. y.kept : news[i].id # y.edit.id
            /\ HeldEntries(x, old) = Entries(old, x.edit.id) => HeldEntries(y, news) = Entries(news, x.edit.id)
        <4> HIDE DEF x, y
        <4> QED
          BY <3>3, <3>4, MovedEntries
      <3> QED
        BY <3>2, <3>5
    <2>3. Stored'.sources = Stored.sources /\ HeldEntries(y, new.roots) = Entries(Stored'.roots, x.edit.id)
      <3>1. CASE project.body = slot
        <4>1. Stored = bodies[slot] /\ Stored' = new
          BY <1>4, <3>1 DEF Stored
        <4> QED
          BY <1>2, <2>1, <2>2, <4>1
      <3>2. CASE project.body # slot
        <4>1. Stored' = Stored
          BY <1>2, <1>4, <2>1, <3>2 DEF Stored, IInv, TypeOK, Project
        <4> QED
          BY <2>1, <2>2, <4>1
      <3> QED
        BY <3>1, <3>2
    <2>4. Read(c)' = new
      BY <1>3 DEF Read
    <2>5. ReadIsStored(c)'
      BY <1>2, <1>3, <2>1, <2>2, <2>3, <2>4 DEF ReadIsStored
    <2> QED
      BY <1>3, <1>4, <2>1, <2>5 DEF DefaultIsStored, WritesExactly, FindsStored
  <1>6. ASSUME NEW d \in Callers \ {c} PROVE Current(d)'
    <2>1. Current(d)
      BY DEF AllCurrent
    <2>2. CASE calls'[d] = Idle \/ calls'[d].overtaken
      BY <2>1, <2>2, CurrentFrame
    <2>3. CASE calls'[d] = calls[d] /\ bodies' = bodies
      BY <1>4, <2>1, <2>3, CurrentFrame
    <2>4. CASE calls'[d] = calls[d] /\ ~sharing
      <3>1. (project # Absent => project.body # slot) /\ ~Holds(calls[d], slot)
        BY <1>1, <2>4, OwnList
      <3>2. project # Absent => bodies'[project.body] = bodies[project.body]
        BY <1>2, <3>1 DEF IInv, TypeOK, Project
      <3>3. \A s \in Slots : Holds(calls[d], s) => bodies'[s] = bodies[s]
        BY <1>2, <3>1
      <3>4. project' = project /\ files' = files /\ skills' = skills
        BY <1>4
      <3> QED
        BY <2>1, <2>4, <3>2, <3>3, <3>4, CurrentFrame
    <2> QED
      BY <1>3, <2>2, <2>3, <2>4
  <1> QED
    BY <1>5, <1>6 DEF AllCurrent

LEMMA CurrentFinishRemoval ==
    ASSUME IInv, AllCurrent, NEW c \in Callers, FinishRemoval(c)
    PROVE  AllCurrent'
  <1> DEFINE call == calls[c]
             read == Read(c).roots
             roots == SubSeq(read, 1, call.kept)
             default == IF call.default = call.edit.id THEN NoRoot ELSE call.default
  <1>1. Removing(c) /\ call # Idle /\ call.phase = "removing"
    BY DEF FinishRemoval, Removing
  <1>2. /\ read \in Seq(RootEntry) /\ Read(c).sources \in Seq(SourceEntry)
        /\ call.default \in Defaults
        /\ call.edit.op = "RemoveProjectRoot"
        /\ call.next = Len(read) + 1
        /\ call.kept \in 0 .. Len(read)
    <2>1. /\ read \in Seq(RootEntry) /\ Read(c).sources \in Seq(SourceEntry)
          /\ call.default \in Defaults
          /\ call.edit.op = "RemoveProjectRoot"
          /\ call.next \in 1 .. Len(read) + 1
          /\ call.kept \in Nat /\ call.kept < call.next
      BY <1>1, Remover
    <2>2. call.next > Len(read)
      BY DEF FinishRemoval
    <2> HIDE DEF call, read
    <2> QED
      BY <2>1, <2>2
  <1>3. CASE Return(c)
    BY <1>3, CurrentReturn
  <1>4. CASE ~Return(c)
    <2>1. Normalized(c, roots, Read(c).sources, default)
      BY <1>4 DEF FinishRemoval
    <2>2. /\ roots \in Seq(RootEntry) /\ Len(roots) = call.kept
          /\ \A i \in 1 .. call.kept : roots[i] = read[i]
      <3> HIDE DEF call, read
      <3> QED
        BY <1>2, SubSeqIds
    <2>3. default \in Defaults
      BY <1>2 DEF Defaults
    <2> HIDE DEF roots
    <2>4. ASSUME ~call.overtaken
          PROVE  /\ ExactLists(call.edit, roots, Read(c).sources, Stored)
                 /\ project.default \in Ids(roots) => default = project.default
      <3>1. /\ call.default = project.default
            /\ Read(c).sources = Stored.sources
            /\ HeldEntries(call, read) = Entries(Stored.roots, call.edit.id)
            /\ \A i \in 1 .. call.kept : read[i].id # call.edit.id
        BY <1>1, <2>4 DEF AllCurrent, Current, ReadIsStored, DefaultIsStored
      <3>2. DOMAIN roots = 1 .. call.kept
        BY <2>2
      <3>3. Entries(roots, call.edit.id) = HeldEntries(call, read)
        <4>1. Live(call, read) = 1 .. call.kept
          <5> HIDE DEF call, read
          <5> QED
            BY <1>2 DEF Live
        <4> HIDE DEF call, read
        <4> QED
          BY <2>2, <3>2, <4>1 DEF Entries, HeldEntries
      <3>4. call.edit.id \notin Ids(roots)
        BY <2>2, <3>1, <3>2 DEF Ids
      <3>5. project.default \in Ids(roots) => default = project.default
        BY <3>1, <3>4
      <3> QED
        BY <1>2, <3>1, <3>3, <3>4, <3>5 DEF ExactLists
    <2> HIDE DEF default
    <2> QED
      BY <1>1, <1>2, <2>1, <2>2, <2>3, <2>4, CurrentNormalized
  <1> QED
    BY <1>3, <1>4

\* The status of the skills is that of the declarations under the lists read,
\* and these are the stored ones.
LEMMA CurrentScan ==
    ASSUME IInv, AllCurrent, NEW c \in Callers, ScanSkills(c)
    PROVE  AllCurrent'
  <1>1. calls[c] # Idle /\ calls[c].phase = "read"
    BY DEF ScanSkills, Editing
  <1>2. CASE project = Absent
    BY <1>2, CurrentReturn DEF ScanSkills
  <1>3. CASE project # Absent
    <2>1. PICK declared : declared = [k \in Skills |-> DeclaredStatus(Read(c), k)]
      OBVIOUS
    <2>2. PICK todo : todo = {k \in Skills : IF declared[k] = "missing"
                                             THEN skills[k] # Absent /\ skills[k].status # "missing"
                                             ELSE TRUE}
      OBVIOUS
    <2>3. PICK r : r = [phase |-> "discovering", edit |-> calls[c].edit, prior |-> skills,
                        declared |-> declared, todo |-> todo, overtaken |-> calls[c].overtaken]
      OBVIOUS
    <2>4. /\ calls' = [calls EXCEPT ![c] = r] /\ bodies' = Collect(bodies, project, calls')
          /\ UNCHANGED <<sharing, project, skills, files, started>>
      BY <1>3, <2>1, <2>2, <2>3 DEF ScanSkills
    <2>5. /\ r.phase = "discovering" /\ r.prior = skills /\ r.declared = declared /\ r.todo = todo
          /\ r.overtaken = calls[c].overtaken
      BY <2>3
    <2>6. r \in Call
      <3>1. calls[c].edit \in Edits /\ calls[c].overtaken \in BOOLEAN
        BY <1>1, CallFields DEF IInv, TypeOK
      <3>2. declared \in [Skills -> SkillStatuses]
        BY <2>1 DEF DeclaredStatus, SkillStatuses
      <3>3. todo \in SUBSET Skills /\ skills \in [Skills -> Skill \cup {Absent}]
        BY <2>2 DEF IInv, TypeOK
      <3> QED
        BY <2>3, <3>1, <3>2, <3>3 DEF Discovery, Call
    <2>7. /\ calls'[c] = r /\ \A d \in Callers \ {c} : calls'[d] = calls[d]
          /\ project # Absent => bodies'[project.body] = bodies[project.body]
          /\ \A d \in Callers \ {c} : \A s \in Slots : Holds(calls[d], s) => bodies'[s] = bodies[s]
      <3>1. \A s \in Slots : ~Holds(r, s)
        BY <2>5 DEF Holds
      <3> QED
        BY <2>4, <2>6, <3>1, LetsGo
    <2>8. Current(c)'
      <3> SUFFICES ASSUME ~calls[c].overtaken
                   PROVE  (ReadIsStored(c) /\ DefaultIsStored(c) /\ WritesExactly(c) /\ FindsStored(c))'
        BY <1>3, <2>4, <2>5, <2>7 DEF Current
      <3>1. Read(c).roots = Stored.roots /\ Read(c).sources = Stored.sources
        BY <1>1, ReadStored
      <3>2. Stored' = Stored
        BY <1>3, <2>4, <2>7 DEF Stored
      <3>3. ASSUME NEW k \in Skills
            PROVE  r.declared[k] = DeclaredStatus(Stored, k)' /\ Discovered(r, k)'
        <4>1. declared[k] = DeclaredStatus(Read(c), k)
          BY <2>1
        <4>2. DeclaredStatus(Stored, k)' = DeclaredStatus(Stored, k)
          BY <2>4, <3>2 DEF DeclaredStatus, Places, GuidedBy
        <4>3. DeclaredStatus(Read(c), k) = DeclaredStatus(Stored, k)
          BY <3>1 DEF DeclaredStatus, Places
        <4>4. Discovered(r, k)'
          BY <2>2, <2>4, <2>5 DEF Discovered
        <4> QED
          BY <2>5, <4>1, <4>2, <4>3, <4>4
      <3>4. FindsStored(c)'
        BY <2>7, <3>3 DEF FindsStored
      <3> QED
        BY <2>5, <2>7, <3>4 DEF ReadIsStored, DefaultIsStored, WritesExactly
    <2> QED
      BY <2>4, <2>7, <2>8, CurrentQuiet
  <1> QED
    BY <1>2, <1>3

LEMMA CurrentDiscoverStep ==
    ASSUME IInv, AllCurrent, NEW c \in Callers, NEW k \in Skills, DiscoverStep(c, k)
    PROVE  AllCurrent'
  <1> DEFINE call == calls[c]
             refused == project = Absent \/ (call.prior[k] = Absent) # (skills[k] = Absent)
  <1>1. /\ call # Idle /\ call.phase = "discovering" /\ k \in call.todo
        /\ calls \in [Callers -> Call \cup {Idle}] /\ skills \in [Skills -> Skill \cup {Absent}]
    BY DEF DiscoverStep, IInv, TypeOK
  <1>2. call \in Discovery
    BY <1>1, CallFields
  <1>3. /\ skills' = IF refused THEN skills ELSE [skills EXCEPT ![k] = Reconciled(call, k)]
        /\ calls' = IF refused THEN [calls EXCEPT ![c] = Idle]
                    ELSE [OvertakeDiscoveries(calls, c) EXCEPT ![c].todo = @ \ {k}]
        /\ UNCHANGED <<sharing, project, bodies, files, started>>
    BY DEF DiscoverStep
  <1>4. CASE refused
    <2>1. skills' = skills /\ calls' = [calls EXCEPT ![c] = Idle]
      BY <1>3, <1>4
    <2>2. calls'[c] = Idle /\ \A d \in Callers \ {c} : calls'[d] = calls[d]
      BY <1>1, <2>1
    <2>3. Current(c)'
      BY <2>2 DEF Current
    <2> QED
      BY <1>3, <2>1, <2>2, <2>3, CurrentQuiet
  <1>5. CASE ~refused
    <2>1. PICK cs : cs = OvertakeDiscoveries(calls, c)
      OBVIOUS
    <2>2. /\ skills' = [skills EXCEPT ![k] = Reconciled(call, k)]
          /\ calls' = [cs EXCEPT ![c].todo = @ \ {k}]
      BY <1>3, <1>5, <2>1
    <2>3. /\ cs \in [Callers -> Call \cup {Idle}] /\ cs[c] = call
          /\ \A d \in Callers \ {c} : \/ cs[d].overtaken
                                      \/ cs[d] = calls[d] /\ (calls[d] = Idle \/ calls[d].phase # "discovering")
      BY <1>1, <2>1, OvertakeDiscoveriesSame
    <2>4. PICK r : r = [call EXCEPT !.todo = call.todo \ {k}]
      OBVIOUS
    <2>5. /\ r.phase = "discovering" /\ r.prior = call.prior /\ r.declared = call.declared
          /\ r.todo = call.todo \ {k} /\ r.overtaken = call.overtaken
      BY <1>1, <1>2, <2>4 DEF Discovery
    <2>6. calls'[c] = r /\ \A d \in Callers \ {c} : calls'[d] = cs[d]
      BY <2>2, <2>3, <2>4
    <2>7. skills'[k] = Reconciled(call, k) /\ \A j \in Skills \ {k} : skills'[j] = skills[j]
      BY <1>1, <2>2
    <2>8. Current(c)'
      <3> SUFFICES ASSUME ~call.overtaken
                   PROVE  /\ project' # Absent
                          /\ (ReadIsStored(c) /\ DefaultIsStored(c) /\ WritesExactly(c) /\ FindsStored(c))'
        BY <2>5, <2>6 DEF Current
      <3>1. project # Absent /\ \A j \in Skills : call.declared[j] = DeclaredStatus(Stored, j) /\ Discovered(call, j)
        BY <1>1 DEF AllCurrent, Current, FindsStored
      <3>2. Stored' = Stored
        BY <1>3 DEF Stored
      <3>3. ASSUME NEW j \in Skills
            PROVE  r.declared[j] = DeclaredStatus(Stored, j)' /\ Discovered(r, j)'
        <4>1. DeclaredStatus(Stored, j)' = DeclaredStatus(Stored, j)
          BY <1>3, <3>2 DEF DeclaredStatus, Places, GuidedBy
        <4>2. Reconciled(r, j) = Reconciled(call, j)
          BY <2>5 DEF Reconciled
        <4>3. Discovered(r, j)'
          <5>1. CASE j = k
            BY <1>1, <2>5, <2>7, <3>1, <4>2, <5>1 DEF Discovered, Reconciled
          <5>2. CASE j # k
            <6>1. skills'[j] = skills[j] /\ (j \in r.todo <=> j \in call.todo)
              BY <2>5, <2>7, <5>2
            <6> QED
              BY <2>5, <3>1, <4>2, <6>1 DEF Discovered, Reconciled
          <5> QED
            BY <5>1, <5>2
        <4> QED
          BY <2>5, <3>1, <4>1, <4>3
      <3>4. FindsStored(c)'
        BY <2>6, <3>3 DEF FindsStored
      <3> QED
        BY <1>3, <2>5, <2>6, <3>1, <3>4 DEF ReadIsStored, DefaultIsStored, WritesExactly
    <2>9. ASSUME NEW d \in Callers \ {c} PROVE Current(d)'
      <3>1. CASE calls'[d] = Idle \/ calls'[d].overtaken
        BY <3>1, CurrentFrame DEF AllCurrent
      <3>2. CASE calls'[d] = calls[d] /\ calls[d].phase # "discovering"
        BY <1>3, <3>2, CurrentFrame DEF AllCurrent
      <3> QED
        BY <2>3, <2>6, <3>1, <3>2
    <2> QED
      BY <2>8, <2>9 DEF AllCurrent
  <1> QED
    BY <1>4, <1>5

LEMMA CurrentHostSkill ==
    ASSUME IInv, AllCurrent, NEW k \in Skills, NEW input \in SkillInputs,
           CreateProjectSkill(k, input) \/ UpdateProjectSkill(k, input)
    PROVE  AllCurrent'
  <1>1. calls' = OvertakeDiscoveries(calls, Absent) /\ UNCHANGED <<sharing, project, bodies, files, started>>
    BY DEF CreateProjectSkill, UpdateProjectSkill
  <1>2. ASSUME NEW d \in Callers
        PROVE  \/ calls'[d].overtaken
               \/ calls'[d] = calls[d] /\ (calls[d] = Idle \/ calls[d].phase # "discovering")
    <2>1. d # Absent
      BY ContextAssumption
    <2> QED
      BY <1>1, <2>1, OvertakeDiscoveriesSame DEF IInv, TypeOK
  <1>3. ASSUME NEW d \in Callers PROVE Current(d)'
    <2>1. CASE calls'[d] = Idle \/ calls'[d].overtaken
      BY <2>1, CurrentFrame DEF AllCurrent
    <2>2. CASE calls'[d] = calls[d] /\ calls[d].phase # "discovering"
      BY <1>1, <2>2, CurrentFrame DEF AllCurrent
    <2> QED
      BY <1>2, <2>1, <2>2
  <1> QED
    BY <1>3 DEF AllCurrent

LEMMA CurrentKept ==
    IInv /\ AllCurrent /\ [Next]_vars => AllCurrent'
  <1> SUFFICES ASSUME IInv, AllCurrent, [Next]_vars PROVE AllCurrent'
    OBVIOUS
  <1>1. CASE (\E host \in HostProjects : CreateProject(host) \/ ReplaceProject(host)) \/ DeleteProject
    BY <1>1, CurrentProject
  <1>2. ASSUME NEW c \in Callers, NEW edit \in Edits, GetProject(c, edit) PROVE AllCurrent'
    BY <1>2, CurrentGet
  <1>3. ASSUME NEW c \in Callers, HelperStep(c) PROVE AllCurrent'
    <2>1. CASE CreateRoot(c) \/ AttachProjectRoot(c)
      BY <2>1, CurrentRootAdded
    <2>2. CASE DeleteRoot(c)
      BY <2>2, CurrentRootDeleted
    <2>3. CASE UpdateRoot(c) \/ UpdateContextSource(c)
      BY <2>3, CurrentUpdateEntry
    <2>4. CASE CreateContextSource(c) \/ DeleteContextSource(c)
      BY <2>4, CurrentSourceEdit
    <2>5. CASE SetProjectDefaults(c) \/ PatchProject(c)
      BY <2>5, CurrentWholeEdit
    <2>6. CASE FinishUpdate(c)
      BY <2>6, CurrentFinishUpdate
    <2>7. CASE RemoveProjectRoot(c)
      BY <2>7, CurrentRemovalStarts
    <2>8. CASE RemoveStep(c)
      BY <2>8, CurrentRemoveStep
    <2>9. CASE FinishRemoval(c)
      BY <2>9, CurrentFinishRemoval
    <2>10. CASE Write(c)
      BY <2>10, CurrentWrite
    <2>11. CASE ScanSkills(c)
      BY <2>11, CurrentScan
    <2>12. CASE FinishDiscovery(c)
      BY <2>12, CurrentReturn DEF FinishDiscovery
    <2> QED
      BY <1>3, <2>1, <2>2, <2>3, <2>4, <2>5, <2>6, <2>7, <2>8, <2>9, <2>10, <2>11, <2>12 DEF HelperStep
  <1>4. ASSUME NEW c \in Callers, NEW k \in Skills, DiscoverStep(c, k) PROVE AllCurrent'
    BY <1>4, CurrentDiscoverStep
  <1>5. ASSUME NEW k \in Skills, NEW input \in SkillInputs,
               CreateProjectSkill(k, input) \/ UpdateProjectSkill(k, input)
        PROVE  AllCurrent'
    BY <1>5, CurrentHostSkill
  <1>6. CASE UNCHANGED vars
    <2>1. ASSUME NEW d \in Callers PROVE Current(d)'
      BY <1>6, CurrentFrame DEF vars, AllCurrent
    <2> QED
      BY <2>1 DEF AllCurrent
  <1> QED
    BY <1>1, <1>2, <1>3, <1>4, <1>5, <1>6 DEF Next

\* Every call in flight that nobody overtook knows the project as it is stored.
THEOREM CallsAreCurrent == Spec => []AllCurrent
  <1>1. Init => AllCurrent
    BY DEF Init, AllCurrent, Current
  <1> QED
    BY <1>1, CurrentKept, InvariantHolds, PTL DEF Spec

-----------------------------------------------------------------------------
(* What a step makes of a call that is about to write.                     *)

\* No other step ends such a call.
LEMMA OnlyItsWriteEnds ==
    ASSUME IInv, [Next]_vars, NEW c \in Callers, calls[c] # Idle, calls[c].phase = "ready", calls'[c] = Idle
    PROVE  Write(c)
  <1>1. calls \in [Callers -> Call \cup {Idle}] /\ ~Same(calls[c], calls'[c])
    BY DEF IInv, TypeOK, Same
  <1>2. ASSUME NEW d \in Callers \ {c}, NEW x, calls' = [calls EXCEPT ![d] = x] PROVE FALSE
    BY <1>1, <1>2
  <1>3. ASSUME NEW d \in Callers \ {c}, NEW roots, NEW sources, NEW default, Normalized(d, roots, sources, default)
        PROVE  FALSE
    BY <1>2, <1>3 DEF Normalized, Return
  <1>4. ASSUME NEW d \in Callers \ {c} PROVE ~Return(d)
    BY <1>2, <1>4 DEF Return
  <1>5. ASSUME NEW d \in Callers \ {c}, HelperStep(d) PROVE FALSE
    <2>1. CASE CreateRoot(d) \/ AttachProjectRoot(d) \/ DeleteRoot(d)
      BY <1>3, <1>4, <2>1 DEF CreateRoot, AttachProjectRoot, DeleteRoot
    <2>2. CASE CreateContextSource(d) \/ DeleteContextSource(d)
      BY <1>3, <1>4, <2>2 DEF CreateContextSource, DeleteContextSource
    <2>3. CASE SetProjectDefaults(d) \/ PatchProject(d) \/ FinishUpdate(d)
      BY <1>3, <2>3 DEF SetProjectDefaults, PatchProject, FinishUpdate
    <2>4. CASE UpdateRoot(d) \/ UpdateContextSource(d)
      <3>1. PICK list, entry : AssignEntry(d, list, entry)
        BY <2>4 DEF UpdateRoot, UpdateContextSource
      <3>2. PICK cs : cs = IF sharing THEN Overtake(calls, d) ELSE calls
        OBVIOUS
      <3>3. calls' = [cs EXCEPT ![d].phase = "edited"]
        BY <1>4, <3>1, <3>2 DEF AssignEntry
      <3>4. cs \in [Callers -> Call \cup {Idle}] /\ Same(calls[c], cs[c])
        BY <1>1, <3>2, OvertakeSame, SameReflexive
      <3>5. calls'[c] = cs[c]
        BY <3>3, <3>4
      <3> QED
        BY <1>1, <3>4, <3>5
    <2>5. CASE RemoveProjectRoot(d)
      BY <1>2, <2>5 DEF RemoveProjectRoot
    <2>6. CASE RemoveStep(d)
      BY <1>1, <2>6, RemoveStepCalls
    <2>7. CASE FinishRemoval(d)
      BY <1>3, <1>4, <2>7 DEF FinishRemoval
    <2>8. CASE Write(d)
      <3>1. PICK idle : idle = [calls EXCEPT ![d] = Idle]
        OBVIOUS
      <3>2. calls' = Overtake(idle, d)
        BY <1>4, <2>8, <3>1 DEF Write, UpdateProject
      <3>3. idle \in [Callers -> Call \cup {Idle}] /\ idle[c] = calls[c]
        BY <1>1, <3>1
      <3> QED
        BY <1>1, <3>2, <3>3, OvertakeSame
    <2>9. CASE ScanSkills(d)
      BY <1>2, <1>4, <2>9 DEF ScanSkills
    <2>10. CASE FinishDiscovery(d)
      BY <1>4, <2>10 DEF FinishDiscovery
    <2> QED
      BY <1>5, <2>1, <2>2, <2>3, <2>4, <2>5, <2>6, <2>7, <2>8, <2>9, <2>10 DEF HelperStep
  <1>6. ASSUME NEW host \in HostProjects, CreateProject(host) \/ ReplaceProject(host) PROVE FALSE
    BY <1>1, <1>6, OvertakeSame DEF CreateProject, ReplaceProject
  <1>7. ASSUME DeleteProject PROVE FALSE
    BY <1>1, <1>7, OvertakeSame DEF DeleteProject
  <1>8. ASSUME NEW d \in Callers, NEW edit \in Edits, GetProject(d, edit) PROVE FALSE
    BY <1>2, <1>8 DEF GetProject
  <1>9. ASSUME NEW d \in Callers, NEW k \in Skills, DiscoverStep(d, k) PROVE FALSE
    <2>1. d # c
      BY <1>9 DEF DiscoverStep
    <2>2. PICK cs : cs = OvertakeDiscoveries(calls, d)
      OBVIOUS
    <2>3. cs \in [Callers -> Call \cup {Idle}] /\ Same(calls[c], cs[c])
      BY <1>1, <2>2, OvertakeDiscoveriesSame
    <2>4. calls' = [calls EXCEPT ![d] = Idle] \/ calls' = [cs EXCEPT ![d].todo = @ \ {k}]
      BY <1>9, <2>2 DEF DiscoverStep
    <2>5. calls'[c] = calls[c] \/ calls'[c] = cs[c]
      BY <1>1, <2>1, <2>3, <2>4
    <2> QED
      BY <1>1, <2>3, <2>5
  <1>10. ASSUME NEW k \in Skills, NEW input \in SkillInputs,
                CreateProjectSkill(k, input) \/ UpdateProjectSkill(k, input)
         PROVE  FALSE
    BY <1>1, <1>10, OvertakeDiscoveriesSame DEF CreateProjectSkill, UpdateProjectSkill
  <1>11. ~UNCHANGED vars
    BY DEF vars
  <1>12. HelperStep(c)
    <2>1. Next
      BY <1>11
    <2>2. ~\E host \in HostProjects : CreateProject(host) \/ ReplaceProject(host)
      BY <1>6
    <2>3. ~\E d \in Callers, edit \in Edits : GetProject(d, edit)
      BY <1>8
    <2>4. ~\E d \in Callers, k \in Skills : DiscoverStep(d, k)
      BY <1>9
    <2>5. ~\E k \in Skills, input \in SkillInputs : CreateProjectSkill(k, input) \/ UpdateProjectSkill(k, input)
      BY <1>10
    <2>6. PICK d \in Callers : HelperStep(d)
      BY <1>7, <2>1, <2>2, <2>3, <2>4, <2>5, Zenon DEF Next
    <2> QED
      BY <1>5, <2>6
  <1> QED
    BY <1>12 DEF HelperStep, CreateRoot, AttachProjectRoot, DeleteRoot, UpdateRoot, CreateContextSource,
         DeleteContextSource, UpdateContextSource, SetProjectDefaults, PatchProject, FinishUpdate,
         RemoveProjectRoot, RemoveStep, FinishRemoval, ScanSkills, FinishDiscovery, Editing, Removing

\* A helper that nobody overtook writes what it read with the one change that
\* was asked for: whatever else a write loses, it loses to an overlap.
THEOREM NothingElseIsLost == Spec => LostOnlyToOverlap
  <1>1. ASSUME IInv, AllCurrent, [Next]_vars, NEW c \in Callers, WritesFrom(c), ~calls[c].overtaken
        PROVE  EditsExactly(c)
    <2> DEFINE edit == calls[c].edit
               after == bodies'[project'.body]
    <2>1. calls[c] # Idle /\ calls[c].phase = "ready" /\ project # Absent /\ UpdateProject(c)
      BY <1>1, OnlyItsWriteEnds DEF WritesFrom, Write
    <2>2. /\ project' = [body |-> FreeSlot, default |-> calls[c].default]
          /\ bodies'[FreeSlot] = [roots |-> calls[c].roots, sources |-> calls[c].sources, shifted |-> {}]
      BY <1>1, <2>1, UpdateProjectWrites
    <2>3. after.roots = calls[c].roots /\ after.sources = calls[c].sources /\ project'.default = calls[c].default
      BY <2>2
    <2>4. /\ ExactLists(edit, calls[c].roots, calls[c].sources, Stored)
          /\ (edit.op # "SetProjectDefaults" /\ project.default \in Ids(calls[c].roots)) =>
                 calls[c].default = project.default
      BY <1>1, <2>1 DEF AllCurrent, Current, WritesExactly
    <2> HIDE DEF after
    <2>5. \A list \in Lists : IF list = "roots" /\ edit.op = "PatchRoots" THEN after.roots = edit.content
                              ELSE Entries(after[list], edit.id) = Entries(Stored[list], edit.id)
      BY <2>3, <2>4 DEF ExactLists, Lists
    <2> QED
      BY <2>3, <2>4, <2>5 DEF EditsExactly, ExactLists, after
  <1>2. IInv /\ AllCurrent /\ [Next]_vars =>
            [\A c \in Callers : WritesFrom(c) /\ ~calls[c].overtaken => EditsExactly(c)]_vars
    BY <1>1
  <1> QED
    BY <1>2, InvariantHolds, CallsAreCurrent, PTL DEF Spec, LostOnlyToOverlap

\* At the end of a discovery that nobody overtook every skill has the status its
\* declarations under the stored roots give it, what was found is registered, and
\* a description is as it was listed or, where there was none, the file's.
THEOREM DiscoveryEndsReconciled == Spec => DiscoveryReconciles
  <1>1. ASSUME IInv, AllCurrent, NEW c \in Callers, NEW k \in Skills, FinishDiscovery(c), ~calls[c].overtaken
        PROVE  /\ calls[c].declared[k] = DeclaredStatus(Stored, k)
               /\ IF skills[k] = Absent THEN DeclaredStatus(Stored, k) = "missing"
                  ELSE /\ skills[k].status = DeclaredStatus(Stored, k)
                       /\ calls[c].prior[k] # Absent => DescriptionKept(calls[c], k, skills[k].description)
    <2> DEFINE call == calls[c]
    <2>1. call # Idle /\ call.phase = "discovering" /\ call.todo = {}
      BY <1>1 DEF FinishDiscovery
    <2>2. call.declared[k] = DeclaredStatus(Stored, k) /\ Discovered(call, k)
      BY <1>1, <2>1 DEF AllCurrent, Current, FindsStored
    <2>3. CASE skills[k] = Reconciled(call, k) /\ (call.prior[k] = Absent => call.declared[k] # "missing")
      <3>1. /\ Reconciled(call, k) \in Skill
            /\ Reconciled(call, k).status = call.declared[k]
            /\ call.prior[k] # Absent => DescriptionKept(call, k, Reconciled(call, k).description)
        <4>1. call \in Discovery
          BY <1>1, <2>1, CallFields DEF IInv, TypeOK
        <4> QED
          BY <4>1, ReconciledSkill
      <3>2. skills[k] # Absent
        BY <2>3, <3>1, ContextAssumption
      <3> HIDE DEF call
      <3> QED
        BY <2>2, <2>3, <3>1, <3>2 DEF call
    <2>4. CASE /\ call.declared[k] = "missing" /\ skills[k] = call.prior[k]
               /\ skills[k] # Absent => skills[k].status = "missing"
      BY <2>2, <2>4 DEF DescriptionKept
    <2> QED
      BY <2>1, <2>2, <2>3, <2>4 DEF Discovered
  <1>2. IInv /\ AllCurrent =>
            \A c \in Callers, k \in Skills :
               LET call == calls[c]
                   declared == DeclaredStatus(Stored, k)
               IN  (FinishDiscovery(c) /\ ~call.overtaken) =>
                      IF skills[k] = Absent THEN declared = "missing"
                      ELSE /\ skills[k].status = declared
                           /\ call.prior[k] # Absent =>
                                  skills[k].description =
                                      IF call.prior[k].description = Blank /\ declared # "missing"
                                      THEN FileDescription ELSE call.prior[k].description
    BY <1>1 DEF DescriptionKept
  <1> QED
    BY <1>2, InvariantHolds, CallsAreCurrent, PTL DEF Spec, DiscoveryReconciles
=============================================================================
