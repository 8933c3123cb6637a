------------------------ MODULE PipelineConfigProofs ------------------------
\* checkNoCycles reports a cycle and only a cycle, scheduleJobsInStage plans every job of a
\* stage once and after its needs, and every error is reported at what it names, for every
\* set of pipeline files.
\* Errors: parser and verifier skip the same entries of the root, so the entry the verifier
\* counts up to is the one the job was made from; of `stages' the verifier skips none, which
\* is right when every stage has its shape.
\* Search: the path holds the jobs that are being visited, each needs the next, and no set
\* of jobs that are done with waits for itself.
\* Plan: the counts are the needs not yet in the result.
EXTENDS PipelineConfig, FiniteSetTheorems, WellFoundedInduction, TLAPS

USE SMTT(20), ZenonT(20)

-----------------------------------------------------------------------------
\* A nonempty set of natural numbers has a smallest one.
LEMMA SmallestNumber ==
  ASSUME NEW T, T \subseteq Nat, T # {}
  PROVE  \E x \in T : \A y \in T : x <= y
<1>1. PICK x \in T : \A y \in T : ~(<<y, x>> \in OpToRel(<, Nat))
  BY NatLessThanWellFounded, WFMin, Zenon
<1>2. \A y \in T : ~(y < x)
  BY <1>1, Zenon DEF OpToRel
<1> QED BY <1>2

\* Min of a nonempty set of natural numbers is the smallest one.
LEMMA MinIsSmallest ==
  ASSUME NEW T, T \subseteq Nat, T # {}
  PROVE  Min(T) \in T /\ \A y \in T : Min(T) <= y
<1>1. \E x \in T : \A y \in T : x <= y
  BY SmallestNumber, Zenon
<1> QED BY <1>1, Zenon DEF Min

\* Max of a nonempty set of indices is the largest one.
LEMMA MaxIsLargest ==
  ASSUME NEW n \in Nat, NEW T, T \subseteq 0 .. n, T # {}
  PROVE  Max(T) \in T /\ \A y \in T : Max(T) >= y
<1> DEFINE U == {n - x : x \in T}
<1>0. \A x \in T : n - x \in Nat
  OBVIOUS
<1>1. U \subseteq Nat /\ U # {}
  BY <1>0, Zenon
<1>2. PICK u \in U : \A v \in U : u <= v
  BY <1>1, SmallestNumber, Zenon
<1>3. PICK x \in T : u = n - x
  OBVIOUS
<1>4. \A y \in T : n - y \in U
  OBVIOUS
<1>5. \A y \in T : x >= y
  BY <1>2, <1>3, <1>4
<1>6. \E z \in T : \A y \in T : z >= y
  BY <1>5
<1> QED BY <1>6, Zenon DEF Max

\* g is the list of joined prefixes.
Builds(lists, k, g) == g = [i \in 0 .. k |-> IF i = 0 THEN <<>> ELSE g[i - 1] \o lists[i]]

\* The recursive function in Joined has a value: its prefixes exist for every length.
LEMMA PrefixesExist ==
  ASSUME NEW n \in Nat, NEW lists
  PROVE  \E g : Builds(lists, n, g)
<1> DEFINE Bad == {k \in Nat : ~\E g : Builds(lists, k, g)}
<1>1. SUFFICES ASSUME Bad # {} PROVE FALSE
  BY Zenon
<1>2. PICK k \in Bad : \A j \in Bad : k <= j
  BY <1>1, SmallestNumber, Zenon
<1>3. k # 0
  <2>1. Builds(lists, 0, [i \in 0 .. 0 |-> <<>>])
    BY DEF Builds
  <2> QED BY <2>1, Zenon
<1>4. k - 1 \in Nat /\ ~(k <= k - 1)
  BY <1>3
<1>5. PICK g : Builds(lists, k - 1, g)
  BY <1>2, <1>4, Zenon
<1> DEFINE h == [i \in 0 .. k |-> IF i = k THEN g[k - 1] \o lists[k] ELSE g[i]]
<1>6. \A i \in 0 .. k - 1 : g[i] = IF i = 0 THEN <<>> ELSE g[i - 1] \o lists[i]
  <2> SUFFICES ASSUME NEW i \in 0 .. k - 1 PROVE g[i] = IF i = 0 THEN <<>> ELSE g[i - 1] \o lists[i]
    OBVIOUS
  <2>1. g = [j \in 0 .. k - 1 |-> IF j = 0 THEN <<>> ELSE g[j - 1] \o lists[j]]
    BY <1>5, Zenon DEF Builds
  <2> QED BY <2>1, Zenon
<1>7. \A i \in 0 .. k : h[i] = IF i = 0 THEN <<>> ELSE h[i - 1] \o lists[i]
  BY <1>3, <1>4, <1>6
<1>8. h = [i \in 0 .. k |-> h[i]]
  OBVIOUS
<1>9. Builds(lists, k, h)
  <2> HIDE DEF h
  <2> QED BY <1>7, <1>8, Zenon DEF Builds
<1> QED BY <1>2, <1>9, Zenon

\* Joined, which parseJob and appendStringValues use, is the last of these prefixes.
LEMMA JoinedIsBuilt ==
  ASSUME NEW lists, Len(lists) \in Nat
  PROVE  \E g : Builds(lists, Len(lists), g) /\ Joined(lists) = g[Len(lists)]
<1>1. \E g : Builds(lists, Len(lists), g)
  BY PrefixesExist, Zenon
<1>2. PICK u : u = CHOOSE g : g = [i \in 0 .. Len(lists) |-> IF i = 0 THEN <<>> ELSE g[i - 1] \o lists[i]]
  BY Zenon
<1>3. Builds(lists, Len(lists), u)
  BY <1>1, <1>2, Zenon DEF Builds
<1>4. Joined(lists) = u[Len(lists)]
  BY <1>2, Zenon DEF Joined
<1> QED BY <1>3, <1>4, Zenon

\* Lists of elements of S joined are a list of elements of S.
LEMMA JoinedIsList ==
  ASSUME NEW lists, Len(lists) \in Nat, NEW S, \A i \in 1 .. Len(lists) : lists[i] \in Seq(S)
  PROVE  Joined(lists) \in Seq(S)
<1> DEFINE n == Len(lists)
<1>1. PICK g : Builds(lists, n, g) /\ Joined(lists) = g[n]
  BY JoinedIsBuilt, Zenon
<1>2. g = [i \in 0 .. n |-> IF i = 0 THEN <<>> ELSE g[i - 1] \o lists[i]]
  BY <1>1, Zenon DEF Builds
<1>3. \A i \in 0 .. n : g[i] = IF i = 0 THEN <<>> ELSE g[i - 1] \o lists[i]
  <2> SUFFICES ASSUME NEW i \in 0 .. n PROVE g[i] = IF i = 0 THEN <<>> ELSE g[i - 1] \o lists[i]
    OBVIOUS
  <2> QED BY <1>2, Zenon
<1> DEFINE Bad == {k \in 0 .. n : g[k] \notin Seq(S)}
<1>4. SUFFICES ASSUME Bad # {} PROVE FALSE
  <2>1. n \in 0 .. n
    OBVIOUS
  <2> QED BY <1>1, <2>1, Zenon
<1>5. Bad \subseteq Nat
  OBVIOUS
<1>6. PICK k \in Bad : \A j \in Bad : k <= j
  BY <1>4, <1>5, SmallestNumber, Zenon
<1>7. k # 0
  <2>1. 0 \in 0 .. n
    OBVIOUS
  <2>2. g[0] = <<>>
    BY <1>3, <2>1
  <2>3. g[0] \in Seq(S)
    BY <2>2
  <2> QED BY <2>3, Zenon
<1>8. k - 1 \in 0 .. n /\ ~(k <= k - 1) /\ k \in 1 .. n
  BY <1>7
<1>9. g[k - 1] \in Seq(S) /\ lists[k] \in Seq(S)
  BY <1>6, <1>8, Zenon
<1>10. g[k] = g[k - 1] \o lists[k]
  BY <1>3, <1>7, Zenon
<1> HIDE DEF n
<1>11. g[k] \in Seq(S)
  BY <1>9, <1>10
<1> QED BY <1>6, <1>11, Zenon

\* A set of indices of a list is finite.
LEMMA PartIsFinite ==
  ASSUME NEW n \in Nat, NEW T, T \subseteq 1 .. n
  PROVE  IsFiniteSet(T) /\ Cardinality(T) \in Nat
<1>1. IsFiniteSet(1 .. n)
  BY FS_Interval
<1>2. IsFiniteSet(T)
  BY <1>1, FS_Subset, Zenon
<1> QED BY <1>2, FS_CardinalityType

\* How many indices of the set are not above x.
UpTo(T, x) == Cardinality({m \in T : m <= x})

\* Of two indices in a set, the later one has more of the set up to it.
LEMMA CountGrows ==
  ASSUME NEW n \in Nat, NEW T, T \subseteq 1 .. n, NEW a \in T, NEW b \in T, a < b
  PROVE  UpTo(T, a) < UpTo(T, b)
<1> DEFINE A == {m \in T : m <= a}
           B == {m \in T : m <= b}
<1>1. A \subseteq B /\ b \in B /\ b \notin A /\ B \subseteq 1 .. n
  <2>1. a \in Nat /\ b \in Nat /\ \A m \in T : m \in Nat
    OBVIOUS
  <2>2. b <= b /\ ~(b <= a) /\ \A m \in T : m <= a => m <= b
    BY <2>1
  <2> QED BY <2>2, Zenon
<1>2. IsFiniteSet(B)
  BY <1>1, PartIsFinite, Zenon
<1> HIDE DEF A, B
<1>3. IsFiniteSet(A) /\ Cardinality(A) <= Cardinality(B) /\ (Cardinality(B) = Cardinality(A) => B = A)
  BY <1>1, <1>2, FS_Subset, Zenon
<1>4. Cardinality(A) \in Nat /\ Cardinality(B) \in Nat
  BY <1>2, <1>3, FS_CardinalityType
<1>5. Cardinality(A) < Cardinality(B)
  BY <1>1, <1>3, <1>4
<1> QED BY <1>5, Zenon DEF UpTo, A, B

\* The count up to an index of the set is a place in the part that Kept makes.
LEMMA CountIsIndex ==
  ASSUME NEW n \in Nat, NEW T, T \subseteq 1 .. n, NEW a \in T
  PROVE  UpTo(T, a) \in 1 .. Cardinality(T)
<1> DEFINE A == {m \in T : m <= a}
<1>1. A \subseteq T /\ a \in A /\ A \subseteq 1 .. n
  <2>1. a \in Nat
    OBVIOUS
  <2>2. a <= a
    BY <2>1
  <2> QED BY <2>2, Zenon
<1>2. IsFiniteSet(T) /\ Cardinality(T) \in Nat /\ Cardinality(A) \in Nat /\ IsFiniteSet(A)
  BY <1>1, PartIsFinite, Zenon
<1>0. UpTo(T, a) = Cardinality(A)
  BY DEF UpTo
<1> HIDE DEF A
<1>3. Cardinality(A) <= Cardinality(T)
  BY <1>1, <1>2, FS_Subset, Zenon
<1>4. Cardinality(A) # 0
  BY <1>1, <1>2, FS_EmptySet
<1> QED BY <1>0, <1>2, <1>3, <1>4

\* The n-th index of a set is the one with n indices up to it, and they ascend.
LEMMA NthIsIndex ==
  ASSUME NEW n \in Nat, NEW T, T \subseteq 1 .. n
  PROVE  /\ \A i \in 1 .. Cardinality(T) : Nth(T, i) \in T /\ UpTo(T, Nth(T, i)) = i
         /\ \A a \in T : UpTo(T, a) \in 1 .. Cardinality(T) /\ Nth(T, UpTo(T, a)) = a
         /\ \A i, k \in 1 .. Cardinality(T) : i < k => Nth(T, i) < Nth(T, k)
<1> DEFINE D == 1 .. Cardinality(T)
           f == [a \in T |-> UpTo(T, a)]
<1>1. IsFiniteSet(T) /\ Cardinality(T) \in Nat
  BY PartIsFinite, Zenon
<1>2. \A a \in T : UpTo(T, a) \in D
  BY CountIsIndex, Zenon
<1>3. \A a, b \in T : UpTo(T, a) = UpTo(T, b) => a = b
  <2> SUFFICES ASSUME NEW a \in T, NEW b \in T, UpTo(T, a) = UpTo(T, b), a # b PROVE FALSE
    OBVIOUS
  <2>1. UpTo(T, a) \in Nat /\ UpTo(T, b) \in Nat
    BY <1>1, <1>2
  <2>2. CASE a < b
    <3>1. UpTo(T, a) < UpTo(T, b)
      BY <2>2, CountGrows, Zenon
    <3> QED BY <2>1, <3>1
  <2>3. CASE b < a
    <3>1. UpTo(T, b) < UpTo(T, a)
      BY <2>3, CountGrows, Zenon
    <3> QED BY <2>1, <3>1
  <2>4. a \in Nat /\ b \in Nat
    OBVIOUS
  <2> QED BY <2>2, <2>3, <2>4
<1>4. f \in Injection(T, D)
  BY <1>2, <1>3, Zenon DEF Injection, IsInjective
<1>5. IsFiniteSet(D) /\ Cardinality(D) = Cardinality(T)
  BY <1>1, FS_Interval
<1>6. f \in Surjection(T, D)
  BY <1>1, <1>4, <1>5, FS_Injection
<1>7. \A i \in D : \E a \in T : UpTo(T, a) = i
  BY <1>6, Zenon DEF Surjection
<1>8. \A i \in D : Nth(T, i) \in T /\ UpTo(T, Nth(T, i)) = i
  BY <1>7, Zenon DEF Nth, UpTo
<1>9. \A a \in T : Nth(T, UpTo(T, a)) = a
  BY <1>2, <1>3, <1>8, Zenon
<1>10. ASSUME NEW i \in D, NEW k \in D, i < k PROVE Nth(T, i) < Nth(T, k)
  <2> DEFINE a == Nth(T, i)
             b == Nth(T, k)
  <2>1. a \in T /\ b \in T /\ UpTo(T, a) = i /\ UpTo(T, b) = k
    BY <1>8, Zenon
  <2> HIDE DEF a, b
  <2>2. a # b
    BY <2>1, <1>10
  <2>3. ~(b < a)
    <3> SUFFICES ASSUME b < a PROVE FALSE
      OBVIOUS
    <3>1. UpTo(T, b) < UpTo(T, a)
      BY <2>1, CountGrows, Zenon
    <3> QED BY <1>1, <1>10, <2>1, <3>1
  <2>4. a \in Nat /\ b \in Nat
    BY <2>1
  <2>5. a < b
    BY <2>2, <2>3, <2>4
  <2> QED BY <2>5 DEF a, b
<1> QED BY <1>2, <1>8, <1>9, <1>10, Zenon

\* What is kept of a list is a list of the elements with these indices.
LEMMA KeptIsList ==
  ASSUME NEW s, IsList(s), NEW T, T \subseteq DOMAIN s
  PROVE  /\ Cardinality(T) \in Nat /\ IsList(Kept(s, T))
         /\ DOMAIN Kept(s, T) = 1 .. Cardinality(T)
         /\ \A i \in 1 .. Cardinality(T) : Kept(s, T)[i] = s[Nth(T, i)]
<1>1. Len(s) \in Nat /\ DOMAIN s = 1 .. Len(s)
  BY DEF IsList
<1>2. Cardinality(T) \in Nat
  BY <1>1, PartIsFinite, Zenon
<1>3. DOMAIN Kept(s, T) = 1 .. Cardinality(T)
  BY DEF Kept
<1>4. \A i \in 1 .. Cardinality(T) : Kept(s, T)[i] = s[Nth(T, i)]
  BY DEF Kept
<1>5. Kept(s, T) \in [1 .. Cardinality(T) -> Range(Kept(s, T))]
  BY DEF Kept, Range
<1>6. Kept(s, T) \in Seq(Range(Kept(s, T)))
  BY <1>2, <1>5
<1> QED BY <1>2, <1>3, <1>4, <1>6, Zenon DEF IsList

\* All of a list kept is the list.
LEMMA KeptAll ==
  ASSUME NEW n \in Nat
  PROVE  Cardinality(1 .. n) = n /\ \A i \in 1 .. n : Nth(1 .. n, i) = i
<1>1. Cardinality(1 .. n) = n
  BY FS_Interval
<1>2. ASSUME NEW i \in 1 .. n PROVE Nth(1 .. n, i) = i
  <2>1. {m \in 1 .. n : m <= i} = 1 .. i
    OBVIOUS
  <2>2. Cardinality(1 .. i) = i
    BY FS_Interval
  <2>3. UpTo(1 .. n, i) = i
    BY <2>1, <2>2, Zenon DEF UpTo
  <2>4. Nth(1 .. n, UpTo(1 .. n, i)) = i
    BY NthIsIndex, Zenon
  <2> QED BY <2>3, <2>4, Zenon
<1> QED BY <1>1, <1>2, Zenon

\* A sequence of anything is a list.
LEMMA SeqIsList ==
  ASSUME NEW S, NEW s \in Seq(S)
  PROVE  IsList(s)
<1>1. Len(s) \in Nat /\ DOMAIN s = 1 .. Len(s) /\ s = [i \in 1 .. Len(s) |-> s[i]]
  OBVIOUS
<1>2. s \in [1 .. Len(s) -> Range(s)]
  BY <1>1 DEF Range
<1>3. s \in Seq(Range(s))
  BY <1>1, <1>2
<1> QED BY <1>3 DEF IsList

\* A function on 1 .. n is a list.
LEMMA TableIsList ==
  ASSUME NEW n \in Nat, NEW s, DOMAIN s = 1 .. n, s = [i \in 1 .. n |-> s[i]]
  PROVE  IsList(s) /\ Len(s) = n
<1>1. s \in [1 .. n -> Range(s)]
  BY DEF Range
<1>2. s \in Seq(Range(s)) /\ Len(s) = n
  BY <1>1
<1> QED BY <1>2 DEF IsList

\* The domain of a list.
LEMMA ListDomain ==
  ASSUME NEW s, IsList(s)
  PROVE  Len(s) \in Nat /\ DOMAIN s = 1 .. Len(s)
BY DEF IsList

\* First of a set of indices is 0 or the smallest of them.
LEMMA FirstIsIndex ==
  ASSUME NEW n \in Nat, NEW T, T \subseteq 1 .. n
  PROVE  (T = {} => First(T) = 0) /\ (T # {} => First(T) \in T /\ First(T) # 0)
<1>1. CASE T = {}
  BY <1>1, Zenon DEF First
<1>2. CASE T # {}
  <2>1. T \subseteq Nat
    OBVIOUS
  <2>2. Min(T) \in T
    BY <1>2, <2>1, MinIsSmallest, Zenon
  <2>3. Min(T) # 0
    BY <2>2
  <2> QED BY <1>2, <2>2, <2>3, Zenon DEF First
<1> QED BY <1>1, <1>2, Zenon

\* None of them is smaller.
LEMMA FirstIsSmallest ==
  ASSUME NEW n \in Nat, NEW T, T \subseteq 1 .. n, NEW y \in T
  PROVE  First(T) <= y
<1>1. T \subseteq Nat /\ T # {}
  OBVIOUS
<1> QED BY <1>1, MinIsSmallest, Zenon DEF First

\* findMappingNode finds an entry with the key, or none.
LEMMA FindsNode ==
  ASSUME NEW d, IsList(d.keys), NEW name
  PROVE  \/ FindMappingNode(d, name) = Absent
         \/ \E k \in DOMAIN d.keys : d.keys[k].name = name /\ FindMappingNode(d, name) = d.keys[k]
<1> DEFINE T == {i \in DOMAIN d.keys : d.keys[i].name = name}
<1>1. Len(d.keys) \in Nat /\ DOMAIN d.keys = 1 .. Len(d.keys)
  BY ListDomain, Zenon
<1>2. (T = {} => First(T) = 0) /\ (T # {} => First(T) \in T /\ First(T) # 0)
  BY <1>1, FirstIsIndex, Zenon
<1>3. FirstKey(d, name) = First(T)
  BY Zenon DEF FirstKey
<1> QED BY <1>2, <1>3, Zenon DEF FindMappingNode

\* The entries of a list of stages are a list.
LEMMA EntriesAreList ==
  ASSUME NEW d, IsDocument(d), FindMappingNode(d, "stages").kind = "seq"
  PROVE  IsList(FindMappingNode(d, "stages").entries)
<1>1. FindMappingNode(d, "stages") # Absent
  <2>1. Absent.kind = "absent"
    BY DEF Absent
  <2>2. Absent.kind # "seq"
    BY <2>1
  <2> QED BY <2>2, Zenon
<1>0. IsList(d.keys)
  BY Zenon DEF IsDocument
<1>3. \A name : \/ FindMappingNode(d, name) = Absent
                \/ \E k \in DOMAIN d.keys : d.keys[k].name = name /\ FindMappingNode(d, name) = d.keys[k]
  BY <1>0, FindsNode, Zenon
<1>2. PICK k \in DOMAIN d.keys : d.keys[k].name = "stages" /\ FindMappingNode(d, "stages") = d.keys[k]
  BY <1>1, <1>3, Zenon
<1> QED BY <1>2, Zenon DEF IsDocument, HasLists

\* parseStages keeps the named entries; of entries that are all well shaped it keeps all.
LEMMA ParsedStages ==
  ASSUME NEW node, IsList(node.entries)
  PROVE  /\ IsList(ParseStages(node))
         /\ (\A i \in DOMAIN node.entries : node.entries[i].kind \in {"str", "map"})
              => ParseStages(node) = [i \in DOMAIN node.entries |-> node.entries[i].name]
<1> DEFINE s == node.entries
           T == {i \in DOMAIN s : Scalar(s[i].kind) \/ s[i].kind \in {"map", "mapOtherName"}}
<1>1. Len(s) \in Nat /\ DOMAIN s = 1 .. Len(s)
  BY ListDomain, Zenon
<1>2. /\ Cardinality(T) \in Nat /\ DOMAIN Kept(s, T) = 1 .. Cardinality(T)
      /\ \A i \in 1 .. Cardinality(T) : Kept(s, T)[i] = s[Nth(T, i)]
  <2>1. T \subseteq DOMAIN s /\ IsList(s)
    BY Zenon
  <2> HIDE DEF T, s
  <2> QED BY <2>1, KeptIsList, Zenon
<1>3. PICK r : r = [i \in DOMAIN Kept(s, T) |-> Kept(s, T)[i].name]
  BY Zenon
<1>4. ParseStages(node) = r
  BY <1>3, Zenon DEF ParseStages
<1>5. DOMAIN r = 1 .. Cardinality(T) /\ r = [i \in 1 .. Cardinality(T) |-> r[i]]
  BY <1>2, <1>3
<1>6. IsList(r)
  BY <1>2, <1>5, TableIsList, Zenon
<1>7. ASSUME \A i \in DOMAIN s : s[i].kind \in {"str", "map"}
      PROVE  r = [i \in DOMAIN s |-> s[i].name]
  <2>1. T = 1 .. Len(s)
    BY <1>1, <1>7 DEF Scalar
  <2>2. Cardinality(T) = Len(s) /\ \A i \in 1 .. Len(s) : Nth(T, i) = i
    BY <1>1, <2>1, KeptAll, Zenon
  <2> HIDE DEF T
  <2>3. \A i \in 1 .. Len(s) : r[i] = s[i].name
    BY <1>2, <1>3, <2>2
  <2>4. r = [i \in 1 .. Len(s) |-> s[i].name]
    BY <1>5, <2>2, <2>3
  <2> QED BY <1>1, <2>4, Zenon
<1> QED BY <1>4, <1>6, <1>7, Zenon

\* What appendStringValues adds is a list.
LEMMA ValuesAreList ==
  ASSUME NEW value, value.kind = "seq" => IsList(value.items)
  PROVE  IsList(AppendStringValues(value))
<1>1. CASE Scalar(value.kind)
  <2>1. AppendStringValues(value) = <<value.text>>
    BY <1>1 DEF AppendStringValues, Scalar
  <2>2. <<value.text>> \in Seq({value.text})
    OBVIOUS
  <2> QED BY <2>1, <2>2, SeqIsList, Zenon
<1>2. CASE ~Scalar(value.kind) /\ value.kind = "seq"
  <2>1. PICK s : s = value.items
    BY Zenon
  <2>2. PICK l : l = [i \in DOMAIN s |-> IF Scalar(s[i].kind) THEN <<s[i].text>> ELSE <<>>]
    BY Zenon
  <2>3. AppendStringValues(value) = Joined(l)
    BY <1>2, <2>1, <2>2 DEF AppendStringValues, Scalar
  <2>4. Len(s) \in Nat /\ DOMAIN s = 1 .. Len(s)
    BY <1>2, <2>1, ListDomain, Zenon
  <2>5. DOMAIN l = 1 .. Len(s) /\ l = [i \in 1 .. Len(s) |-> l[i]]
    BY <2>2, <2>4
  <2>6. Len(l) = Len(s)
    BY <2>4, <2>5, TableIsList, Zenon
  <2> DEFINE U == {s[i].text : i \in DOMAIN s}
  <2>7. ASSUME NEW i \in 1 .. Len(s) PROVE l[i] \in Seq(U)
    <3>1. PICK t : t = s[i].text
      BY Zenon
    <3>2. l[i] \in {<<t>>, <<>>} /\ t \in U
      BY <2>2, <2>4, <2>7, <3>1, Zenon
    <3> HIDE DEF U
    <3>3. <<t>> \in Seq(U) /\ <<>> \in Seq(U)
      BY <3>2
    <3> QED BY <3>2, <3>3, Zenon
  <2> HIDE DEF U
  <2>8. Joined(l) \in Seq(U)
    BY <2>4, <2>6, <2>7, JoinedIsList, Zenon
  <2> QED BY <2>3, <2>8, SeqIsList, Zenon
<1>3. CASE ~Scalar(value.kind) /\ value.kind # "seq"
  <2>1. AppendStringValues(value) = <<>>
    BY <1>3 DEF AppendStringValues, Scalar
  <2>2. <<>> \in Seq({})
    OBVIOUS
  <2> QED BY <2>1, <2>2, SeqIsList, Zenon
<1> QED BY <1>1, <1>2, <1>3, Zenon

\* The fields parseJob reads: those of the steps that are mappings.
StepFields(node) ==
  UNION {Range(node.steps[i].fields) : i \in {i \in DOMAIN node.steps : node.steps[i].kind = "map"}}

\* JobFields is a list, and its members are the fields of the steps that parseJob reads.
LEMMA FieldsOfSteps ==
  ASSUME NEW node, node.kind = "seq" => HasLists(node), ~IsReservedTopLevelKey(node.name)
  PROVE  /\ IsList(JobFields(node))
         /\ node.kind # "seq" => DOMAIN JobFields(node) = {}
         /\ node.kind = "seq" => Range(JobFields(node)) \subseteq StepFields(node)
<1>1. CASE node.kind # "seq"
  <2>1. JobFields(node) = <<>>
    BY <1>1, Zenon DEF JobFields
  <2>2. <<>> \in Seq({}) /\ DOMAIN <<>> = {}
    OBVIOUS
  <2>3. IsList(JobFields(node))
    BY <2>1, <2>2, SeqIsList, Zenon
  <2> QED BY <1>1, <2>1, <2>2, <2>3, Zenon
<1>2. CASE node.kind = "seq"
  <2> DEFINE s == node.steps
             S == StepFields(node)
  <2>1. PICK l : l = [i \in DOMAIN s |-> IF s[i].kind = "map" THEN s[i].fields ELSE <<>>]
    BY Zenon
  <2>2. JobFields(node) = Joined(l)
    BY <1>2, <2>1, Zenon DEF JobFields
  <2>3. IsList(s) /\ \A i \in DOMAIN s : s[i].kind = "map" => IsList(s[i].fields)
    BY <1>2, Zenon DEF HasLists
  <2>4. Len(s) \in Nat /\ DOMAIN s = 1 .. Len(s)
    BY <2>3, ListDomain, Zenon
  <2>5. DOMAIN l = 1 .. Len(s) /\ l = [i \in 1 .. Len(s) |-> l[i]]
    BY <2>1, <2>4
  <2>6. Len(l) = Len(s)
    BY <2>4, <2>5, TableIsList, Zenon
  <2>7. ASSUME NEW i \in 1 .. Len(s) PROVE l[i] \in Seq(S)
    <3>1. CASE s[i].kind = "map"
      <4>1. l[i] = s[i].fields /\ IsList(s[i].fields)
        BY <2>1, <2>3, <2>4, <3>1, Zenon
      <4>2. Range(s[i].fields) \subseteq S
        BY <2>4, <3>1, Zenon DEF StepFields
      <4> HIDE DEF s, S
      <4> QED BY <4>1, <4>2 DEF IsList
    <3>2. CASE s[i].kind # "map"
      <4>1. l[i] = <<>>
        BY <2>1, <2>4, <3>2, Zenon
      <4> QED BY <4>1
    <3> QED BY <3>1, <3>2, Zenon
  <2> HIDE DEF s, S
  <2>8. Joined(l) \in Seq(S)
    BY <2>4, <2>6, <2>7, JoinedIsList, Zenon
  <2>9. IsList(Joined(l))
    BY <2>8, SeqIsList, Zenon
  <2>10. Range(Joined(l)) \subseteq S
    BY <2>8 DEF Range
  <2> QED BY <1>2, <2>2, <2>9, <2>10, Zenon DEF S
<1> QED BY <1>1, <1>2, Zenon

\* The needs of a job are a list, and a job with needs has a field that states them.
LEMMA NeedsAreStated ==
  ASSUME NEW node, node.kind = "seq" => HasLists(node), ~IsReservedTopLevelKey(node.name)
  PROVE  /\ IsList(ParseJob(node).needs)
         /\ ParseJob(node).needs # <<>> =>
              node.kind = "seq" /\ \E f \in StepFields(node) : f.key = "needs"
<1> DEFINE s == JobFields(node)
<1>1. /\ IsList(s) /\ (node.kind # "seq" => DOMAIN s = {})
      /\ node.kind = "seq" => Range(s) \subseteq StepFields(node)
  BY FieldsOfSteps, Zenon
<1>2. PICK l : l = [i \in DOMAIN s |-> IF s[i].key = "needs" THEN AppendStringValues(s[i].value) ELSE <<>>]
  BY Zenon
<1>5. ParseJob(node).needs = Joined(l)
  BY <1>2, Zenon DEF ParseJob
<1>6. \A i \in DOMAIN s : s[i].value.kind = "seq" => IsList(s[i].value.items)
  <2> SUFFICES ASSUME NEW i \in DOMAIN s, s[i].value.kind = "seq" PROVE IsList(s[i].value.items)
    BY Zenon
  <2>1. node.kind = "seq" /\ s[i] \in StepFields(node)
    BY <1>1, Zenon DEF Range
  <2>2. PICK k \in DOMAIN node.steps : node.steps[k].kind = "map" /\ s[i] \in Range(node.steps[k].fields)
    BY <2>1, Zenon DEF StepFields
  <2>3. PICK m \in DOMAIN node.steps[k].fields : s[i] = node.steps[k].fields[m]
    BY <2>2, Zenon DEF Range
  <2>4. \A x \in DOMAIN node.steps[k].fields : node.steps[k].fields[x].value.kind = "seq"
          => IsList(node.steps[k].fields[x].value.items)
    BY <2>1, <2>2, Zenon DEF HasLists
  <2> HIDE DEF s
  <2> QED BY <2>3, <2>4, Zenon
<1> HIDE DEF s
<1> DEFINE T == {i \in DOMAIN s : s[i].key = "needs"}
           U == UNION {Range(AppendStringValues(s[i].value)) : i \in T}
<1>7. Len(s) \in Nat /\ DOMAIN s = 1 .. Len(s)
  BY <1>1, ListDomain, Zenon
<1>8. DOMAIN l = 1 .. Len(s) /\ l = [i \in 1 .. Len(s) |-> l[i]]
  BY <1>2, <1>7
<1>9. Len(l) = Len(s)
  BY <1>7, <1>8, TableIsList, Zenon
<1>10. ASSUME NEW i \in 1 .. Len(s) PROVE l[i] \in Seq(U)
  <2>1. CASE s[i].key = "needs"
    <3>1. PICK v : v = AppendStringValues(s[i].value)
      BY Zenon
    <3>2. s[i].value.kind = "seq" => IsList(s[i].value.items)
      BY <1>6, <1>7, <1>10, Zenon
    <3>3. IsList(v)
      BY <3>1, <3>2, ValuesAreList, Zenon
    <3>4. l[i] = v /\ Range(v) \subseteq U
      BY <1>2, <1>7, <1>10, <2>1, <3>1, Zenon
    <3> HIDE DEF U
    <3> QED BY <3>3, <3>4 DEF IsList
  <2>2. CASE s[i].key # "needs"
    <3>1. l[i] = <<>>
      BY <1>2, <1>7, <1>10, <2>2, Zenon
    <3> QED BY <3>1
  <2> QED BY <2>1, <2>2, Zenon
<1>11. T = {} => U = {}
  BY Zenon
<1> HIDE DEF T, U
<1>12. Joined(l) \in Seq(U)
  BY <1>7, <1>9, <1>10, JoinedIsList, Zenon
<1>13. IsList(Joined(l))
  BY <1>12, SeqIsList, Zenon
<1>14. ASSUME Joined(l) # <<>> PROVE node.kind = "seq" /\ \E f \in StepFields(node) : f.key = "needs"
  <2>1. U # {}
    BY <1>12, <1>14
  <2>2. PICK n \in DOMAIN s : s[n].key = "needs"
    BY <1>11, <2>1, Zenon DEF T
  <2>3. node.kind = "seq" /\ s[n] \in StepFields(node)
    BY <1>1, <2>2, Zenon DEF Range
  <2> QED BY <2>2, <2>3, Zenon
<1> QED BY <1>5, <1>13, <1>14, Zenon

\* The verifier finds the needs of a well typed job that has some.
LEMMA NeedsAreFound ==
  ASSUME NEW node, node.kind = "seq" => HasLists(node), ~IsReservedTopLevelKey(node.name),
         JobIsWellTyped(node), ParseJob(node).needs # <<>>
  PROVE  FindJobField(node, "needs") # 0
<1> DEFINE Has(s) == s.kind = "map" /\ Len(s.fields) = 1 /\ s.fields[1].key = "needs"
           T == {i \in DOMAIN node.steps : Has(node.steps[i])}
<1>1. node.kind = "seq" /\ \E f \in StepFields(node) : f.key = "needs"
  BY NeedsAreStated, Zenon
<1>0. PICK f \in StepFields(node) : f.key = "needs"
  BY <1>1, Zenon
<1>2. PICK i \in DOMAIN node.steps : node.steps[i].kind = "map" /\ f \in Range(node.steps[i].fields)
  BY Zenon DEF StepFields
<1>3. PICK k \in DOMAIN node.steps[i].fields : f = node.steps[i].fields[k]
  BY <1>2, Zenon DEF Range
<1>4. IsList(node.steps) /\ IsList(node.steps[i].fields)
  BY <1>1, <1>2, Zenon DEF HasLists
<1>5. Len(node.steps[i].fields) = 1
  BY Zenon DEF JobIsWellTyped
<1>6. DOMAIN node.steps[i].fields = 1 .. 1
  BY <1>4, <1>5, ListDomain, Zenon
<1>7. k = 1
  BY <1>6
<1>8. i \in T
  BY <1>0, <1>2, <1>3, <1>5, <1>7, Zenon
<1>9. Len(node.steps) \in Nat /\ DOMAIN node.steps = 1 .. Len(node.steps)
  BY <1>4, ListDomain, Zenon
<1>10. T \subseteq 1 .. Len(node.steps) /\ T # {}
  BY <1>8, <1>9, Zenon
<1>11. FindJobField(node, "needs") = First(T)
  BY <1>1, Zenon DEF FindJobField
<1> HIDE DEF T
<1> QED BY <1>9, <1>10, <1>11, FirstIsIndex, Zenon

\* parseJobs makes a job of every entry that is none of the reserved ones, in order.
LEMMA ParsedJobs ==
  ASSUME NEW d, IsDocument(d)
  PROVE  /\ Cardinality(JobEntries(d)) \in Nat
         /\ IsList(BuildPipeline(d).jobs)
         /\ DOMAIN BuildPipeline(d).jobs = 1 .. Cardinality(JobEntries(d))
         /\ \A i \in 1 .. Cardinality(JobEntries(d)) :
              /\ Nth(JobEntries(d), i) \in JobEntries(d)
              /\ BuildPipeline(d).jobs[i] = ParseJob(d.keys[Nth(JobEntries(d), i)])
<1> DEFINE T == JobEntries(d)
           s == d.keys
<1>1. IsList(s) /\ T \subseteq DOMAIN s
  BY Zenon DEF IsDocument, JobEntries
<1>2. PICK q : q = [n \in T |-> ParseJob(s[n])]
  BY Zenon
<1>3. BuildPipeline(d).jobs = Kept(q, T)
  BY <1>2, Zenon DEF BuildPipeline
<1> HIDE DEF T, s
<1>4. Len(s) \in Nat /\ T \subseteq 1 .. Len(s)
  BY <1>1, ListDomain, Zenon
<1>5. Cardinality(T) \in Nat
  BY <1>4, PartIsFinite, Zenon
<1>6. \A i \in 1 .. Cardinality(T) : Nth(T, i) \in T
  BY <1>4, NthIsIndex, Zenon
<1>7. PICK r : r = Kept(q, T)
  BY Zenon
<1>8. r = [i \in 1 .. Cardinality(T) |-> q[Nth(T, i)]]
  BY <1>7, Zenon DEF Kept
<1>9. DOMAIN r = 1 .. Cardinality(T) /\ r = [i \in 1 .. Cardinality(T) |-> r[i]]
  BY <1>8
<1>10. IsList(r)
  BY <1>5, <1>9, TableIsList, Zenon
<1>11. \A i \in 1 .. Cardinality(T) : r[i] = ParseJob(s[Nth(T, i)])
  BY <1>2, <1>6, <1>8, Zenon
<1> QED BY <1>3, <1>5, <1>6, <1>7, <1>9, <1>10, <1>11, Zenon DEF T, s

\* The verifier counts to the entry the parser made the job from.
LEMMA PairIsEntry ==
  ASSUME NEW d, IsDocument(d)
  PROVE  /\ \A i \in 1 .. Cardinality(JobEntries(d)) : GetJobNodePair(d, i) = Nth(JobEntries(d), i)
         /\ Cardinality(JobEntries(d)) = 0 => GetJobNodePair(d, 1) = 0
<1> DEFINE T == JobEntries(d)
           IsJob(n) == ~IsReservedTopLevelKey(d.keys[n].name)
           Found(i) == {n \in DOMAIN d.keys : IsJob(n) /\ Cardinality({m \in 1 .. n : IsJob(m)}) = i}
<1>1. Len(d.keys) \in Nat /\ DOMAIN d.keys = 1 .. Len(d.keys)
  BY ListDomain, Zenon DEF IsDocument
<1>2. T = {n \in 1 .. Len(d.keys) : IsJob(n)}
  BY <1>1, Zenon DEF JobEntries
<1>3. \A i : GetJobNodePair(d, i) = Max(Found(i) \cup {0})
  BY Zenon DEF GetJobNodePair
<1> HIDE DEF T, IsJob
<1>4. ASSUME NEW n \in T PROVE {m \in 1 .. n : IsJob(m)} = {m \in T : m <= n}
  BY <1>1, <1>2
<1>5. ASSUME NEW i PROVE Found(i) = {n \in T : UpTo(T, n) = i}
  <2>1. \A n \in T : UpTo(T, n) = Cardinality({m \in 1 .. n : IsJob(m)})
    BY <1>4, Zenon DEF UpTo
  <2> QED BY <1>1, <1>2, <2>1, Zenon
<1> HIDE DEF Found
<1>6. T \subseteq 1 .. Len(d.keys)
  BY <1>2, Zenon
<1>7. ASSUME NEW i \in 1 .. Cardinality(T) PROVE GetJobNodePair(d, i) = Nth(T, i)
  <2> DEFINE x == Nth(T, i)
  <2>1. x \in T /\ Found(i) = {x}
    <3>1. x \in T /\ UpTo(T, x) = i
      BY <1>1, <1>6, <1>7, NthIsIndex, Zenon
    <3>2. \A n \in T : Nth(T, UpTo(T, n)) = n
      BY <1>1, <1>6, NthIsIndex, Zenon
    <3>3. \A n \in T : UpTo(T, n) = i => n = x
      BY <3>2, Zenon
    <3> HIDE DEF x
    <3> QED BY <1>5, <3>1, <3>3, Zenon
  <2> HIDE DEF x
  <2>2. x \in Nat
    BY <1>1, <1>6, <2>1
  <2>3. Max({x} \cup {0}) = x
    BY <2>2 DEF Max
  <2> QED BY <1>3, <2>1, <2>3, Zenon DEF x
<1>8. ASSUME Cardinality(T) = 0 PROVE GetJobNodePair(d, 1) = 0
  <2>1. Found(1) = {}
    <3>1. \A n \in T : UpTo(T, n) \in 1 .. Cardinality(T)
      BY <1>1, <1>6, CountIsIndex, Zenon
    <3>2. T = {}
      BY <1>8, <3>1
    <3> QED BY <1>5, <3>2, Zenon
  <2>2. Max({0}) = 0
    BY DEF Max
  <2>3. Found(1) \cup {0} = {0}
    BY <2>1, Zenon
  <2> QED BY <1>3, <2>2, <2>3, Zenon
<1> QED BY <1>7, <1>8, Zenon DEF T

\* A file without an error about the type of a job has only well typed jobs.
LEMMA JobsAreWellTyped ==
  ASSUME NEW d, IsDocument(d), Shape("jobType") \notin ValidateJobs(d), NEW n \in JobEntries(d)
  PROVE  JobIsWellTyped(d.keys[n])
<1> DEFINE T == JobEntries(d)
           s == d.keys
<1>1. IsList(s) /\ T \subseteq DOMAIN s
  BY Zenon DEF IsDocument, JobEntries
<1>2. \A i \in DOMAIN Kept(s, T) : JobIsWellTyped(Kept(s, T)[i])
  BY Zenon DEF ValidateJobs, GetJobNodes
<1>3. n \in T
  OBVIOUS
<1> HIDE DEF T, s
<1>4. /\ Cardinality(T) \in Nat /\ DOMAIN Kept(s, T) = 1 .. Cardinality(T)
      /\ \A i \in 1 .. Cardinality(T) : Kept(s, T)[i] = s[Nth(T, i)]
  BY <1>1, KeptIsList, Zenon
<1>5. Len(s) \in Nat /\ T \subseteq 1 .. Len(s)
  BY <1>1, ListDomain, Zenon
<1>6. UpTo(T, n) \in 1 .. Cardinality(T) /\ Nth(T, UpTo(T, n)) = n
  BY <1>3, <1>5, NthIsIndex, Zenon
<1>7. JobIsWellTyped(s[n])
  BY <1>2, <1>4, <1>6, Zenon
<1> QED BY <1>7 DEF s

\* What buildPipeline makes of a file are lists, whatever it skips.
LEMMA ParserMakesPipeline ==
  ASSUME NEW d, IsDocument(d)
  PROVE  IsPipeline(BuildPipeline(d))
<1> DEFINE p == BuildPipeline(d)
           node == FindMappingNode(d, "stages")
           stages == IF node.kind = "seq" THEN ParseStages(node) ELSE <<>>
<1>1. p.stages = IF stages = <<>> THEN DefaultStages ELSE stages
  BY Zenon DEF BuildPipeline
<1>2. IsList(DefaultStages)
  <2>1. DefaultStages \in Seq({"build", "test", "docs"})
    BY DEF DefaultStages
  <2> QED BY <2>1, SeqIsList, Zenon
<1>3. stages # <<>> => IsList(stages)
  BY EntriesAreList, ParsedStages, Zenon
<1>4. IsList(p.stages)
  <2> HIDE DEF stages, p
  <2> QED BY <1>1, <1>2, <1>3, Zenon
<1>5. IsList(p.jobs)
  BY ParsedJobs, Zenon
<1>6. ASSUME NEW i \in DOMAIN p.jobs PROVE IsList(p.jobs[i].needs)
  <2>1. PICK n \in JobEntries(d) : p.jobs[i] = ParseJob(d.keys[n])
    BY ParsedJobs, Zenon
  <2>2. n \in DOMAIN d.keys /\ ~IsReservedTopLevelKey(d.keys[n].name)
    BY Zenon DEF JobEntries
  <2>3. d.keys[n].kind = "seq" => HasLists(d.keys[n])
    BY <2>2, Zenon DEF IsDocument
  <2>4. IsList(ParseJob(d.keys[n]).needs)
    BY <2>2, <2>3, NeedsAreStated, Zenon
  <2> QED BY <2>1, <2>4, Zenon
<1> QED BY <1>4, <1>5, <1>6, Zenon DEF IsPipeline

\* The last job of a name is a job of that name.
LEMMA LastIndexHasName ==
  ASSUME NEW p, IsList(p.jobs), NEW name \in JobNames(p)
  PROVE  LastIndex(p, name) \in DOMAIN p.jobs /\ p.jobs[LastIndex(p, name)].name = name
<1> DEFINE T == {i \in DOMAIN p.jobs : p.jobs[i].name = name}
<1>1. Len(p.jobs) \in Nat /\ DOMAIN p.jobs = 1 .. Len(p.jobs)
  BY ListDomain, Zenon
<1>2. PICK i \in T : i \in 1 .. Len(p.jobs)
  BY <1>1, Zenon DEF JobNames
<1>3. LastIndex(p, name) = Max(T \cup {0})
  BY Zenon DEF LastIndex
<1>4. T \subseteq 1 .. Len(p.jobs)
  BY <1>1, Zenon
<1> HIDE DEF T
<1>5. T \cup {0} \subseteq 0 .. Len(p.jobs) /\ T \cup {0} # {}
  BY <1>1, <1>4
<1>6. Max(T \cup {0}) \in T \cup {0} /\ \A y \in T \cup {0} : Max(T \cup {0}) >= y
  BY <1>1, <1>5, MaxIsLargest, Zenon
<1>7. Max(T \cup {0}) \in T
  <2>1. Max(T \cup {0}) # 0
    <3>1. Max(T \cup {0}) >= i
      BY <1>6, Zenon
    <3>2. i \in Nat /\ ~(0 >= i)
      BY <1>1, <1>2
    <3> QED BY <3>1, <3>2, Zenon
  <2> QED BY <1>6, <2>1, Zenon
<1> QED BY <1>3, <1>7, Zenon DEF T

\* The neighbours of a job are a list of names.
LEMMA NeighboursAreNames ==
  ASSUME IsPipeline(pipeline)
  PROVE  \A j : Neighbours(j) \in Seq(Names)
<1> SUFFICES ASSUME NEW j PROVE Neighbours(j) \in Seq(Names)
  OBVIOUS
<1>1. CASE j \in JobNames(pipeline)
  <2> DEFINE k == LastIndex(pipeline, j)
  <2>1. k \in DOMAIN pipeline.jobs
    BY <1>1, LastIndexHasName DEF IsPipeline
  <2>2. Neighbours(j) = pipeline.jobs[k].needs
    BY <1>1 DEF Neighbours, LastNamed
  <2>3. pipeline.jobs[k].needs \in Seq(Range(pipeline.jobs[k].needs))
    BY <2>1 DEF IsPipeline, IsList
  <2>4. Range(pipeline.jobs[k].needs) \subseteq Names
    BY <2>1 DEF Names
  <2> HIDE DEF k
  <2> QED BY <2>2, <2>3, <2>4
<1>2. CASE j \notin JobNames(pipeline)
  BY <1>2 DEF Neighbours
<1> QED BY <1>1, <1>2

\* A sequence made of a finite set has each element of it once.
LEMMA OrderIsList ==
  ASSUME NEW S, IsFiniteSet(S), NEW s \in Orders(S)
  PROVE  s \in Seq(S) /\ IsInjective(s) /\ Range(s) = S
<1> DEFINE D == 1 .. Cardinality(S)
<1>1. Cardinality(S) \in Nat
  BY FS_CardinalityType
<1>2. s \in [D -> S] /\ IsInjective(s) /\ \A x \in S : \E i \in D : s[i] = x
  BY Zenon DEF Orders, Bijection, Injection, Surjection
<1>3. s \in Seq(S)
  BY <1>1, <1>2
<1>4. Range(s) = S
  BY <1>2 DEF Range
<1> QED BY <1>2, <1>3, <1>4

-----------------------------------------------------------------------------
(* The search for cycles.                                                   *)

\* The jobs the search has left for good.
Done == visited \ recStack

\* Every nonempty set of these jobs has one that waits for no other of the set.
NoneWaits(S) ==
  \A W \in SUBSET S : W # {} => \E j \in W : \A n \in W : ~NeedsEdge(j, n)

\* What each stage of the work knows about the file, the pipeline and the errors.
FileKnows ==
  /\ doc \in Documents
  /\ pipeline \in {NoPipeline, BuildPipeline(doc)}
  /\ IsPipeline(pipeline)
  /\ pc \in {"parse", "verify", "cycles", "found", "stage", "schedule"} \cup Verdicts
  /\ pc \in {"parse", "verify"} => visited = {} /\ path = <<>> /\ errors = {}
  /\ pc \in {"cycles", "found"} => errors = StaticErrors(doc, pipeline)
  /\ pc \in {"stage", "schedule", "planned"} =>
       JobNames(pipeline) \subseteq Done /\ StaticErrors(doc, pipeline) = {}

\* The marked jobs are those on the path, each once.
PathKnows ==
  /\ path \in Seq(Names) /\ IsInjective(path)
  /\ looked \in Seq(Nat) /\ Len(looked) = Len(path)
  /\ visited \subseteq Names
  /\ recStack = Range(path) /\ recStack \subseteq visited

\* A job on the path looks at the job after it, and the neighbours before that are done.
FrameKnows(i) ==
  LET needs == Neighbours(path[i])
  IN /\ looked[i] <= Len(needs)
     /\ i < Len(path) => looked[i] > 0 /\ needs[looked[i]] = path[i + 1]
     /\ \A k \in 1 .. looked[i] : needs[k] \in Done \/ (i < Len(path) /\ k = looked[i])

DoneKnows ==
  /\ \A j \in Done : \A k \in DOMAIN Neighbours(j) : Neighbours(j)[k] \in Done
  /\ NoneWaits(Done)

\* The cycle found is one, and only a cycle found is reported.
CycleKnows ==
  /\ cycle \in Seq(Names) /\ IsInjective(cycle)
  /\ \A i \in DOMAIN cycle : NeedsEdge(cycle[i], cycle[IF i < Len(cycle) THEN i + 1 ELSE 1])
  /\ pc \in {"parse", "verify", "cycles"} => cycle = <<>>
  /\ pc = "found" => cycle # <<>>
  /\ (\E e \in errors : e.kind = "cycle") => cycle # <<>>

SearchInv ==
  FileKnows /\ PathKnows /\ (\A i \in DOMAIN path : FrameKnows(i)) /\ DoneKnows /\ CycleKnows

\* The checks before the search report no cycle.
LEMMA StaticErrorsAreNoCycles ==
  ASSUME NEW d, NEW p, NEW e, e \in StaticErrors(d, p)
  PROVE  e.kind # "cycle"
<1>1. CASE e \in CheckYAMLTypes(d) \cup ValidateJobs(d)
  <2>1. PICK k \in {"noPipeline", "pipelineShape", "pipelineName", "stages", "stage",
                    "jobType"} : e = Shape(k)
    BY <1>1, Zenon DEF CheckYAMLTypes, ValidateJobs
  <2> QED BY <2>1, Zenon DEF Shape, FormatError
<1>2. CASE e \in CheckAtLeastOneStage(d, p)
  <2>1. PICK n, at : e = FormatError("noStage", n, at)
    BY <1>2, Zenon DEF CheckAtLeastOneStage
  <2> QED BY <2>1, Zenon DEF FormatError
<1>3. CASE e \in CheckAtLeastOneJob(d, p)
  <2>1. PICK n, at : e = FormatError("noJob", n, at)
    BY <1>3, Zenon DEF CheckAtLeastOneJob
  <2> QED BY <2>1, Zenon DEF FormatError
<1>4. CASE e \in CheckUniqueStageNames(d, p)
  <2>1. PICK n, at : e = FormatError("duplicateStage", n, at)
    BY <1>4, Zenon DEF CheckUniqueStageNames, StageErrors
  <2> QED BY <2>1, Zenon DEF FormatError
<1>5. CASE e \in CheckNoEmptyStages(d, p)
  <2>1. PICK n, at : e = FormatError("emptyStage", n, at)
    BY <1>5, Zenon DEF CheckNoEmptyStages, StageErrors
  <2> QED BY <2>1, Zenon DEF FormatError
<1>6. CASE e \in CheckUniqueJobNames(d, p)
  <2>1. PICK n, at : e = FormatError("duplicateJob", n, at)
    BY <1>6, Zenon DEF CheckUniqueJobNames
  <2> QED BY <2>1, Zenon DEF FormatError
<1>7. CASE e \in CheckJobStagesExist(d, p)
  <2>1. PICK n, at : e = FormatError("undefinedStage", n, at)
    BY <1>7, Zenon DEF CheckJobStagesExist
  <2> QED BY <2>1, Zenon DEF FormatError
<1>8. CASE e \in CheckNeedsReferences(d, p)
  <2>1. PICK n, at : e = FormatError("undefinedNeed", n, at)
    BY <1>8, Zenon DEF CheckNeedsReferences, NeedsErrors
  <2> QED BY <2>1, Zenon DEF FormatError
<1>9. CASE e \in CheckNeedsStageConsistency(d, p)
  <2>1. PICK n, at : e = FormatError("foreignNeed", n, at)
    BY <1>9, Zenon DEF CheckNeedsStageConsistency, NeedsErrors
  <2> QED BY <2>1, Zenon DEF FormatError
<1> QED BY <1>1, <1>2, <1>3, <1>4, <1>5, <1>6, <1>7, <1>8, <1>9, Zenon DEF StaticErrors

\* The graph of needs is that of the pipeline.
LEMMA SameGraph ==
  ASSUME pipeline' = pipeline
  PROVE  /\ \A j : Neighbours(j)' = Neighbours(j)
         /\ Names' = Names
         /\ \A a, b : NeedsEdge(a, b)' = NeedsEdge(a, b)
<1>1. \A j : Neighbours(j)' = Neighbours(j)
  BY DEF Neighbours
<1>2. Names' = Names
  BY DEF Names
<1>3. \A a, b : NeedsEdge(a, b)' = NeedsEdge(a, b)
  BY <1>1 DEF NeedsEdge
<1> QED BY <1>1, <1>2, <1>3

\* While no job is done with, what is known of the jobs that are stays true.
LEMMA SameDone ==
  ASSUME DoneKnows, pipeline' = pipeline, Done' = Done
  PROVE  DoneKnows'
<1>1. \A j \in Done' : \A k \in DOMAIN Neighbours(j)' : Neighbours(j)'[k] \in Done'
  BY SameGraph DEF DoneKnows
<1>2. NoneWaits(Done)'
  BY SameGraph DEF DoneKnows, NoneWaits
<1> QED BY <1>1, <1>2 DEF DoneKnows

\* A step that leaves the search alone keeps what it knows.
LEMMA SamePath ==
  ASSUME SearchInv, UNCHANGED <<pipeline, visited, recStack, path, looked>>
  PROVE  PathKnows' /\ (\A i \in DOMAIN path : FrameKnows(i))' /\ DoneKnows' /\ Done' = Done
<1>1. Done' = Done
  BY DEF Done
<1>2. PathKnows'
  BY SameGraph DEF SearchInv, PathKnows
<1>3. (\A i \in DOMAIN path : FrameKnows(i))'
  BY <1>1, SameGraph DEF SearchInv, FrameKnows
<1> QED BY <1>1, <1>2, <1>3, SameDone DEF SearchInv

\* A cycle that is known stays one.
LEMMA SameCycle ==
  ASSUME CycleKnows, UNCHANGED <<pipeline, cycle>>
  PROVE  /\ cycle' \in Seq(Names') /\ IsInjective(cycle')
         /\ \A i \in DOMAIN cycle' :
              NeedsEdge(cycle[i], cycle[IF i < Len(cycle) THEN i + 1 ELSE 1])'
  BY SameGraph DEF CycleKnows

-----------------------------------------------------------------------------
\* The top of the path looks at one more neighbour and goes down to it, or starts anew.
Descends(job, counts) ==
  /\ counts \in Seq(Nat) /\ Len(counts) = Len(path)
  /\ \A i \in DOMAIN path : i < Len(path) => counts[i] = looked[i]
  /\ path # <<>> =>
       LET needs == Neighbours(path[Len(path)])
           last  == looked[Len(path)] + 1
       IN counts[Len(path)] = last /\ last <= Len(needs) /\ needs[last] = job

\* Going down to a new job: it is on top of the path, and nothing is done with yet.
LEMMA EnterKeepsPath ==
  ASSUME SearchInv, NEW job \in Names, job \notin visited, NEW counts, Descends(job, counts),
         Enter(job, counts), pipeline' = pipeline
  PROVE  PathKnows' /\ (\A i \in DOMAIN path : FrameKnows(i))' /\ DoneKnows'
<1>0. PICK L : L = Len(path)
  BY Zenon
<1>1. /\ path \in Seq(Names) /\ IsInjective(path) /\ looked \in Seq(Nat) /\ Len(looked) = L
      /\ visited \subseteq Names /\ recStack = Range(path) /\ recStack \subseteq visited
  BY <1>0 DEF SearchInv, PathKnows
<1>2. L \in Nat /\ DOMAIN path = 1 .. L
  BY <1>0, <1>1
<1>3. /\ path' = Append(path, job) /\ looked' = Append(counts, 0)
      /\ visited' = visited \cup {job} /\ recStack' = recStack \cup {job}
  BY DEF Enter
<1>4. counts \in Seq(Nat) /\ Len(counts) = L /\ \A i \in 1 .. L : i < L => counts[i] = looked[i]
  BY <1>0, <1>2 DEF Descends
<1>5. /\ path' \in Seq(Names) /\ Len(path') = L + 1 /\ DOMAIN path' = 1 .. L + 1
      /\ path'[L + 1] = job /\ \A i \in 1 .. L : path'[i] = path[i]
  BY <1>0, <1>1, <1>2, <1>3
<1>6. /\ looked' \in Seq(Nat) /\ Len(looked') = L + 1
      /\ looked'[L + 1] = 0 /\ \A i \in 1 .. L : looked'[i] = counts[i]
  BY <1>2, <1>3, <1>4
<1>7. Done' = Done
  BY <1>3 DEF Done
<1>8. \A i \in 1 .. L : path[i] # job
  BY <1>1, <1>2 DEF Range
<1>9. PathKnows'
  <2>1. Range(path)' = Range(path) \cup {job}
    <3>1. \A x \in Range(path)' : x \in Range(path) \cup {job}
      BY <1>2, <1>5 DEF Range
    <3>2. \A i \in 1 .. L + 1 : path'[i] \in Range(path)'
      BY <1>5, Zenon DEF Range
    <3>3. \A i \in 1 .. L : path[i] \in Range(path)'
      BY <1>2, <1>5, <3>2
    <3>4. job \in Range(path)'
      BY <1>2, <1>5, <3>2
    <3>5. \A x \in Range(path) : \E i \in 1 .. L : x = path[i]
      BY <1>2, Zenon DEF Range
    <3> QED BY <3>1, <3>3, <3>4, <3>5
  <2>2. IsInjective(path')
    <3>1. \A i, k \in 1 .. L : path[i] = path[k] => i = k
      BY <1>1, <1>2 DEF IsInjective
    <3>2. \A i, k \in 1 .. L + 1 : path'[i] = path'[k] => i = k
      BY <1>2, <1>5, <1>8, <3>1
    <3> QED BY <1>5, <3>2 DEF IsInjective
  <2>3. visited' \subseteq Names /\ recStack' \subseteq visited'
    BY <1>1, <1>3
  <2> QED BY <1>1, <1>3, <1>5, <1>6, <2>1, <2>2, <2>3, SameGraph DEF PathKnows
<1>10. ASSUME NEW i \in 1 .. L + 1 PROVE FrameKnows(i)'
  <2>1. PICK needs : needs = Neighbours(path[i])'
    BY Zenon
  <2>2. needs = Neighbours(path'[i])
    BY <2>1, SameGraph
  <2>3. needs \in Seq(Names)
    BY <2>2, NeighboursAreNames DEF SearchInv, FileKnows
  <2>4. CASE i = L + 1
    BY <1>2, <1>5, <1>6, <2>1, <2>3, <2>4 DEF FrameKnows
  <2>5. CASE i = L
    <3>1. path # <<>> /\ L \in DOMAIN path /\ looked[L] \in Nat
      BY <1>0, <1>1, <1>2, <2>5
    <3>2. needs = Neighbours(path[L])
      BY <1>2, <1>5, <2>2, <2>5
    <3>3. looked'[L] = looked[L] + 1 /\ looked[L] + 1 <= Len(needs) /\ needs[looked[L] + 1] = job
      BY <1>0, <1>2, <1>6, <2>5, <3>1, <3>2 DEF Descends
    <3>4. \A k \in 1 .. looked[L] : needs[k] \in Done
      BY <1>0, <1>2, <3>1, <3>2 DEF SearchInv, FrameKnows
    <3>5. \A k \in 1 .. looked'[L] : needs[k] \in Done' \/ k = looked'[L]
      BY <1>7, <3>1, <3>3, <3>4
    <3> QED BY <1>2, <1>5, <2>1, <2>5, <3>1, <3>3, <3>5 DEF FrameKnows
  <2>6. CASE i < L
    <3>1. i \in DOMAIN path /\ path'[i] = path[i] /\ path'[i + 1] = path[i + 1] /\ looked'[i] = looked[i]
      BY <1>2, <1>4, <1>5, <1>6, <2>6
    <3>2. FrameKnows(i) /\ needs = Neighbours(path[i])
      BY <2>2, <3>1 DEF SearchInv
    <3>3. /\ looked[i] <= Len(needs) /\ looked[i] > 0 /\ needs[looked[i]] = path[i + 1]
          /\ \A k \in 1 .. looked[i] : needs[k] \in Done \/ k = looked[i]
      BY <1>0, <2>6, <3>2 DEF FrameKnows
    <3>4. i < Len(path')
      BY <1>2, <1>5, <2>6
    <3> QED BY <1>7, <2>1, <3>1, <3>3, <3>4 DEF FrameKnows
  <2> QED BY <1>2, <2>4, <2>5, <2>6
<1>11. (\A i \in DOMAIN path : FrameKnows(i))'
  BY <1>5, <1>10, Zenon
<1> QED BY <1>7, <1>9, <1>11, SameDone DEF SearchInv

\* Passing a job that is done with.
LEMMA PassKeepsPath ==
  ASSUME SearchInv, NEW job, job \in visited \ recStack, NEW counts, Descends(job, counts),
         path # <<>>, looked' = counts, UNCHANGED <<pipeline, visited, recStack, path>>
  PROVE  PathKnows' /\ (\A i \in DOMAIN path : FrameKnows(i))' /\ DoneKnows'
<1>0. PICK L : L = Len(path)
  BY Zenon
<1>1. path \in Seq(Names) /\ looked \in Seq(Nat) /\ Len(looked) = L
  BY <1>0 DEF SearchInv, PathKnows
<1>2. L \in Nat /\ DOMAIN path = 1 .. L /\ L \in 1 .. L /\ looked[L] \in Nat
  BY <1>0, <1>1
<1>3. counts \in Seq(Nat) /\ Len(counts) = L /\ \A i \in 1 .. L : i < L => counts[i] = looked[i]
  BY <1>0, <1>2 DEF Descends
<1>4. Done' = Done
  BY DEF Done
<1>5. PathKnows'
  BY <1>0, <1>3, SameGraph DEF SearchInv, PathKnows
<1>6. ASSUME NEW i \in 1 .. L PROVE FrameKnows(i)'
  <2>1. PICK needs : needs = Neighbours(path[i])
    BY Zenon
  <2>2. needs = Neighbours(path[i])'
    BY <2>1, SameGraph
  <2>3. FrameKnows(i)
    BY <1>2 DEF SearchInv
  <2>4. CASE i = L
    <3>1. looked'[L] = looked[L] + 1 /\ looked[L] + 1 <= Len(needs) /\ needs[looked[L] + 1] = job
      BY <1>0, <2>1, <2>4 DEF Descends
    <3>2. \A k \in 1 .. looked[L] : needs[k] \in Done
      BY <1>0, <1>2, <2>1, <2>3, <2>4 DEF FrameKnows
    <3>3. job \in Done
      BY DEF Done
    <3>4. \A k \in 1 .. looked'[L] : needs[k] \in Done'
      BY <1>2, <1>4, <3>1, <3>2, <3>3
    <3> QED BY <1>0, <1>2, <2>2, <2>4, <3>1, <3>4 DEF FrameKnows
  <2>5. CASE i < L
    <3>1. looked'[i] = looked[i]
      BY <1>3, <2>5
    <3> QED BY <1>0, <1>4, <2>1, <2>2, <2>3, <2>5, <3>1 DEF FrameKnows
  <2> QED BY <1>2, <2>4, <2>5
<1>7. (\A i \in DOMAIN path : FrameKnows(i))'
  BY <1>2, <1>6
<1> QED BY <1>4, <1>5, <1>7, SameDone DEF SearchInv

\* The place of a job on the path, as the code looks it up.
LEMMA FirstOnPath ==
  ASSUME PathKnows, NEW job \in recStack
  PROVE  CycleStart(job) \in 1 .. Len(path) /\ path[CycleStart(job)] = job
<1> DEFINE T == {i \in DOMAIN path : path[i] = job}
<1>1. path \in Seq(Names) /\ recStack = Range(path)
  BY DEF PathKnows
<1>2. Len(path) \in Nat /\ DOMAIN path = 1 .. Len(path)
  BY <1>1
<1>3. T # {} /\ T \subseteq Nat
  BY <1>1, <1>2 DEF Range
<1>4. First(T) = Min(T)
  BY <1>3, Zenon DEF First
<1>5. Min(T) \in T
  BY <1>3, MinIsSmallest, Zenon
<1>6. PICK m \in T : m = Min(T)
  BY <1>5, Zenon
<1> HIDE DEF T
<1>7. m \in 1 .. Len(path) /\ path[m] = job
  BY <1>2 DEF T
<1>8. {1, m} \subseteq 0 .. Len(path) /\ {1, m} # {}
  BY <1>2, <1>7
<1>9. Max({1, m}) \in {1, m} /\ Max({1, m}) >= m
  BY <1>2, <1>8, MaxIsLargest
<1>10. Max({1, m}) = m
  BY <1>2, <1>7, <1>9
<1>11. CycleStart(job) = Max({1, m})
  BY <1>4, <1>6, Zenon DEF CycleStart, T
<1> QED BY <1>7, <1>10, <1>11, Zenon

\* The path from some place on.
FollowsPath(c, first) == c = SubSeq(path, first, Len(path))

\* A neighbour on the path closes a cycle: the path from there on.
LEMMA PathClosesCycle ==
  ASSUME SearchInv, NEW counts, NEW first \in 1 .. Len(path), Descends(path[first], counts),
         NEW c, FollowsPath(c, first)
  PROVE  /\ c \in Seq(Names) /\ c # <<>> /\ IsInjective(c)
         /\ \A i \in DOMAIN c : NeedsEdge(c[i], c[IF i < Len(c) THEN i + 1 ELSE 1])
<1>0. PICK L, n : L = Len(path) /\ n = Len(path) + 1 - first
  BY Zenon
<1>1. path \in Seq(Names) /\ looked \in Seq(Nat) /\ Len(looked) = L /\ IsInjective(path)
  BY <1>0 DEF SearchInv, PathKnows
<1>2. L \in Nat /\ DOMAIN path = 1 .. L /\ L \in 1 .. L /\ path # <<>> /\ first \in 1 .. L
  BY <1>0, <1>1
<1>3. n \in Nat /\ n >= 1 /\ first + n = L + 1
  BY <1>0, <1>2
<1>4. c = [i \in 1 .. n |-> path[first + i - 1]]
  BY <1>0, <1>1, <1>2 DEF FollowsPath
<1>5. ASSUME NEW i \in 1 .. n
      PROVE  first + i - 1 \in 1 .. L /\ c[i] = path[first + i - 1] /\ c[i] \in Names
  <2>1. first + i - 1 \in 1 .. L
    BY <1>2, <1>3
  <2>2. c[i] = path[first + i - 1]
    BY <1>4, Zenon
  <2> QED BY <1>1, <1>2, <2>1, <2>2
<1>a. c \in [1 .. n -> Names]
  BY <1>4, <1>5, Zenon
<1>b. c \in Seq(Names) /\ Len(c) = n /\ c # <<>> /\ DOMAIN c = 1 .. n
  BY <1>3, <1>a
<1>6. IsInjective(c)
  <2>1. \A i, k \in 1 .. L : path[i] = path[k] => i = k
    BY <1>1, <1>2 DEF IsInjective
  <2>2. \A i, k \in 1 .. n : c[i] = c[k] => i = k
    BY <1>2, <1>3, <1>5, <2>1
  <2> QED BY <1>b, <2>2 DEF IsInjective
<1>7. ASSUME NEW i \in 1 .. n, i < n PROVE NeedsEdge(c[i], c[i + 1])
  <2>1. PICK k \in 1 .. L : k = first + i - 1
    BY <1>5, Zenon
  <2>2. k < L /\ c[i] = path[k] /\ c[i + 1] = path[k + 1]
    BY <1>2, <1>3, <1>5, <1>7, <2>1
  <2>3. PICK needs : needs = Neighbours(path[k])
    BY Zenon
  <2>4. FrameKnows(k) /\ looked[k] \in Nat
    BY <1>1, <1>2 DEF SearchInv
  <2>5. looked[k] \in 1 .. Len(needs) /\ needs[looked[k]] = path[k + 1]
    <3>1. needs \in Seq(Names)
      BY <2>3, NeighboursAreNames DEF SearchInv, FileKnows
    <3> QED BY <1>0, <2>2, <2>3, <2>4, <3>1 DEF FrameKnows
  <2>6. looked[k] \in DOMAIN needs
    BY <2>3, <2>5, NeighboursAreNames DEF SearchInv, FileKnows
  <2> QED BY <2>2, <2>3, <2>5, <2>6, Zenon DEF NeedsEdge, Range
<1>8. NeedsEdge(c[n], c[1])
  <2>1. PICK needs : needs = Neighbours(path[L])
    BY Zenon
  <2>2. c[n] = path[L] /\ c[1] = path[first]
    BY <1>2, <1>3, <1>5
  <2>3. looked[L] + 1 <= Len(needs) /\ needs[looked[L] + 1] = path[first]
    BY <1>0, <1>2, <2>1 DEF Descends
  <2>4. looked[L] \in Nat /\ needs \in Seq(Names)
    BY <1>1, <1>2, <2>1, NeighboursAreNames DEF SearchInv, FileKnows
  <2>5. looked[L] + 1 \in 1 .. Len(needs)
    BY <2>3, <2>4
  <2>6. looked[L] + 1 \in DOMAIN needs
    BY <2>4, <2>5
  <2> QED BY <2>1, <2>2, <2>3, <2>6, Zenon DEF NeedsEdge, Range
<1>9. \A i \in DOMAIN c : NeedsEdge(c[i], c[IF i < Len(c) THEN i + 1 ELSE 1])
  BY <1>3, <1>b, <1>7, <1>8
<1> QED BY <1>b, <1>6, <1>9

\* A job that only waits for jobs that are done with keeps no one waiting.
LEMMA OneMoreDone ==
  ASSUME IsPipeline(pipeline), DoneKnows, NEW t, t \notin Done,
         \A k \in DOMAIN Neighbours(t) : Neighbours(t)[k] \in Done
  PROVE  NoneWaits(Done \cup {t})
<1>1. \A j \in Done \cup {t} : \A n : NeedsEdge(j, n) => n \in Done
  BY Zenon DEF NeedsEdge, Range, DoneKnows
<1> SUFFICES ASSUME NEW W \in SUBSET (Done \cup {t}), W # {}
             PROVE  \E j \in W : \A n \in W : ~NeedsEdge(j, n)
  BY Zenon DEF NoneWaits
<1>2. CASE W \ {t} = {}
  BY <1>1, <1>2
<1>3. CASE W \ {t} # {}
  <2>1. W \ {t} \in SUBSET Done
    OBVIOUS
  <2>2. PICK j \in W \ {t} : \A n \in W \ {t} : ~NeedsEdge(j, n)
    BY <1>3, <2>1, Zenon DEF DoneKnows, NoneWaits
  <2>3. ~NeedsEdge(j, t)
    BY <1>1
  <2> QED BY <2>2, <2>3
<1> QED BY <1>2, <1>3

\* All neighbours of the top are done with: so is the top now.
LEMMA ReturnKeepsPath ==
  ASSUME SearchInv, Return
  PROVE  PathKnows' /\ (\A i \in DOMAIN path : FrameKnows(i))' /\ DoneKnows'
<1>0. PICK L, t : L = Len(path) /\ t = path[L]
  BY Zenon
<1>1. /\ path \in Seq(Names) /\ IsInjective(path) /\ looked \in Seq(Nat) /\ Len(looked) = L
      /\ visited \subseteq Names /\ recStack = Range(path) /\ recStack \subseteq visited
  BY <1>0 DEF SearchInv, PathKnows
<1>2. /\ path # <<>> /\ looked[L] = Len(Neighbours(t))
      /\ recStack' = recStack \ {t} /\ path' = SubSeq(path, 1, L - 1)
      /\ looked' = SubSeq(looked, 1, L - 1) /\ visited' = visited /\ pipeline' = pipeline
  BY <1>0, <1>1 DEF Return
<1>3. L \in Nat /\ DOMAIN path = 1 .. L /\ L \in 1 .. L
  BY <1>0, <1>1, <1>2
<1>4. /\ path' \in Seq(Names) /\ Len(path') = L - 1 /\ DOMAIN path' = 1 .. L - 1
      /\ \A i \in 1 .. L - 1 : path'[i] = path[i]
  BY <1>0, <1>1, <1>2, <1>3
<1>5. /\ looked' \in Seq(Nat) /\ Len(looked') = L - 1
      /\ \A i \in 1 .. L - 1 : looked'[i] = looked[i]
  BY <1>1, <1>2, <1>3
<1>6. t \in recStack /\ t \notin Done
  BY <1>0, <1>1, <1>3 DEF Done, Range
<1>7. Done' = Done \cup {t}
  BY <1>1, <1>2, <1>6 DEF Done
<1>8. \A i, k \in 1 .. L : path[i] = path[k] => i = k
  BY <1>1, <1>3 DEF IsInjective
<1>9. PathKnows'
  <2>1. Range(path)' = Range(path) \ {t}
    <3>1. \A i \in 1 .. L - 1 : path[i] \in Range(path) \ {t}
      BY <1>0, <1>3, <1>8 DEF Range
    <3>2. \A x \in Range(path)' : \E i \in 1 .. L - 1 : x = path[i]
      BY <1>4 DEF Range
    <3>3. \A x \in Range(path) : \E i \in 1 .. L : x = path[i]
      BY <1>3, Zenon DEF Range
    <3>4. \A i \in 1 .. L - 1 : path[i] \in Range(path)'
      BY <1>4 DEF Range
    <3>5. \A x \in Range(path) \ {t} : x \in Range(path)'
      BY <1>0, <1>3, <3>3, <3>4
    <3> QED BY <3>1, <3>2, <3>5
  <2>2. IsInjective(path')
    BY <1>3, <1>4, <1>8 DEF IsInjective
  <2>3. visited' \subseteq Names /\ recStack' \subseteq visited'
    BY <1>1, <1>2
  <2> QED BY <1>1, <1>2, <1>4, <1>5, <2>1, <2>2, <2>3, SameGraph DEF PathKnows
<1>10. ASSUME NEW i \in 1 .. L - 1 PROVE FrameKnows(i)'
  <2>1. /\ i \in DOMAIN path /\ i < L /\ path'[i] = path[i]
        /\ looked[i] \in Nat /\ looked'[i] = looked[i]
    BY <1>1, <1>3, <1>4, <1>5
  <2>2. PICK needs : needs = Neighbours(path[i])
    BY Zenon
  <2>3. /\ looked[i] <= Len(needs) /\ looked[i] > 0 /\ needs[looked[i]] = path[i + 1]
        /\ \A k \in 1 .. looked[i] : needs[k] \in Done \/ k = looked[i]
    BY <1>0, <2>1, <2>2 DEF SearchInv, FrameKnows
  <2>4. Neighbours(path[i])' = needs
    BY <1>2, <2>1, <2>2, SameGraph, Zenon
  <2>5. CASE i = L - 1
    <3>1. path[i + 1] = t
      BY <1>0, <1>3, <2>5
    <3>2. \A k \in 1 .. looked[i] : needs[k] \in Done'
      BY <1>7, <2>3, <3>1
    <3> QED BY <1>3, <1>4, <2>1, <2>3, <2>4, <2>5, <3>2 DEF FrameKnows
  <2>6. CASE i # L - 1
    <3>1. i < Len(path') /\ path'[i + 1] = path[i + 1]
      BY <1>3, <1>4, <2>6
    <3>2. \A k \in 1 .. looked[i] : needs[k] \in Done' \/ k = looked[i]
      BY <1>7, <2>3
    <3> QED BY <2>1, <2>3, <2>4, <3>1, <3>2 DEF FrameKnows
  <2> QED BY <2>5, <2>6
<1>11. (\A i \in DOMAIN path : FrameKnows(i))'
  BY <1>4, <1>10
<1>12. \A k \in DOMAIN Neighbours(t) : Neighbours(t)[k] \in Done
  <2>1. Neighbours(t) \in Seq(Names)
    BY NeighboursAreNames DEF SearchInv, FileKnows
  <2>2. FrameKnows(L)
    BY <1>3 DEF SearchInv
  <2> QED BY <1>0, <1>2, <1>3, <2>1, <2>2 DEF FrameKnows
<1>13. NoneWaits(Done \cup {t})
  BY <1>6, <1>12, OneMoreDone, Zenon DEF SearchInv, FileKnows
<1>14. \A j \in Done' : \A k \in DOMAIN Neighbours(j)' : Neighbours(j)'[k] \in Done'
  BY <1>2, <1>7, <1>12, SameGraph DEF SearchInv, DoneKnows
<1>15. NoneWaits(Done)'
  BY <1>2, <1>7, <1>13, SameGraph DEF NoneWaits
<1> QED BY <1>9, <1>11, <1>14, <1>15 DEF DoneKnows

-----------------------------------------------------------------------------
\* The strengthening holds initially.
LEMMA InitSearchInv == Init => SearchInv
<1> SUFFICES ASSUME Init PROVE SearchInv
  OBVIOUS
<1>1. IsPipeline(NoPipeline)
  BY DEF IsPipeline, IsList, NoPipeline, Range
<1>2. FileKnows
  BY <1>1 DEF Init, FileKnows, Verdicts
<1>3. PathKnows /\ \A i \in DOMAIN path : FrameKnows(i)
  BY DEF Init, PathKnows, Range, IsInjective
<1>4. DoneKnows
  BY DEF Init, DoneKnows, Done, NoneWaits
<1>5. CycleKnows
  BY DEF Init, CycleKnows, IsInjective
<1> QED BY <1>2, <1>3, <1>4, <1>5 DEF SearchInv

\* Every step keeps it.
LEMMA NextSearchInv == SearchInv /\ [Next]_vars => SearchInv'
<1> SUFFICES ASSUME SearchInv, [Next]_vars PROVE SearchInv'
  OBVIOUS
<1>1. CASE Parse
  <2>1. /\ pc = "parse" /\ visited = {} /\ path = <<>> /\ looked = <<>> /\ recStack = {} /\ cycle = <<>>
        /\ doc \in Documents
    BY <1>1 DEF Parse, SearchInv, FileKnows, PathKnows, CycleKnows, Range
  <2>2. UNCHANGED <<doc, visited, recStack, path, looked, cycle>>
    BY <1>1 DEF Parse, cycleVars
  <2>3. /\ pipeline' \in {NoPipeline, BuildPipeline(doc)} /\ IsPipeline(pipeline')
        /\ pc' \in {"rejected", "verify"} /\ (pc' = "verify" => errors' = {})
        /\ \A e \in errors' : e.kind # "cycle"
    <3>1. CASE ParseFails(doc)
      <4>1. pc' = "rejected" /\ errors' = {Shape("parse")} /\ pipeline' = pipeline
        BY <1>1, <3>1 DEF Parse
      <4>2. Shape("parse").kind # "cycle"
        BY Zenon DEF Shape, FormatError
      <4> QED BY <4>1, <4>2 DEF SearchInv, FileKnows
    <3>2. CASE ~ParseFails(doc)
      <4>1. pc' = "verify" /\ errors' = {} /\ pipeline' = BuildPipeline(doc)
        BY <1>1, <2>1, <3>2 DEF Parse, SearchInv, FileKnows
      <4>2. IsDocument(doc)
        BY <2>1, DocumentsAssumption, Zenon
      <4>3. IsPipeline(BuildPipeline(doc))
        BY <4>2, ParserMakesPipeline, Zenon
      <4> QED BY <4>1, <4>3
    <3> QED BY <3>1, <3>2
  <2>4. FileKnows'
    BY <2>1, <2>2, <2>3 DEF FileKnows, Verdicts
  <2>5. PathKnows' /\ (\A i \in DOMAIN path : FrameKnows(i))'
    BY <2>1, <2>2 DEF PathKnows, Range, IsInjective
  <2>6. DoneKnows'
    BY <2>1, <2>2 DEF DoneKnows, Done, NoneWaits
  <2>7. CycleKnows'
    BY <2>1, <2>2, <2>3 DEF CycleKnows, IsInjective
  <2> QED BY <2>4, <2>5, <2>6, <2>7 DEF SearchInv
<1>2. CASE Verify
  <2>1. UNCHANGED <<doc, pipeline, visited, recStack, path, looked, cycle>>
    BY <1>2 DEF Verify, cycleVars
  <2>2. /\ pc = "verify"
        /\ \/ pc' = "rejected" /\ errors' = CheckYAMLTypes(doc)
           \/ pc' = "cycles" /\ errors' = StaticErrors(doc, pipeline)
    BY <1>2 DEF Verify
  <2>3. \A e \in errors' : e.kind # "cycle"
    BY <2>2, StaticErrorsAreNoCycles DEF StaticErrors
  <2>4. FileKnows'
    BY <2>1, <2>2 DEF SearchInv, FileKnows, Verdicts
  <2>5. CycleKnows'
    BY <2>1, <2>2, <2>3, SameCycle DEF SearchInv, CycleKnows
  <2> QED BY <2>1, <2>4, <2>5, SamePath DEF SearchInv
<1>3. CASE StartSearch
  <2>1. /\ pc = "cycles" /\ path = <<>>
        /\ UNCHANGED <<doc, pc, pipeline, errors, cycle>>
    BY <1>3 DEF StartSearch
  <2>2. PICK job \in JobNames(pipeline) \ visited : Enter(job, <<>>)
    BY <1>3 DEF StartSearch
  <2>a. Descends(job, <<>>)
    BY <2>1 DEF Descends
  <2>3. job \in Names
    BY DEF Names
  <2>4. PathKnows' /\ (\A i \in DOMAIN path : FrameKnows(i))' /\ DoneKnows'
    BY <2>1, <2>2, <2>a, <2>3, EnterKeepsPath
  <2>5. FileKnows'
    BY <2>1 DEF SearchInv, FileKnows
  <2>6. CycleKnows'
    BY <2>1, SameCycle DEF SearchInv, CycleKnows
  <2> QED BY <2>4, <2>5, <2>6 DEF SearchInv
<1>4. CASE NextNeighbour
  <2>1. /\ pc = "cycles" /\ path # <<>> /\ looked[Len(looked)] < Len(Neighbours(path[Len(path)]))
        /\ UNCHANGED <<doc, pipeline, errors>>
    BY <1>4 DEF NextNeighbour
  <2>2. PICK counts, job :
          /\ counts = [looked EXCEPT ![Len(path)] = @ + 1]
          /\ job = Neighbours(path[Len(path)])[looked[Len(looked)] + 1]
    BY Zenon
  <2>3. Descends(job, counts) /\ job \in Names
    <3>1. path \in Seq(Names) /\ looked \in Seq(Nat) /\ Len(looked) = Len(path)
      BY DEF SearchInv, PathKnows
    <3>2. Neighbours(path[Len(path)]) \in Seq(Names)
      BY NeighboursAreNames DEF SearchInv, FileKnows
    <3>3. Len(path) \in 1 .. Len(path) /\ DOMAIN path = 1 .. Len(path) /\ DOMAIN looked = 1 .. Len(path)
      BY <2>1, <3>1
    <3>4. looked[Len(path)] \in Nat /\ looked[Len(path)] + 1 <= Len(Neighbours(path[Len(path)]))
      BY <2>1, <3>1, <3>2, <3>3
    <3>5. job = Neighbours(path[Len(path)])[looked[Len(path)] + 1] /\ job \in Names
      BY <2>2, <3>1, <3>2, <3>4
    <3>6. /\ counts \in Seq(Nat) /\ Len(counts) = Len(path)
          /\ counts[Len(path)] = looked[Len(path)] + 1
          /\ \A i \in DOMAIN path : i < Len(path) => counts[i] = looked[i]
      BY <2>2, <3>1, <3>3, <3>4
    <3> QED BY <3>4, <3>5, <3>6 DEF Descends
  <2>4. CASE job \notin visited
    <3>1. Enter(job, counts) /\ UNCHANGED <<pc, cycle>>
      BY <1>4, <2>2, <2>4, Zenon DEF NextNeighbour
    <3>2. PathKnows' /\ (\A i \in DOMAIN path : FrameKnows(i))' /\ DoneKnows'
      BY <2>1, <2>3, <2>4, <3>1, EnterKeepsPath
    <3>3. FileKnows'
      BY <2>1, <3>1 DEF SearchInv, FileKnows
    <3>4. CycleKnows'
      BY <2>1, <3>1, SameCycle DEF SearchInv, CycleKnows
    <3> QED BY <3>2, <3>3, <3>4 DEF SearchInv
  <2>5. CASE job \in visited /\ job \in recStack
    <3>1. PICK first : first = CycleStart(job)
      BY Zenon
    <3>2. FollowsPath(cycle', first) /\ pc' = "found" /\ UNCHANGED <<visited, recStack, path, looked>>
      BY <1>4, <2>2, <2>5, <3>1, Zenon DEF NextNeighbour, FollowsPath
    <3>3. first \in 1 .. Len(path) /\ path[first] = job
      BY <2>5, <3>1, FirstOnPath, Zenon DEF SearchInv
    <3>4. /\ cycle' \in Seq(Names) /\ cycle' # <<>> /\ IsInjective(cycle')
          /\ \A i \in DOMAIN cycle' :
               NeedsEdge(cycle'[i], cycle'[IF i < Len(cycle') THEN i + 1 ELSE 1])
      BY <2>3, <3>2, <3>3, PathClosesCycle, Zenon
    <3>5. FileKnows'
      BY <2>1, <3>2 DEF SearchInv, FileKnows
    <3>6. CycleKnows'
      BY <2>1, <3>2, <3>4, SameGraph DEF CycleKnows
    <3> QED BY <2>1, <3>2, <3>5, <3>6, SamePath DEF SearchInv
  <2>6. CASE job \in visited \ recStack
    <3>1. looked' = counts /\ UNCHANGED <<pc, cycle, visited, recStack, path>>
      BY <1>4, <2>2, <2>6, Zenon DEF NextNeighbour
    <3>2. PathKnows' /\ (\A i \in DOMAIN path : FrameKnows(i))' /\ DoneKnows'
      BY <2>1, <2>3, <2>6, <3>1, PassKeepsPath
    <3>3. FileKnows'
      BY <2>1, <3>1 DEF SearchInv, FileKnows
    <3>4. CycleKnows'
      BY <2>1, <3>1, SameCycle DEF SearchInv, CycleKnows
    <3> QED BY <3>2, <3>3, <3>4 DEF SearchInv
  <2> QED BY <2>4, <2>5, <2>6
<1>5. CASE Return
  <2>1. pc = "cycles" /\ UNCHANGED <<doc, pc, pipeline, errors, cycle>>
    BY <1>5 DEF Return
  <2>2. FileKnows'
    BY <2>1 DEF SearchInv, FileKnows
  <2>3. CycleKnows'
    BY <2>1, SameCycle DEF SearchInv, CycleKnows
  <2> QED BY <1>5, <2>2, <2>3, ReturnKeepsPath DEF SearchInv
<1>6. CASE ReportCycle
  <2>1. pc = "found" /\ pc' = "rejected" /\ UNCHANGED <<doc, pipeline, visited, recStack, path, looked, cycle>>
    BY <1>6 DEF ReportCycle, cycleVars
  <2>2. FileKnows'
    BY <2>1 DEF SearchInv, FileKnows, Verdicts
  <2>3. CycleKnows'
    BY <2>1, SameCycle DEF SearchInv, CycleKnows
  <2> QED BY <2>1, <2>2, <2>3, SamePath DEF SearchInv
<1>7. CASE EndSearch
  <2>1. /\ pc = "cycles" /\ path = <<>> /\ JobNames(pipeline) \subseteq visited
        /\ pc' = IF errors = {} THEN "stage" ELSE "rejected"
        /\ UNCHANGED <<doc, pipeline, errors, visited, recStack, path, looked, cycle>>
    BY <1>7 DEF EndSearch, cycleVars
  <2>2. recStack = {} /\ JobNames(pipeline) \subseteq Done
    BY <2>1 DEF SearchInv, PathKnows, Done, Range
  <2>3. Done' = Done /\ JobNames(pipeline)' = JobNames(pipeline)
    BY <2>1 DEF Done
  <2>4. FileKnows'
    BY <2>1, <2>2, <2>3 DEF SearchInv, FileKnows, Verdicts
  <2>5. CycleKnows'
    BY <2>1, SameCycle DEF SearchInv, CycleKnows
  <2> QED BY <2>1, <2>4, <2>5, SamePath DEF SearchInv
<1>8. CASE PlanStage \/ ScheduleNext \/ StageDone \/ Answered \/ UNCHANGED vars
  <2>1. UNCHANGED <<doc, pipeline, errors, visited, recStack, path, looked, cycle>>
    BY <1>8 DEF PlanStage, ScheduleNext, StageDone, Answered, vars, cycleVars
  <2>2. pc' = pc \/ (pc \in {"stage", "schedule"} /\ pc' \in {"stage", "schedule", "planned"})
    BY <1>8 DEF PlanStage, ScheduleNext, StageDone, Answered, vars
  <2>3. Done' = Done /\ JobNames(pipeline)' = JobNames(pipeline)
    BY <2>1 DEF Done
  <2>4. FileKnows'
    BY <2>1, <2>2, <2>3 DEF SearchInv, FileKnows, Verdicts
  <2>5. CycleKnows'
    BY <2>1, <2>2, SameCycle DEF SearchInv, CycleKnows
  <2> QED BY <2>1, <2>4, <2>5, SamePath DEF SearchInv
<1> QED
  BY <1>1, <1>2, <1>3, <1>4, <1>5, <1>6, <1>7, <1>8, Zenon DEF Next, Step

\* What the search knows always holds.
LEMMA SearchInvariant == Spec => []SearchInv
  BY InitSearchInv, NextSearchInv, PTL DEF Spec

\* checkNoCycles lets no pipeline through whose jobs wait for each other, and what it
\* prints as a cycle is one, for pipelines of any size and any order of the maps.
THEOREM CyclesAreAlwaysFound == Spec => []CyclesAreFound
<1>1. SearchInv => CyclesAreFound
  <2> SUFFICES ASSUME SearchInv PROVE CyclesAreFound
    OBVIOUS
  <2>1. ASSUME pc \in {"stage", "schedule", "planned"} PROVE ~SomeJobsWaitForEachOther
    <3>1. JobNames(pipeline) \subseteq Done /\ NoneWaits(Done)
      BY <2>1 DEF SearchInv, FileKnows, DoneKnows
    <3> QED BY <3>1, Zenon DEF SomeJobsWaitForEachOther, NoneWaits
  <2> QED BY <2>1 DEF SearchInv, CycleKnows, CyclesAreFound
<1> QED BY <1>1, SearchInvariant, PTL

-----------------------------------------------------------------------------
(* The plan.                                                                *)

\* The places among the needs of a job where a job outside the set stands.
Waits(j, S) == {i \in DOMAIN Neighbours(j) : Neighbours(j)[i] \notin S}

\* Every job comes after the jobs it needs.
InOrder(jobs) ==
  \A i \in DOMAIN jobs : \A n \in Range(Neighbours(jobs[i])) : \E k \in 1 .. i - 1 : jobs[k] = n

Planned(jobs, stage) ==
  Range(jobs) = JobsForStage(stage) /\ IsInjective(jobs) /\ InOrder(jobs)

\* inDegree counts the needs that are not in the result; the queue holds the jobs
\* without any that are not in the result themselves.
ScheduleKnows ==
  /\ Len(plan) < Len(pipeline.stages)
  /\ queue \in Seq(CurrentJobs) /\ IsInjective(queue)
  /\ result \in Seq(CurrentJobs) /\ IsInjective(result) /\ InOrder(result)
  /\ Range(queue) \cap Range(result) = {}
  /\ DOMAIN inDegree = CurrentJobs
  /\ \A j \in CurrentJobs :
       /\ inDegree[j] = Cardinality(Waits(j, Range(result)))
       /\ inDegree[j] = 0 <=> j \in Range(queue) \cup Range(result)

PlanKnows ==
  /\ plan \in Seq(Seq(JobNames(pipeline))) /\ Len(plan) <= Len(pipeline.stages)
  /\ \A s \in DOMAIN plan : Planned(plan[s], pipeline.stages[s])
  /\ pc = "planned" => Len(plan) = Len(pipeline.stages)
  /\ pc \notin {"stage", "schedule", "planned"} =>
       plan = <<>> /\ queue = <<>> /\ result = <<>> /\ inDegree = <<>>

CountsKnow ==
  /\ queue \in Seq(JobNames(pipeline)) /\ result \in Seq(JobNames(pipeline))
  /\ DOMAIN inDegree \subseteq JobNames(pipeline) /\ \A j \in DOMAIN inDegree : inDegree[j] \in Nat

PlanInv == PlanKnows /\ CountsKnow /\ (pc = "schedule" => ScheduleKnows)

-----------------------------------------------------------------------------
\* A pipeline that passes the checks has one job of each name, and needs are jobs of
\* the same stage.
LEMMA CheckedPipeline ==
  ASSUME IsPipeline(pipeline), StaticErrors(doc, pipeline) = {}
  PROVE  /\ \A i, k \in DOMAIN pipeline.jobs : pipeline.jobs[i].name = pipeline.jobs[k].name => i = k
         /\ \A i \in DOMAIN pipeline.jobs : \A n \in Range(pipeline.jobs[i].needs) :
              n \in JobNames(pipeline) /\ LastNamed(pipeline, n).stage = pipeline.jobs[i].stage
<1>1. /\ CheckUniqueJobNames(doc, pipeline) = {} /\ CheckNeedsReferences(doc, pipeline) = {}
      /\ CheckNeedsStageConsistency(doc, pipeline) = {}
  BY Zenon DEF StaticErrors
<1>2. \A i \in DOMAIN pipeline.jobs : \A j \in 1 .. i - 1 :
        pipeline.jobs[j].name # pipeline.jobs[i].name
  BY <1>1, Zenon DEF CheckUniqueJobNames
<1>3. \A i, k \in DOMAIN pipeline.jobs : pipeline.jobs[i].name = pipeline.jobs[k].name => i = k
  <2>1. Len(pipeline.jobs) \in Nat /\ DOMAIN pipeline.jobs = 1 .. Len(pipeline.jobs)
    BY DEF IsPipeline, IsList
  <2> QED BY <1>2, <2>1
<1>4. \A i \in DOMAIN pipeline.jobs : Range(pipeline.jobs[i].needs) \subseteq JobNames(pipeline)
  BY <1>1, Zenon DEF CheckNeedsReferences, NeedsErrors
<1>5. \A i \in DOMAIN pipeline.jobs : \A n \in Range(pipeline.jobs[i].needs) \cap JobNames(pipeline) :
        LastNamed(pipeline, n).stage = pipeline.jobs[i].stage
  BY <1>1, Zenon DEF CheckNeedsStageConsistency, NeedsErrors
<1> QED BY <1>3, <1>4, <1>5, Zenon

\* So the needs of the jobs of a stage stay in the stage.
LEMMA StageIsClosed ==
  ASSUME IsPipeline(pipeline), StaticErrors(doc, pipeline) = {}, NEW stage, NEW j \in JobsForStage(stage)
  PROVE  /\ j \in JobNames(pipeline)
         /\ Neighbours(j) = LastNamed(pipeline, j).needs
         /\ Neighbours(j) \in Seq(JobsForStage(stage))
<1>1. PICK i \in DOMAIN pipeline.jobs : pipeline.jobs[i].stage = stage /\ pipeline.jobs[i].name = j
  BY Zenon DEF JobsForStage
<1>2. j \in JobNames(pipeline)
  BY <1>1, Zenon DEF JobNames
<1>3. LastIndex(pipeline, j) = i
  BY <1>1, <1>2, LastIndexHasName, CheckedPipeline, Zenon DEF IsPipeline
<1>4. Neighbours(j) = LastNamed(pipeline, j).needs /\ Neighbours(j) = pipeline.jobs[i].needs
  BY <1>2, <1>3, Zenon DEF Neighbours, LastNamed
<1>5. ASSUME NEW n \in Range(pipeline.jobs[i].needs) PROVE n \in JobsForStage(stage)
  <2>1. n \in JobNames(pipeline) /\ LastNamed(pipeline, n).stage = stage
    BY <1>1, CheckedPipeline, Zenon
  <2>2. LastIndex(pipeline, n) \in DOMAIN pipeline.jobs
        /\ pipeline.jobs[LastIndex(pipeline, n)].name = n
    BY <2>1, LastIndexHasName, Zenon DEF IsPipeline
  <2> QED BY <2>1, <2>2, Zenon DEF JobsForStage, LastNamed
<1>6. pipeline.jobs[i].needs \in Seq(Range(pipeline.jobs[i].needs))
  BY Zenon DEF IsPipeline, IsList
<1>7. pipeline.jobs[i].needs \in Seq(JobsForStage(stage))
  BY <1>5, <1>6
<1> QED BY <1>2, <1>4, <1>7

\* The jobs of a stage are finitely many.
LEMMA StageIsFinite ==
  ASSUME IsPipeline(pipeline), NEW stage
  PROVE  IsFiniteSet(JobsForStage(stage))
<1> DEFINE D == {i \in DOMAIN pipeline.jobs : pipeline.jobs[i].stage = stage}
           f == [i \in D |-> pipeline.jobs[i].name]
<1>1. Len(pipeline.jobs) \in Nat /\ DOMAIN pipeline.jobs = 1 .. Len(pipeline.jobs)
  BY DEF IsPipeline, IsList
<1>2. IsFiniteSet(1 .. Len(pipeline.jobs))
  <2>1. 1 \in Int /\ Len(pipeline.jobs) \in Int
    BY <1>1
  <2> QED BY <2>1, FS_Interval, Zenon
<1>3. IsFiniteSet(D)
  BY <1>1, <1>2, FS_Subset
<1>4. f \in Surjection(D, JobsForStage(stage))
  BY Zenon DEF JobsForStage, Surjection
<1> QED BY <1>3, <1>4, FS_Surjection

\* A job that gets into the result is needed as often less as it is listed.
LEMMA WaitsLess ==
  ASSUME NEW j, NEW S, NEW name, name \notin S, NEW T, Neighbours(j) \in Seq(T)
  PROVE  LET times == Cardinality({i \in DOMAIN Neighbours(j) : Neighbours(j)[i] = name})
         IN  /\ times \in Nat
             /\ Cardinality(Waits(j, S)) \in Nat /\ Cardinality(Waits(j, S \cup {name})) \in Nat
             /\ Cardinality(Waits(j, S \cup {name})) = Cardinality(Waits(j, S)) - times
             /\ Cardinality(Waits(j, S)) = 0 <=> Waits(j, S) = {}
<1> DEFINE D == DOMAIN Neighbours(j)
           A == Waits(j, S)
           B == Waits(j, S \cup {name})
           O == {i \in D : Neighbours(j)[i] = name}
<1>1. IsFiniteSet(D)
  BY FS_Interval
<1>2. A \in SUBSET D /\ B \in SUBSET D /\ O \in SUBSET D
  BY DEF Waits
<1>3. IsFiniteSet(A) /\ IsFiniteSet(B) /\ IsFiniteSet(O)
  BY Zenon, <1>1, <1>2, FS_Subset
<1>4. Cardinality(A) \in Nat /\ Cardinality(B) \in Nat /\ Cardinality(O) \in Nat
  BY <1>3, FS_CardinalityType
<1>5. A = B \cup O /\ B \cap O = {}
  BY DEF Waits
<1>6. Cardinality(A) = Cardinality(B) + Cardinality(O) - Cardinality(B \cap O)
  BY Zenon, <1>3, <1>5, FS_Union
<1>7. Cardinality(B \cap O) = 0 /\ (Cardinality(A) = 0 <=> A = {})
  BY Zenon, <1>3, <1>5, FS_EmptySet
<1>8. Cardinality(B) = Cardinality(A) - Cardinality(O)
  BY <1>4, <1>6, <1>7
<1> HIDE DEF A, B, O
<1> QED BY <1>4, <1>7, <1>8 DEF A, B, O

\* Stages and their order depend on the pipeline only.
LEMMA SameStages ==
  ASSUME pipeline' = pipeline
  PROVE  /\ JobNames(pipeline)' = JobNames(pipeline)
         /\ \A stage : JobsForStage(stage)' = JobsForStage(stage)
         /\ \A j, S : Waits(j, S)' = Waits(j, S)
         /\ \A jobs : InOrder(jobs)' = InOrder(jobs)
         /\ \A jobs, stage : Planned(jobs, stage)' = Planned(jobs, stage)
<1>1. \A j : Neighbours(j)' = Neighbours(j)
  BY SameGraph
<1>2. JobNames(pipeline)' = JobNames(pipeline) /\ \A stage : JobsForStage(stage)' = JobsForStage(stage)
  BY DEF JobsForStage
<1>3. \A j, S : Waits(j, S)' = Waits(j, S)
  BY <1>1 DEF Waits
<1>4. \A jobs : InOrder(jobs)' = InOrder(jobs)
  BY <1>1 DEF InOrder
<1>5. \A jobs, stage : Planned(jobs, stage)' = Planned(jobs, stage)
  BY <1>2, <1>4 DEF Planned
<1> QED BY <1>2, <1>3, <1>4, <1>5

\* What is known in the middle of a stage.
LEMMA StageFacts ==
  ASSUME SearchInv, pc \in {"stage", "schedule"}
  PROVE  /\ IsPipeline(pipeline) /\ IsFiniteSet(CurrentJobs)
         /\ CurrentJobs \subseteq JobNames(pipeline)
         /\ \A j \in CurrentJobs : /\ Neighbours(j) = LastNamed(pipeline, j).needs
                                   /\ Neighbours(j) \in Seq(CurrentJobs)
         /\ NoneWaits(CurrentJobs)
<1>1. IsPipeline(pipeline) /\ StaticErrors(doc, pipeline) = {} /\ JobNames(pipeline) \subseteq Done
  BY DEF SearchInv, FileKnows
<1>2. PICK stage : CurrentJobs = JobsForStage(stage)
  BY Zenon DEF CurrentJobs
<1>3. IsFiniteSet(CurrentJobs)
  BY <1>1, <1>2, StageIsFinite
<1>4. \A j \in CurrentJobs : /\ j \in JobNames(pipeline)
                             /\ Neighbours(j) = LastNamed(pipeline, j).needs
                             /\ Neighbours(j) \in Seq(CurrentJobs)
  BY <1>1, <1>2, StageIsClosed, Zenon
<1>5. NoneWaits(CurrentJobs)
  BY <1>1, <1>4, Zenon DEF SearchInv, DoneKnows, NoneWaits
<1> QED BY <1>1, <1>3, <1>4, <1>5, Zenon

\* A stage starts with the jobs that need nothing.
LEMMA PlanStageKnows ==
  ASSUME SearchInv, PlanInv, PlanStage
  PROVE  PlanInv'
<1>0. PICK C : C = CurrentJobs
  BY Zenon
<1>1. /\ pc = "stage" /\ pc' = "schedule" /\ pipeline' = pipeline /\ plan' = plan
      /\ Len(plan) < Len(pipeline.stages) /\ result' = <<>>
      /\ inDegree' = [j \in C |-> StartingDegree(j)]
      /\ queue' \in Orders({j \in C : StartingDegree(j) = 0})
  BY <1>0 DEF PlanStage
<1>2. /\ IsFiniteSet(C) /\ C \subseteq JobNames(pipeline)
      /\ \A j \in C : Neighbours(j) = LastNamed(pipeline, j).needs /\ Neighbours(j) \in Seq(C)
  BY <1>0, <1>1, StageFacts
<1>3. C = CurrentJobs'
  BY <1>0, <1>1 DEF CurrentJobs, JobsForStage
<1>4. ASSUME NEW j \in C
      PROVE  /\ StartingDegree(j) \in Nat
             /\ StartingDegree(j) = Cardinality(Waits(j, {}))
  <2>1. StartingDegree(j) = Len(Neighbours(j))
    BY <1>2 DEF StartingDegree
  <2>2. Waits(j, {}) = 1 .. Len(Neighbours(j)) /\ Len(Neighbours(j)) \in Nat
    BY <1>2 DEF Waits
  <2>3. Cardinality(1 .. Len(Neighbours(j))) = Len(Neighbours(j))
    BY <2>2, FS_Interval
  <2> QED BY <2>1, <2>2, <2>3
<1>5. PICK Z : Z = {j \in C : StartingDegree(j) = 0}
  BY Zenon
<1>6. IsFiniteSet(Z) /\ Z \subseteq C
  BY <1>2, <1>5, FS_Subset
<1>7. queue' \in Seq(Z) /\ IsInjective(queue') /\ Range(queue') = Z
  BY <1>1, <1>5, <1>6, OrderIsList
<1>8. queue' \in Seq(C)
  BY <1>6, <1>7
<1>9. /\ result' \in Seq(C) /\ IsInjective(result') /\ Range(result') = {}
  BY <1>1 DEF IsInjective, Range
<1>10. InOrder(result)'
  BY <1>1 DEF InOrder
<1>11. DOMAIN inDegree' = C /\ \A j \in C : inDegree'[j] = StartingDegree(j)
  BY <1>1
<1>12. \A j \in C : /\ inDegree'[j] = Cardinality(Waits(j, {}))
                    /\ inDegree'[j] = 0 <=> j \in Range(queue') \cup Range(result')
  BY <1>4, <1>5, <1>7, <1>9, <1>11
<1>13. \A j \in C : /\ inDegree'[j] = Cardinality(Waits(j, Range(result)))'
                    /\ inDegree'[j] = 0 <=> j \in Range(queue') \cup Range(result')
  <2>1. \A j : Waits(j, Range(result))' = Waits(j, {})
    BY <1>1, <1>9, SameStages, Zenon
  <2> QED BY <1>12, <2>1
<1>14. ScheduleKnows'
  BY <1>1, <1>3, <1>7, <1>8, <1>9, <1>10, <1>11, <1>13 DEF ScheduleKnows
<1>15. CountsKnow'
  BY <1>1, <1>2, <1>4, <1>8, <1>9, <1>11, SameStages DEF CountsKnow
<1>16. PlanKnows'
  BY <1>1, SameStages DEF PlanInv, PlanKnows
<1> QED BY <1>1, <1>14, <1>15, <1>16 DEF PlanInv

\* The front of a queue moves to the end of a result, and new jobs enter the queue.
LEMMA QueueMoves ==
  ASSUME NEW C, NEW q \in Seq(C), q # <<>>, IsInjective(q),
         NEW r \in Seq(C), IsInjective(r), Range(q) \cap Range(r) = {},
         NEW new \in Seq(C), IsInjective(new), Range(new) \cap (Range(q) \cup Range(r)) = {}
  PROVE  LET q2 == Tail(q) \o new
             r2 == Append(r, Head(q))
         IN  /\ q2 \in Seq(C) /\ IsInjective(q2) /\ r2 \in Seq(C) /\ IsInjective(r2)
             /\ Range(q2) \cap Range(r2) = {}
             /\ Range(q2) \cup Range(r2) = Range(q) \cup Range(r) \cup Range(new)
             /\ Range(r2) = Range(r) \cup {Head(q)} /\ Head(q) \in Range(q) /\ Head(q) \in C
<1>0. PICK q2, r2, h : q2 = Tail(q) \o new /\ r2 = Append(r, Head(q)) /\ h = Head(q)
  BY Zenon
<1>1. PICK m, n, l : m = Len(q) - 1 /\ n = Len(new) /\ l = Len(r)
  BY Zenon
<1>2. m \in Nat /\ n \in Nat /\ l \in Nat /\ Len(q) = m + 1 /\ h = q[1] /\ h \in C
  BY <1>0, <1>1
<1>3. /\ q2 \in Seq(C) /\ Len(q2) = m + n
      /\ \A i \in 1 .. m : q2[i] = q[i + 1]
      /\ \A i \in 1 .. n : q2[m + i] = new[i]
  BY <1>0, <1>1, <1>2
<1>4. /\ r2 \in Seq(C) /\ Len(r2) = l + 1 /\ r2[l + 1] = h
      /\ \A i \in 1 .. l : r2[i] = r[i]
  BY <1>0, <1>1, <1>2
<1>5. ASSUME NEW x
      PROVE  /\ x \in Range(q) <=> x = h \/ \E i \in 1 .. m : x = q2[i]
             /\ x \in Range(new) <=> \E i \in 1 .. n : x = q2[m + i]
             /\ x \in Range(r) <=> \E i \in 1 .. l : x = r2[i]
  <2>1. x \in Range(q) <=> \E i \in 1 .. m + 1 : x = q[i]
    BY <1>2 DEF Range
  <2>2. ASSUME NEW i \in 1 .. m + 1, x = q[i], x # h PROVE \E k \in 1 .. m : x = q[k + 1]
    <3>1. i - 1 \in 1 .. m /\ x = q[(i - 1) + 1]
      BY <1>2, <2>2
    <3> QED BY <3>1
  <2>3. 1 \in 1 .. m + 1 /\ h = q[1] /\ \A i \in 1 .. m : i + 1 \in 1 .. m + 1
    BY <1>2
  <2>4. x \in Range(q) <=> x = h \/ \E i \in 1 .. m : x = q[i + 1]
    BY <2>1, <2>2, <2>3, Zenon
  <2>5. x \in Range(new) <=> \E i \in 1 .. n : x = new[i]
    BY <1>1 DEF Range
  <2>6. x \in Range(r) <=> \E i \in 1 .. l : x = r[i]
    BY <1>1 DEF Range
  <2>7. (\E i \in 1 .. m : x = q[i + 1]) <=> (\E i \in 1 .. m : x = q2[i])
    BY <1>3, Zenon
  <2>8. (\E i \in 1 .. n : x = new[i]) <=> (\E i \in 1 .. n : x = q2[m + i])
    BY <1>3, Zenon
  <2>9. (\E i \in 1 .. l : x = r[i]) <=> (\E i \in 1 .. l : x = r2[i])
    BY <1>4, Zenon
  <2> QED BY <2>4, <2>5, <2>6, <2>7, <2>8, <2>9, Zenon
<1>6. \A x : x \in Range(q2) <=> x \in Range(new) \/ \E i \in 1 .. m : x = q2[i]
  <2>1. \A x : x \in Range(q2) <=> \E i \in 1 .. m + n : x = q2[i]
    BY <1>3 DEF Range
  <2>2. \A i \in 1 .. m + n : i \in 1 .. m \/ (i - m \in 1 .. n /\ q2[i] = q2[m + (i - m)])
    BY <1>2
  <2>3. \A i \in 1 .. n : m + i \in 1 .. m + n
    BY <1>2
  <2>4. \A i \in 1 .. m : i \in 1 .. m + n
    BY <1>2
  <2>5. ASSUME NEW x, x \in Range(q2) PROVE x \in Range(new) \/ \E i \in 1 .. m : x = q2[i]
    BY <1>5, <2>1, <2>2, <2>5
  <2>6. ASSUME NEW x, x \in Range(new) PROVE x \in Range(q2)
    BY <1>5, <2>1, <2>3, <2>6, Zenon
  <2>7. \A i \in 1 .. m : q2[i] \in Range(q2)
    BY <2>1, <2>4, Zenon
  <2> QED BY <2>5, <2>6, <2>7, Zenon
<1>7. \A x : x \in Range(r2) <=> x = h \/ x \in Range(r)
  <2>0. DOMAIN r2 = 1 .. l + 1
    BY <1>4
  <2>1. \A x : x \in Range(r2) <=> \E i \in 1 .. l + 1 : x = r2[i]
    BY <2>0, Zenon DEF Range
  <2>2. \A i \in 1 .. l + 1 : i \in 1 .. l \/ i = l + 1
    BY <1>2
  <2>3. l + 1 \in 1 .. l + 1 /\ \A i \in 1 .. l : i \in 1 .. l + 1
    BY <1>2
  <2>4. ASSUME NEW x, x \in Range(r2) PROVE x = h \/ x \in Range(r)
    BY <1>4, <1>5, <2>1, <2>2, <2>4
  <2>5. ASSUME NEW x, x \in Range(r) PROVE x \in Range(r2)
    BY <1>5, <2>1, <2>3, <2>5, Zenon
  <2>6. h \in Range(r2)
    BY <1>4, <2>1, <2>3, Zenon
  <2> QED BY <2>4, <2>5, <2>6, Zenon
<1>8. \A i \in 1 .. m : q2[i] # h
  <2>1. \A i \in 1 .. m : q[i + 1] # q[1]
    BY <1>2 DEF IsInjective
  <2> QED BY <1>2, <1>3, <2>1, Zenon
<1>9. Range(r2) = Range(r) \cup {h} /\ h \in Range(q)
  BY <1>5, <1>7, Zenon
<1>10. Range(q2) \cup Range(r2) = Range(q) \cup Range(r) \cup Range(new)
  BY <1>5, <1>6, <1>7, Zenon
<1>11. Range(q2) \cap Range(r2) = {}
  BY <1>5, <1>6, <1>7, <1>8, <1>9
<1>12. IsInjective(q2)
  <2>0. /\ \A i, k \in 1 .. m + 1 : q[i] = q[k] => i = k
        /\ \A i, k \in 1 .. n : new[i] = new[k] => i = k
    <3>1. DOMAIN q = 1 .. m + 1 /\ DOMAIN new = 1 .. n
      BY <1>1, <1>2
    <3> QED BY <3>1, Zenon DEF IsInjective
  <2>1. \A i, k \in 1 .. m : q2[i] = q2[k] => i = k
    <3>1. \A i, k \in 1 .. m : q[i + 1] = q[k + 1] => i = k
      BY <1>2, <2>0
    <3> QED BY <1>3, <3>1, Zenon
  <2>2. \A i, k \in 1 .. n : q2[m + i] = q2[m + k] => i = k
    BY <1>3, <2>0
  <2>3. \A i \in 1 .. m, k \in 1 .. n : q2[i] # q2[m + k]
    BY <1>5, Zenon
  <2>4. ASSUME NEW i \in 1 .. m + n, NEW k \in 1 .. m + n, q2[i] = q2[k] PROVE i = k
    <3>1. \A x \in 1 .. m + n : x \in 1 .. m \/ (x - m \in 1 .. n /\ x = m + (x - m))
      BY <1>2
    <3>2. CASE i \in 1 .. m /\ k \in 1 .. m
      BY <2>1, <2>4, <3>2, Zenon
    <3>3. CASE i - m \in 1 .. n /\ i = m + (i - m) /\ k - m \in 1 .. n /\ k = m + (k - m)
      BY Zenon, <1>2, <2>2, <2>4, <3>3
    <3>4. CASE i \in 1 .. m /\ k - m \in 1 .. n /\ k = m + (k - m)
      BY <2>3, <2>4, <3>4
    <3>5. CASE k \in 1 .. m /\ i - m \in 1 .. n /\ i = m + (i - m)
      BY <2>3, <2>4, <3>5
    <3> QED BY <3>1, <3>2, <3>3, <3>4, <3>5
  <2> QED BY <1>3, <2>4 DEF IsInjective
<1>13. IsInjective(r2)
  <2>1. h \notin Range(r)
    BY <1>9
  <2>2. \A i \in 1 .. l : r2[i] # h
    BY <1>5, <2>1, Zenon
  <2>3. \A i, k \in 1 .. l : r2[i] = r2[k] => i = k
    BY <1>1, <1>4 DEF IsInjective
  <2> QED BY <1>2, <1>4, <2>2, <2>3 DEF IsInjective
<1> QED BY <1>0, <1>2, <1>3, <1>4, <1>9, <1>10, <1>11, <1>12, <1>13

\* The next job of the queue is scheduled.
LEMMA ScheduleNextKnows ==
  ASSUME SearchInv, PlanInv, ScheduleNext
  PROVE  PlanInv'
<1>0. PICK C, name, R : C = CurrentJobs /\ name = Head(queue) /\ R = Range(result)
  BY Zenon
<1>1. /\ pc = "schedule" /\ pc' = "schedule" /\ pipeline' = pipeline /\ plan' = plan
      /\ queue # <<>> /\ result' = Append(result, name)
      /\ inDegree' = [j \in DOMAIN inDegree |-> inDegree[j] - Times(name, j)]
  BY <1>0 DEF ScheduleNext
<1>2. PICK ready \in Orders(BecomeReady(name)) : queue' = Tail(queue) \o ready
  BY <1>0, Zenon DEF ScheduleNext
<1>3. /\ IsFiniteSet(C) /\ C \subseteq JobNames(pipeline)
      /\ \A j \in C : Neighbours(j) = LastNamed(pipeline, j).needs /\ Neighbours(j) \in Seq(C)
  BY <1>0, <1>1, StageFacts
<1>4. /\ queue \in Seq(C) /\ IsInjective(queue)
      /\ result \in Seq(C) /\ IsInjective(result) /\ InOrder(result)
      /\ Range(queue) \cap R = {} /\ DOMAIN inDegree = C
      /\ \A j \in C : /\ inDegree[j] = Cardinality(Waits(j, R))
                      /\ inDegree[j] = 0 <=> j \in Range(queue) \cup R
      /\ Len(plan) < Len(pipeline.stages)
  BY <1>0, <1>1, Zenon DEF PlanInv, ScheduleKnows
<1>5. C = CurrentJobs'
  BY <1>0, <1>1 DEF CurrentJobs, JobsForStage
<1>6. name \in C /\ name \in Range(queue) /\ name \notin R
  <2>1. 1 \in DOMAIN queue /\ name = queue[1] /\ name \in C
    BY <1>0, <1>1, <1>4
  <2>2. name \in Range(queue)
    BY <2>1, Zenon DEF Range
  <2> QED BY <1>4, <2>1, <2>2, Zenon
<1>7. ASSUME NEW j \in C
      PROVE  /\ Times(name, j) \in Nat /\ inDegree[j] \in Nat
             /\ inDegree[j] - Times(name, j) \in Nat
             /\ inDegree[j] - Times(name, j) = Cardinality(Waits(j, R \cup {name}))
             /\ inDegree[j] = 0 <=> Waits(j, R) = {}
  <2>1. Times(name, j) = Cardinality({i \in DOMAIN Neighbours(j) : Neighbours(j)[i] = name})
    BY <1>3, Zenon DEF Times
  <2>2. Neighbours(j) \in Seq(C) /\ inDegree[j] = Cardinality(Waits(j, R))
    BY <1>3, <1>4, Zenon
  <2>3. name \notin R
    BY <1>6
  <2>4. LET times == Cardinality({i \in DOMAIN Neighbours(j) : Neighbours(j)[i] = name})
        IN  /\ times \in Nat
            /\ Cardinality(Waits(j, R)) \in Nat /\ Cardinality(Waits(j, R \cup {name})) \in Nat
            /\ Cardinality(Waits(j, R \cup {name})) = Cardinality(Waits(j, R)) - times
            /\ (Cardinality(Waits(j, R)) = 0 <=> Waits(j, R) = {})
    BY <2>2, <2>3, WaitsLess, Zenon
  <2> QED BY <2>1, <2>2, <2>4
<1>8. PICK B : B = BecomeReady(name)
  BY Zenon
<1>9. \A j : j \in B <=> j \in C /\ Times(name, j) > 0 /\ inDegree[j] = Times(name, j)
  BY <1>0, <1>8, Zenon DEF BecomeReady
<1>10. B \subseteq C /\ B \cap (Range(queue) \cup R) = {}
  BY <1>4, <1>7, <1>9
<1>11. IsFiniteSet(B)
  BY <1>3, <1>10, FS_Subset, Zenon
<1>12. ready \in Seq(C) /\ IsInjective(ready) /\ Range(ready) = B
  <2>1. ready \in Seq(B) /\ IsInjective(ready) /\ Range(ready) = B
    BY <1>2, <1>8, <1>11, OrderIsList, Zenon
  <2> QED BY <1>10, <2>1
<1>13. /\ queue' \in Seq(C) /\ IsInjective(queue') /\ result' \in Seq(C) /\ IsInjective(result')
       /\ Range(queue') \cap Range(result') = {}
       /\ Range(queue') \cup Range(result') = Range(queue) \cup R \cup B
       /\ Range(result') = R \cup {name}
  <2>1. Range(ready) \cap (Range(queue) \cup Range(result)) = {} /\ Range(queue) \cap Range(result) = {}
    BY <1>0, <1>4, <1>10, <1>12, Zenon
  <2>2. LET q2 == Tail(queue) \o ready
            r2 == Append(result, Head(queue))
        IN  /\ q2 \in Seq(C) /\ IsInjective(q2) /\ r2 \in Seq(C) /\ IsInjective(r2)
            /\ Range(q2) \cap Range(r2) = {}
            /\ Range(q2) \cup Range(r2) = Range(queue) \cup Range(result) \cup Range(ready)
            /\ Range(r2) = Range(result) \cup {Head(queue)} /\ Head(queue) \in Range(queue)
            /\ Head(queue) \in C
    <3>1. /\ queue \in Seq(C) /\ queue # <<>> /\ IsInjective(queue)
          /\ result \in Seq(C) /\ IsInjective(result) /\ ready \in Seq(C) /\ IsInjective(ready)
      BY <1>1, <1>4, <1>12
    <3> QED BY <2>1, <3>1, QueueMoves, Zenon
  <2> QED BY <1>0, <1>1, <1>2, <1>12, <2>2, Zenon
<1>14. DOMAIN inDegree' = C /\ \A j \in C : inDegree'[j] = inDegree[j] - Times(name, j)
  BY <1>1, <1>4, Zenon
<1>15. ASSUME NEW j \in C
       PROVE  inDegree'[j] = 0 <=> j \in Range(queue') \cup Range(result')
  <2>1. CASE j \in Range(queue) \cup R
    <3>1. inDegree[j] = 0
      BY <1>4, <2>1, Zenon
    <3>2. inDegree'[j] = 0
      BY <1>7, <1>14, <3>1
    <3> QED BY <1>13, <2>1, <3>2, Zenon
  <2>2. CASE j \notin Range(queue) \cup R
    <3>1. inDegree[j] # 0
      BY <1>4, <2>2, Zenon
    <3>2. inDegree'[j] = 0 <=> j \in B
      BY <1>7, <1>9, <1>14, <3>1
    <3> QED BY <1>13, <2>2, <3>2, Zenon
  <2> QED BY <2>1, <2>2, Zenon
<1>16. \A j \in C : inDegree'[j] = Cardinality(Waits(j, Range(result)))'
  <2>1. \A j : Waits(j, Range(result))' = Waits(j, R \cup {name})
    BY <1>1, <1>13, SameStages, Zenon
  <2> QED BY <1>7, <1>14, <2>1, Zenon
<1>17. InOrder(result)'
  <2>1. /\ Len(result) \in Nat /\ DOMAIN result = 1 .. Len(result)
        /\ DOMAIN result' = 1 .. Len(result) + 1 /\ result'[Len(result) + 1] = name
        /\ \A i \in 1 .. Len(result) : result'[i] = result[i]
    BY <1>1, <1>4, <1>6
  <2>2. ASSUME NEW n \in Range(Neighbours(name)) PROVE \E k \in 1 .. Len(result) : result'[k] = n
    <3>1. Waits(name, R) = {}
      BY <1>4, <1>6, <1>7, Zenon
    <3>2. n \in R
      BY <3>1, Zenon DEF Waits, Range
    <3>3. \E k \in DOMAIN result : result[k] = n
      BY <1>0, <3>2, Zenon DEF Range
    <3> QED BY <2>1, <3>3, Zenon
  <2>3. ASSUME NEW i \in 1 .. Len(result), NEW n \in Range(Neighbours(result[i]))
        PROVE  \E k \in 1 .. i - 1 : result'[k] = n
    <3>1. PICK k \in 1 .. i - 1 : result[k] = n
      BY <1>4, <2>1, Zenon DEF InOrder
    <3>2. k \in 1 .. Len(result)
      BY <2>1
    <3> QED BY <2>1, <3>1, <3>2, Zenon
  <2>4. ASSUME NEW i \in 1 .. Len(result) + 1, NEW n \in Range(Neighbours(result'[i]))
        PROVE  \E k \in 1 .. i - 1 : result'[k] = n
    <3>1. CASE i = Len(result) + 1
      <4>1. i - 1 = Len(result) /\ result'[i] = name
        BY <2>1, <3>1
      <4> QED BY <2>2, <4>1
    <3>2. CASE i \in 1 .. Len(result)
      BY <2>1, <2>3, <3>2, Zenon
    <3> QED BY <2>1, <3>1, <3>2
  <2>5. InOrder(result') <=> InOrder(result)'
    BY <1>1, SameStages, Zenon
  <2> QED BY <2>1, <2>4, <2>5, Zenon DEF InOrder
<1>18. ScheduleKnows'
  BY <1>1, <1>4, <1>5, <1>13, <1>14, <1>15, <1>16, <1>17, Zenon DEF ScheduleKnows
<1>19. CountsKnow'
  <2>1. queue' \in Seq(JobNames(pipeline)) /\ result' \in Seq(JobNames(pipeline))
    BY <1>3, <1>13
  <2> QED BY <1>1, <1>3, <1>7, <1>14, <2>1, SameStages DEF CountsKnow
<1>20. PlanKnows'
  BY <1>1, SameStages DEF PlanInv, PlanKnows
<1> QED BY <1>1, <1>18, <1>19, <1>20 DEF PlanInv

\* The queue runs dry only when every job of the stage is scheduled.
LEMMA StageDoneKnows ==
  ASSUME SearchInv, PlanInv, StageDone
  PROVE  PlanInv'
<1>0. PICK C, R : C = CurrentJobs /\ R = Range(result)
  BY Zenon
<1>1. /\ pc = "schedule" /\ queue = <<>> /\ plan' = Append(plan, result) /\ pipeline' = pipeline
      /\ pc' = IF Len(plan) + 1 = Len(pipeline.stages) THEN "planned" ELSE "stage"
      /\ UNCHANGED <<queue, inDegree, result>>
  BY DEF StageDone
<1>2. /\ C \subseteq JobNames(pipeline) /\ NoneWaits(C) /\ IsPipeline(pipeline)
      /\ \A j \in C : Neighbours(j) \in Seq(C)
  BY <1>0, <1>1, StageFacts
<1>3. /\ Len(plan) < Len(pipeline.stages) /\ result \in Seq(C) /\ IsInjective(result) /\ InOrder(result)
      /\ \A j \in C : /\ inDegree[j] = Cardinality(Waits(j, R))
                      /\ inDegree[j] = 0 <=> j \in R
  <2>1. Range(queue) = {}
    BY <1>1 DEF Range
  <2> QED BY <1>0, <1>1, <2>1 DEF PlanInv, ScheduleKnows
<1>4. R = C
  <2>1. R \subseteq C
    BY <1>0, <1>3 DEF Range
  <2>2. ASSUME NEW j \in C \ R PROVE \E n \in C \ R : NeedsEdge(j, n)
    <3>1. Waits(j, R) # {}
      BY <1>3, FS_EmptySet, Zenon
    <3>2. PICK i \in DOMAIN Neighbours(j) : Neighbours(j)[i] \notin R
      BY <3>1, Zenon DEF Waits
    <3>3. Neighbours(j) \in Seq(C)
      BY <1>2
    <3>4. Neighbours(j)[i] \in C /\ i \in 1 .. Len(Neighbours(j))
      BY <3>3
    <3> QED BY <3>2, <3>4, Zenon DEF NeedsEdge, Range
  <2>3. C \ R \in SUBSET C
    OBVIOUS
  <2>4. C \ R = {}
    BY <1>2, <2>2, <2>3, Zenon DEF NoneWaits
  <2> QED BY <2>1, <2>4
<1>5. Planned(result, pipeline.stages[Len(plan) + 1])
  BY <1>0, <1>3, <1>4, Zenon DEF Planned, CurrentJobs
<1>6. PICK l : l = Len(plan)
  BY Zenon
<1>7. /\ plan \in Seq(Seq(JobNames(pipeline))) /\ l \in Nat /\ Len(pipeline.stages) \in Nat
      /\ result \in Seq(JobNames(pipeline)) /\ DOMAIN plan = 1 .. l
      /\ \A s \in 1 .. l : Planned(plan[s], pipeline.stages[s])
  <2>1. plan \in Seq(Seq(JobNames(pipeline))) /\ \A s \in DOMAIN plan : Planned(plan[s], pipeline.stages[s])
    BY DEF PlanInv, PlanKnows
  <2>2. Len(pipeline.stages) \in Nat
    BY <1>2 DEF IsPipeline, IsList
  <2>3. result \in Seq(JobNames(pipeline))
    BY <1>2, <1>3
  <2> QED BY <1>6, <2>1, <2>2, <2>3
<1>8. /\ plan' \in Seq(Seq(JobNames(pipeline))) /\ Len(plan') = l + 1 /\ DOMAIN plan' = 1 .. l + 1
      /\ plan'[l + 1] = result /\ \A s \in 1 .. l : plan'[s] = plan[s]
  BY <1>1, <1>6, <1>7
<1>9. \A s \in 1 .. l + 1 : Planned(plan'[s], pipeline.stages[s])
  <2>1. \A s \in 1 .. l + 1 : s \in 1 .. l \/ s = l + 1
    BY <1>7
  <2> QED BY <1>5, <1>6, <1>7, <1>8, <2>1, Zenon
<1>10. \A s \in DOMAIN plan' : Planned(plan[s], pipeline.stages[s])'
  <2> SUFFICES ASSUME NEW s \in DOMAIN plan' PROVE Planned(plan[s], pipeline.stages[s])'
    BY Zenon
  <2>1. PICK jobs, stage : jobs = plan'[s] /\ stage = pipeline.stages[s]
    BY Zenon
  <2>2. Planned(jobs, stage)
    BY <1>8, <1>9, <2>1, Zenon
  <2>3. Planned(jobs, stage)'
    BY <1>1, <2>2, SameStages, Zenon
  <2> QED BY <1>1, <2>1, <2>3, Zenon
<1>11. l + 1 <= Len(pipeline.stages)
  BY <1>3, <1>6, <1>7
<1>12. PlanKnows'
  <2>1. JobNames(pipeline)' = JobNames(pipeline)
    BY <1>1, SameStages
  <2> QED BY <1>1, <1>6, <1>8, <1>10, <1>11, <2>1 DEF PlanKnows
<1>13. CountsKnow'
  BY <1>1, SameStages DEF PlanInv, CountsKnow
<1> QED BY <1>1, <1>12, <1>13 DEF PlanInv

-----------------------------------------------------------------------------
\* Together the two invariants are inductive.
LEMMA PlanInvariant == Spec => [](SearchInv /\ PlanInv)
<1>1. Init => PlanInv
  BY DEF Init, PlanInv, PlanKnows, CountsKnow, NoPipeline, JobNames
<1>2. SearchInv /\ PlanInv /\ [Next]_vars => PlanInv'
  <2> SUFFICES ASSUME SearchInv, PlanInv, [Next]_vars PROVE PlanInv'
    OBVIOUS
  <2>1. CASE Parse
    <3>1. /\ pc = "parse" /\ pc' \in {"rejected", "verify"}
          /\ plan = <<>> /\ queue = <<>> /\ result = <<>> /\ inDegree = <<>>
          /\ UNCHANGED <<plan, queue, result, inDegree>>
      BY <2>1 DEF Parse, planVars, PlanInv, PlanKnows
    <3>2. IsPipeline(pipeline)'
      BY NextSearchInv DEF SearchInv, FileKnows
    <3>3. Len(pipeline.stages)' \in Nat
      BY <3>2 DEF IsPipeline, IsList
    <3> QED BY <3>1, <3>3 DEF PlanInv, PlanKnows, CountsKnow
  <2>2. CASE Verify \/ StartSearch \/ NextNeighbour \/ Return \/ ReportCycle \/ EndSearch
    <3>1. /\ pc \notin {"stage", "schedule", "planned"}
          /\ pipeline' = pipeline /\ UNCHANGED <<plan, queue, result, inDegree>>
      BY <2>2 DEF Verify, StartSearch, NextNeighbour, Return, ReportCycle, EndSearch, planVars
    <3>2. pc' \notin {"schedule", "planned"}
      BY <2>2 DEF Verify, StartSearch, NextNeighbour, Return, ReportCycle, EndSearch
    <3> QED BY <3>1, <3>2, SameStages DEF PlanInv, PlanKnows, CountsKnow
  <2>3. CASE PlanStage \/ ScheduleNext \/ StageDone
    BY <2>3, PlanStageKnows, ScheduleNextKnows, StageDoneKnows, Zenon
  <2>4. CASE Answered \/ UNCHANGED vars
    <3>1. UNCHANGED <<pc, pipeline, plan, queue, result, inDegree>>
      BY <2>4 DEF Answered, vars, planVars
    <3>2. PlanKnows' /\ CountsKnow'
      BY <3>1, SameStages DEF PlanInv, PlanKnows, CountsKnow
    <3>3. ASSUME pc = "schedule" PROVE ScheduleKnows'
      <4>1. CurrentJobs' = CurrentJobs
        BY <3>1 DEF CurrentJobs, JobsForStage
      <4>2. InOrder(result)' <=> InOrder(result)
        BY <3>1, SameStages, Zenon
      <4>3. \A j : Waits(j, Range(result))' = Waits(j, Range(result))
        BY <3>1, SameStages, Zenon
      <4> QED BY <3>1, <3>3, <4>1, <4>2, <4>3 DEF PlanInv, ScheduleKnows
    <3> QED BY <3>1, <3>2, <3>3 DEF PlanInv
  <2> QED BY <2>1, <2>2, <2>3, <2>4, Zenon DEF Next, Step
<1> QED BY <1>1, <1>2, InitSearchInv, NextSearchInv, PTL DEF Spec

\* Every state of a file's way through parser, verifier and planner is well formed; in
\* particular no count of scheduleJobsInStage falls below zero, however often a need is
\* listed.
THEOREM ConfigTypeCorrect == Spec => []TypeOK
<1>1. SearchInv /\ PlanInv => TypeOK
  <2> SUFFICES ASSUME SearchInv, PlanInv PROVE TypeOK
    OBVIOUS
  <2>1. Range(path) \subseteq Names /\ Range(looked) \subseteq Nat /\ Range(cycle) \subseteq Names
    BY DEF SearchInv, PathKnows, CycleKnows, Range
  <2>2. Range(queue) \cup Range(result) \subseteq JobNames(pipeline)
    BY DEF PlanInv, CountsKnow, Range
  <2> QED
    BY <2>1, <2>2 DEF SearchInv, FileKnows, PathKnows, PlanInv, PlanKnows, CountsKnow, TypeOK
<1> QED BY <1>1, PlanInvariant, PTL

\* The plan of an accepted file has every job once, in its stage and after its needs.
\* No stage of it is empty.
THEOREM PlanIsAlwaysComplete == Spec => []PlanIsComplete
<1>1. SearchInv /\ PlanInv => PlanIsComplete
  <2> SUFFICES ASSUME SearchInv, PlanInv, pc = "planned"
               PROVE  /\ JobNames(pipeline) \subseteq UNION {Range(plan[s]) : s \in DOMAIN plan}
                      /\ \A s \in DOMAIN plan : plan[s] # <<>>
    BY DEF PlanInv, PlanKnows, Planned, InOrder, PlanIsComplete
  <2>1. /\ StaticErrors(doc, pipeline) = {}
        /\ Len(plan) = Len(pipeline.stages) /\ plan \in Seq(Seq(JobNames(pipeline)))
        /\ IsList(pipeline.stages)
        /\ \A s \in DOMAIN plan : Range(plan[s]) = JobsForStage(pipeline.stages[s])
    BY DEF SearchInv, FileKnows, IsPipeline, PlanInv, PlanKnows, Planned
  <2>2. DOMAIN plan = DOMAIN pipeline.stages
    BY <2>1, ListDomain
  <2>3. CheckJobStagesExist(doc, pipeline) = {} /\ CheckNoEmptyStages(doc, pipeline) = {}
    BY <2>1, Zenon DEF StaticErrors
  <2>4. \A i \in DOMAIN pipeline.jobs : pipeline.jobs[i].stage \in Range(pipeline.stages)
    BY <2>3, Zenon DEF CheckJobStagesExist
  <2>5. \A s \in DOMAIN pipeline.stages :
          \E j \in DOMAIN pipeline.jobs : pipeline.jobs[j].stage = pipeline.stages[s]
    BY <2>3, Zenon DEF CheckNoEmptyStages, StageErrors
  <2>6. ASSUME NEW name \in JobNames(pipeline)
        PROVE  \E s \in DOMAIN plan : name \in Range(plan[s])
    <3>1. PICK i \in DOMAIN pipeline.jobs : pipeline.jobs[i].name = name
      BY Zenon DEF JobNames
    <3>2. PICK s \in DOMAIN pipeline.stages : pipeline.stages[s] = pipeline.jobs[i].stage
      BY <2>4, Zenon DEF Range
    <3> QED BY <2>1, <2>2, <3>1, <3>2, Zenon DEF JobsForStage
  <2>7. ASSUME NEW s \in DOMAIN plan PROVE plan[s] # <<>>
    <3>1. PICK j \in DOMAIN pipeline.jobs : pipeline.jobs[j].stage = pipeline.stages[s]
      BY <2>2, <2>5, Zenon
    <3>2. pipeline.jobs[j].name \in Range(plan[s])
      BY <2>1, <3>1, Zenon DEF JobsForStage
    <3>3. PICK k \in DOMAIN plan[s] : TRUE
      BY <3>2, Zenon DEF Range
    <3> QED BY <3>3
  <2> QED BY <2>6, <2>7, Zenon
<1> QED BY <1>1, PlanInvariant, PTL

-----------------------------------------------------------------------------
(* Where errors are reported.                                               *)

\* An error of this file with this pipeline points home, when these errors are reported.
PointsHome(d, p, errs, e) ==
  /\ e.at[1] = "entry" => d.keys[e.at[2]].name = e.name
  /\ e.at[1] = "stages" /\ Shape("stage") \notin errs
       => \/ /\ e.at[2] = FirstKey(d, "stages")
             /\ d.keys[e.at[2]].entries[e.at[3]].name = e.name
          \/ /\ e.at[2] > FirstKey(d, "stages") /\ d.keys[e.at[2]].name = "stages"
             /\ d.keys[FirstKey(d, "stages")].entries = <<>>
             /\ p.stages = DefaultStages /\ e.name \in Range(DefaultStages)
  /\ e.at = Start /\ e.name # NoText /\ Shape("stage") \notin errs
       => p.stages = DefaultStages /\ e.name \in Range(DefaultStages)
  /\ e.kind = "duplicateJob" => \E m \in 1 .. e.at[2] - 1 : d.keys[m].name = e.name
  /\ e.kind = "duplicateStage" /\ Shape("stage") \notin errs
       => \E m \in 1 .. e.at[3] - 1 : d.keys[e.at[2]].entries[m].name = e.name
  /\ e.kind = "cycle" /\ Shape("jobType") \notin errs => e.at[3] # 0

\* More errors do not send an error elsewhere.
LEMMA StillPointsHome ==
  ASSUME NEW d, NEW p, NEW errs, NEW more, errs \subseteq more, NEW e, PointsHome(d, p, errs, e)
  PROVE  PointsHome(d, p, more, e)
BY Zenon DEF PointsHome

\* An error about the shape of a node names nothing.
LEMMA ShapePointsHome ==
  ASSUME NEW d, NEW p, NEW errs, NEW kind, kind \notin {"duplicateJob", "duplicateStage", "cycle"}
  PROVE  PointsHome(d, p, errs, Shape(kind))
<1>1. PICK e : e = Shape(kind)
  BY Zenon
<1>2. e.kind = kind /\ e.at = <<"node", 0, 0>>
  BY <1>1 DEF Shape, FormatError
<1>3. e.at[1] # "entry" /\ e.at[1] # "stages" /\ e.at # Start
  BY <1>2 DEF Start
<1>4. e.kind # "duplicateJob" /\ e.kind # "duplicateStage" /\ e.kind # "cycle"
  BY <1>2
<1>5. PointsHome(d, p, errs, e)
  BY <1>3, <1>4, Zenon DEF PointsHome
<1> QED BY <1>1, <1>5, Zenon

\* The errors of CheckYAMLTypes are about the shape of nodes.
LEMMA YAMLTypesPointHome ==
  ASSUME NEW d, NEW p, NEW errs, NEW e \in CheckYAMLTypes(d)
  PROVE  PointsHome(d, p, errs, e)
<1> DEFINE Kinds == {"noPipeline", "pipelineShape", "pipelineName", "stages", "stage"}
<1>1. PICK kind \in Kinds : e = Shape(kind)
  BY Zenon DEF CheckYAMLTypes
<1>2. kind \notin {"duplicateJob", "duplicateStage", "cycle"}
  OBVIOUS
<1> QED BY <1>1, <1>2, ShapePointsHome, Zenon

\* The entry of a job has its name, and the entries follow the order of the jobs.
LEMMA JobHasEntry ==
  ASSUME NEW d, IsDocument(d), NEW i \in DOMAIN BuildPipeline(d).jobs
  PROVE  /\ GetJobNodePair(d, i) \in JobEntries(d) /\ GetJobNodePair(d, i) \in Nat \ {0}
         /\ BuildPipeline(d).jobs[i] = ParseJob(d.keys[GetJobNodePair(d, i)])
         /\ d.keys[GetJobNodePair(d, i)].name = BuildPipeline(d).jobs[i].name
         /\ \A j \in 1 .. i - 1 : GetJobNodePair(d, j) < GetJobNodePair(d, i)
<1> DEFINE T == JobEntries(d)
           n == GetJobNodePair(d, i)
<1>1. Cardinality(T) \in Nat /\ i \in 1 .. Cardinality(T)
  BY ParsedJobs, Zenon
<1>2. n = Nth(T, i) /\ \A j \in 1 .. Cardinality(T) : GetJobNodePair(d, j) = Nth(T, j)
  BY <1>1, PairIsEntry, Zenon
<1>3. n \in T /\ BuildPipeline(d).jobs[i] = ParseJob(d.keys[n])
  BY <1>1, <1>2, ParsedJobs, Zenon
<1>4. Len(d.keys) \in Nat /\ T \subseteq 1 .. Len(d.keys)
  <2>1. IsList(d.keys) /\ T \subseteq DOMAIN d.keys
    BY Zenon DEF IsDocument, JobEntries
  <2> QED BY <2>1, ListDomain, Zenon
<1>5. \A j, k \in 1 .. Cardinality(T) : j < k => Nth(T, j) < Nth(T, k)
  BY <1>4, NthIsIndex, Zenon
<1>6. ParseJob(d.keys[n]).name = d.keys[n].name
  BY Zenon DEF ParseJob
<1> HIDE DEF T, n
<1>7. n \in Nat \ {0}
  BY <1>3, <1>4
<1>8. ASSUME NEW j \in 1 .. i - 1 PROVE GetJobNodePair(d, j) < n
  <2>1. j \in 1 .. Cardinality(T) /\ j < i
    BY <1>1
  <2> QED BY <1>1, <1>2, <1>5, <2>1, Zenon
<1> QED BY <1>3, <1>6, <1>7, <1>8, Zenon DEF T, n

\* An error at the entry of a job points home.
LEMMA JobErrorPointsHome ==
  ASSUME NEW d, IsDocument(d), NEW i \in DOMAIN BuildPipeline(d).jobs, NEW errs, NEW step, NEW kind,
         kind # "duplicateStage",
         kind = "duplicateJob" => \E j \in 1 .. i - 1 : BuildPipeline(d).jobs[j].name = BuildPipeline(d).jobs[i].name,
         kind = "cycle" /\ Shape("jobType") \notin errs => step # 0
  PROVE  PointsHome(d, BuildPipeline(d), errs,
                    FormatError(kind, BuildPipeline(d).jobs[i].name, EntryAt(GetJobNodePair(d, i), step)))
<1> DEFINE p == BuildPipeline(d)
           n == GetJobNodePair(d, i)
<1>1. PICK e : e = FormatError(kind, p.jobs[i].name, EntryAt(n, step))
  BY Zenon
<1>2. e.kind = kind /\ e.name = p.jobs[i].name /\ e.at = EntryAt(n, step)
  BY <1>1, Zenon DEF FormatError
<1>3. e.at[1] = "entry" /\ e.at[2] = n /\ e.at[3] = step
  <2> HIDE DEF n
  <2> QED BY <1>2 DEF EntryAt
<1>4. e.at[1] # "stages" /\ e.at # Start
  <2>1. Start[1] = "start"
    BY DEF Start
  <2>2. "entry" # "stages" /\ "entry" # "start"
    OBVIOUS
  <2> QED BY <1>3, <2>1, <2>2, Zenon
<1>5. /\ d.keys[n].name = p.jobs[i].name /\ n \in Nat \ {0}
      /\ \A j \in 1 .. i - 1 : GetJobNodePair(d, j) < n
  BY JobHasEntry, Zenon
<1>6. ASSUME kind = "duplicateJob" PROVE \E m \in 1 .. n - 1 : d.keys[m].name = p.jobs[i].name
  <2>1. PICK j \in 1 .. i - 1 : p.jobs[j].name = p.jobs[i].name
    BY <1>6, Zenon
  <2>2. j \in DOMAIN p.jobs
    <3>1. PICK c \in Nat : DOMAIN p.jobs = 1 .. c
      BY ParsedJobs, Zenon
    <3>2. i \in 1 .. c
      BY <3>1, Zenon
    <3>3. j \in 1 .. c
      BY <3>2
    <3> QED BY <3>1, <3>3, Zenon
  <2>3. PICK m : m = GetJobNodePair(d, j)
    BY Zenon
  <2>4. m \in Nat \ {0} /\ d.keys[m].name = p.jobs[j].name
    BY <2>2, <2>3, JobHasEntry, Zenon
  <2>5. m < n
    BY <1>5, <2>3, Zenon
  <2> HIDE DEF n
  <2>6. m \in 1 .. n - 1
    BY <1>5, <2>4, <2>5
  <2> QED BY <2>1, <2>4, <2>6, Zenon
<1> HIDE DEF n, p
<1>7. PointsHome(d, p, errs, e)
  BY <1>2, <1>3, <1>4, <1>5, <1>6, Zenon DEF PointsHome
<1> QED BY <1>1, <1>7, Zenon DEF n, p

\* Without errors about stages, `stages' is absent or a list of well shaped entries.
LEMMA StagesAreWellShaped ==
  ASSUME NEW d, ~HasCriticalErrors(CheckYAMLTypes(d)), Shape("stage") \notin CheckYAMLTypes(d)
  PROVE  /\ FindMappingNode(d, "stages").kind \in {"absent", "seq"}
         /\ FindMappingNode(d, "stages").kind = "seq" =>
              \A i \in DOMAIN FindMappingNode(d, "stages").entries :
                FindMappingNode(d, "stages").entries[i].kind \in {"str", "map"}
<1> DEFINE node == FindMappingNode(d, "pipeline")
           stages == FindMappingNode(d, "stages")
           BadStage == \E i \in DOMAIN stages.entries :
                         LET entry == stages.entries[i]
                         IN entry.kind # "str" /\ (entry.kind # "map" \/ entry.name = NoText)
           Bad == {e \in {"pipelineName", "stages", "stage"} :
                     \/ e = "pipelineName" /\ node.nameKind # "str"
                     \/ e = "stages" /\ stages.kind \notin {"absent", "seq"}
                     \/ e = "stage"  /\ stages.kind = "seq" /\ BadStage}
<1>1. \A k \in {"noPipeline", "pipelineShape", "stages"} : Shape(k) \notin CheckYAMLTypes(d)
  <2> SUFFICES ASSUME NEW k \in {"noPipeline", "pipelineShape", "stages"}, Shape(k) \in CheckYAMLTypes(d)
               PROVE  FALSE
    BY Zenon
  <2>1. Shape(k).kind = k
    BY Zenon DEF Shape, FormatError
  <2> QED BY <2>1, Zenon DEF HasCriticalErrors
<1>2. CheckYAMLTypes(d) = IF node.kind = "absent" THEN {Shape("noPipeline")}
                          ELSE IF node.kind # "map" THEN {Shape("pipelineShape")}
                          ELSE {Shape(e) : e \in Bad}
  BY Zenon DEF CheckYAMLTypes
<1> HIDE DEF Bad
<1>3. CheckYAMLTypes(d) = {Shape(e) : e \in Bad}
  BY <1>1, <1>2, Zenon
<1>4. "stages" \notin Bad /\ "stage" \notin Bad
  BY <1>1, <1>3, Zenon
<1>5. stages.kind \in {"absent", "seq"} /\ (stages.kind = "seq" => ~BadStage)
  BY <1>4, Zenon DEF Bad
<1>6. ASSUME stages.kind = "seq", NEW i \in DOMAIN stages.entries
      PROVE  stages.entries[i].kind \in {"str", "map"}
  BY <1>5, <1>6, Zenon
<1> QED BY <1>5, <1>6, Zenon

\* The k-th entry of the root lists a stage with a name at this index.
NamesStage(d, i, k) ==
  /\ d.keys[k].name = "stages" /\ d.keys[k].kind = "seq" /\ i <= Len(d.keys[k].entries)
  /\ d.keys[k].entries[i].kind \in {"str", "scalar", "map", "mapOtherName"}

\* The place of a stage is in the first entry that lists one there, or the start of
\* the file.
LEMMA StagePlaces ==
  ASSUME NEW d, IsList(d.keys), NEW i
  PROVE  \/ /\ GetStageNameLocation(d, i) = Start
            /\ \A k \in DOMAIN d.keys : ~NamesStage(d, i, k)
         \/ \E n \in DOMAIN d.keys :
              /\ GetStageNameLocation(d, i) = StageAt(n, i) /\ NamesStage(d, i, n)
              /\ \A k \in DOMAIN d.keys : NamesStage(d, i, k) => n <= k
<1> DEFINE T == {k \in DOMAIN d.keys : NamesStage(d, i, k)}
<1>1. GetStageNameLocation(d, i) = IF First(T) = 0 THEN Start ELSE StageAt(First(T), i)
  BY Zenon DEF GetStageNameLocation, NamesStage
<1>2. Len(d.keys) \in Nat /\ T \subseteq 1 .. Len(d.keys)
  BY ListDomain, Zenon
<1>3. (T = {} => First(T) = 0) /\ (T # {} => First(T) \in T /\ First(T) # 0)
  BY <1>2, FirstIsIndex, Zenon
<1>4. \A k \in T : First(T) <= k
  BY <1>2, FirstIsSmallest, Zenon
<1>5. CASE T = {}
  BY <1>1, <1>3, <1>5, Zenon
<1>6. CASE T # {}
  <2>1. GetStageNameLocation(d, i) = StageAt(First(T), i) /\ First(T) \in T
    BY <1>1, <1>3, <1>6, Zenon
  <2> QED BY <1>4, <2>1, Zenon
<1> QED BY <1>5, <1>6, Zenon

\* findMappingNode finds the first entry with the key.
LEMMA FindsFirst ==
  ASSUME NEW d, IsList(d.keys), NEW name
  PROVE  \/ /\ FindMappingNode(d, name) = Absent /\ \A k \in DOMAIN d.keys : d.keys[k].name # name
         \/ /\ FirstKey(d, name) \in DOMAIN d.keys
            /\ FindMappingNode(d, name) = d.keys[FirstKey(d, name)]
            /\ d.keys[FirstKey(d, name)].name = name
            /\ \A k \in DOMAIN d.keys : d.keys[k].name = name => FirstKey(d, name) <= k
<1> DEFINE T == {i \in DOMAIN d.keys : d.keys[i].name = name}
<1>1. Len(d.keys) \in Nat /\ T \subseteq 1 .. Len(d.keys)
  BY ListDomain, Zenon
<1>2. (T = {} => First(T) = 0) /\ (T # {} => First(T) \in T /\ First(T) # 0)
  BY <1>1, FirstIsIndex, Zenon
<1>3. \A k \in T : First(T) <= k
  BY <1>1, FirstIsSmallest, Zenon
<1>4. FirstKey(d, name) = First(T)
  BY Zenon DEF FirstKey
<1>5. CASE T = {}
  BY <1>2, <1>4, <1>5, Zenon DEF FindMappingNode
<1>6. CASE T # {}
  BY <1>2, <1>3, <1>4, <1>6, Zenon DEF FindMappingNode
<1> QED BY <1>5, <1>6, Zenon

\* Where the stages of such a file are: in the first list, or they are the default ones
\* and have no place, or one in a later list when the first is empty.
StagesAreListed(d, p) ==
  \A i \in DOMAIN p.stages :
    /\ GetStageNameLocation(d, i) = StageAt(FirstKey(d, "stages"), i)
    /\ d.keys[FirstKey(d, "stages")].entries[i].name = p.stages[i]
MovesOn(d, i, n) ==
  /\ GetStageNameLocation(d, i) = StageAt(n, i)
  /\ n > FirstKey(d, "stages") /\ d.keys[n].name = "stages"
  /\ d.keys[FirstKey(d, "stages")].entries = <<>>
StagesAreDefault(d, p) ==
  /\ p.stages = DefaultStages
  /\ \A i \in DOMAIN DefaultStages : GetStageNameLocation(d, i) = Start \/ \E n : MovesOn(d, i, n)

LEMMA StagesHaveEntries ==
  ASSUME NEW d, IsDocument(d), ~HasCriticalErrors(CheckYAMLTypes(d)), Shape("stage") \notin CheckYAMLTypes(d)
  PROVE  StagesAreListed(d, BuildPipeline(d)) \/ StagesAreDefault(d, BuildPipeline(d))
<1> DEFINE node == FindMappingNode(d, "stages")
           s == node.entries
           stages == IF node.kind = "seq" THEN ParseStages(node) ELSE <<>>
           p == BuildPipeline(d)
           f == FirstKey(d, "stages")
<1>0. IsList(d.keys)
  BY Zenon DEF IsDocument
<1>1. p.stages = IF stages = <<>> THEN DefaultStages ELSE stages
  BY Zenon DEF BuildPipeline
<1>2. node.kind \in {"absent", "seq"}
  BY StagesAreWellShaped, Zenon
<1>3. CASE node = Absent /\ \A k \in DOMAIN d.keys : d.keys[k].name # "stages"
  <2>1. node.kind # "seq"
    BY <1>3 DEF Absent
  <2>2. p.stages = DefaultStages
    BY <1>1, <2>1, Zenon
  <2>3. \A i \in DOMAIN DefaultStages : GetStageNameLocation(d, i) = Start
    <3>1. \A i : \A k \in DOMAIN d.keys : ~NamesStage(d, i, k)
      BY <1>3, Zenon DEF NamesStage
    <3> QED BY <1>0, <3>1, StagePlaces, Zenon
  <2> QED BY <2>2, <2>3, Zenon DEF StagesAreDefault
<1>4. CASE /\ f \in DOMAIN d.keys /\ node = d.keys[f]
           /\ \A k \in DOMAIN d.keys : d.keys[k].name = "stages" => f <= k
  <2>0. node.kind = "seq"
    <3>1. node.kind # "absent"
      BY <1>4, Zenon DEF IsDocument
    <3> QED BY <1>2, <3>1, Zenon
  <2>1. IsList(s)
    BY <2>0, EntriesAreList, Zenon
  <2>2. \A i \in DOMAIN s : s[i].kind \in {"str", "map"}
    BY <2>0, StagesAreWellShaped, Zenon
  <2>3. ParseStages(node) = [i \in DOMAIN s |-> s[i].name]
    BY <2>1, <2>2, ParsedStages, Zenon
  <2>4. Len(s) \in Nat /\ DOMAIN s = 1 .. Len(s)
    BY <2>1, ListDomain, Zenon
  <2>5. d.keys[f].name = "stages"
    <3>1. node # Absent
      <4>1. Absent.kind # "seq"
        BY DEF Absent
      <4> QED BY <2>0, <4>1, Zenon
    <3>2. \A name : \/ FindMappingNode(d, name) = Absent
                    \/ d.keys[FirstKey(d, name)].name = name
      BY <1>0, FindsFirst, Zenon
    <3> QED BY <3>1, <3>2, Zenon
  <2>6. stages = [i \in DOMAIN s |-> s[i].name]
    BY <2>0, <2>3, Zenon
  <2>7. \A i : NamesStage(d, i, f) <=> i <= Len(s) /\ s[i].kind \in {"str", "scalar", "map", "mapOtherName"}
    BY <1>4, <2>0, <2>5, Zenon DEF NamesStage
  <2>8. DOMAIN d.keys \subseteq Nat
    BY <1>0, ListDomain
  <2>9. s = d.keys[f].entries
    BY <1>4, Zenon
  <2> HIDE DEF node, s, stages, p, f
  <2>10. CASE stages = <<>>
    <3>1. DOMAIN s = {}
      BY <2>6, <2>10
    <3>2. Len(s) = 0 /\ s = <<>>
      BY <2>1, <2>4, <3>1 DEF IsList
    <3>3. \A i \in DOMAIN DefaultStages : ~(i <= Len(s))
      <4>1. DOMAIN DefaultStages = 1 .. 3
        BY DEF DefaultStages
      <4> QED BY <3>2, <4>1
    <3>4. ASSUME NEW i \in DOMAIN DefaultStages, GetStageNameLocation(d, i) # Start
          PROVE  \E n : MovesOn(d, i, n)
      <4>1. PICK n \in DOMAIN d.keys : GetStageNameLocation(d, i) = StageAt(n, i) /\ NamesStage(d, i, n)
        BY <1>0, <3>4, StagePlaces, Zenon
      <4>2. n # f
        BY <2>7, <3>3, <4>1, Zenon
      <4>3. d.keys[n].name = "stages"
        BY <4>1, Zenon DEF NamesStage
      <4>4. f <= n
        BY <1>4, <4>3, Zenon
      <4>5. n > f
        BY <1>4, <2>8, <4>2, <4>4
      <4>6. MovesOn(d, i, n)
        BY <2>9, <3>2, <4>1, <4>3, <4>5, Zenon DEF MovesOn, f
      <4> QED BY <4>6, Zenon
    <3>5. p.stages = DefaultStages
      BY <1>1, <2>10, Zenon
    <3> QED BY <3>4, <3>5, Zenon DEF p, StagesAreDefault
  <2>11. CASE stages # <<>>
    <3>1. p.stages = stages
      BY <1>1, <2>11, Zenon
    <3>2. ASSUME NEW i \in DOMAIN p.stages
          PROVE  GetStageNameLocation(d, i) = StageAt(f, i) /\ d.keys[f].entries[i].name = p.stages[i]
      <4>1. i \in DOMAIN s /\ p.stages[i] = s[i].name
        BY <2>6, <3>1, <3>2, Zenon
      <4>2. i <= Len(s)
        BY <2>4, <4>1
      <4>3. s[i].kind \in {"str", "scalar", "map", "mapOtherName"}
        BY <2>2, <4>1, Zenon
      <4>4. NamesStage(d, i, f)
        BY <2>7, <4>2, <4>3, Zenon
      <4>5. PICK n \in DOMAIN d.keys :
              /\ GetStageNameLocation(d, i) = StageAt(n, i) /\ NamesStage(d, i, n)
              /\ \A k \in DOMAIN d.keys : NamesStage(d, i, k) => n <= k
        BY <1>0, <1>4, <4>4, StagePlaces, Zenon
      <4>6. n <= f /\ f <= n
        BY <1>4, <4>4, <4>5, Zenon DEF NamesStage
      <4>7. n = f
        BY <1>4, <2>8, <4>6
      <4> QED BY <2>9, <4>1, <4>5, <4>7, Zenon
    <3> QED BY <3>2, Zenon DEF p, f, StagesAreListed
  <2> QED BY <2>10, <2>11, Zenon DEF p
<1> QED BY <1>0, <1>3, <1>4, FindsFirst, Zenon

\* An error at a stage points home.
LEMMA StageErrorPointsHome ==
  ASSUME NEW d, IsDocument(d), ~HasCriticalErrors(CheckYAMLTypes(d)), NEW errs, CheckYAMLTypes(d) \subseteq errs,
         NEW i \in DOMAIN BuildPipeline(d).stages, NEW kind, kind # "duplicateJob", kind # "cycle",
         kind = "duplicateStage" => \E j \in 1 .. i - 1 : BuildPipeline(d).stages[j] = BuildPipeline(d).stages[i]
  PROVE  PointsHome(d, BuildPipeline(d), errs,
                    FormatError(kind, BuildPipeline(d).stages[i], GetStageNameLocation(d, i)))
<1> DEFINE p == BuildPipeline(d)
           f == FirstKey(d, "stages")
           s == d.keys[f].entries
<1>1. PICK e : e = FormatError(kind, p.stages[i], GetStageNameLocation(d, i))
  BY Zenon
<1>2. e.kind = kind /\ e.name = p.stages[i] /\ e.at = GetStageNameLocation(d, i)
  BY <1>1, Zenon DEF FormatError
<1>3. /\ \A n : StageAt(n, i)[1] = "stages" /\ StageAt(n, i)[2] = n /\ StageAt(n, i)[3] = i
      /\ Start[1] = "start" /\ Start[2] = 0
  BY DEF StageAt, Start
<1>4. "stages" # "entry" /\ "start" # "entry" /\ "stages" # "start"
  OBVIOUS
<1>5. e.at[1] # "entry"
  <2>1. IsList(d.keys)
    BY Zenon DEF IsDocument
  <2>2. GetStageNameLocation(d, i) = Start \/ \E n : GetStageNameLocation(d, i) = StageAt(n, i)
    BY <2>1, StagePlaces, Zenon
  <2> QED BY <1>2, <1>3, <1>4, <2>2, Zenon
<1>6. CASE Shape("stage") \in errs
  <2>1. e.kind # "duplicateJob" /\ e.kind # "cycle"
    BY <1>2, Zenon
  <2>2. PointsHome(d, p, errs, e)
    BY <1>5, <1>6, <2>1, Zenon DEF PointsHome
  <2> QED BY <1>1, <2>2, Zenon
<1>7. CASE Shape("stage") \notin errs
  <2>0. Shape("stage") \notin CheckYAMLTypes(d)
    BY <1>7, Zenon
  <2>1. CASE StagesAreListed(d, p)
    <3>1. e.at[1] = "stages" /\ e.at[2] = f /\ e.at[3] = i /\ s[i].name = e.name
      <4>1. GetStageNameLocation(d, i) = StageAt(f, i) /\ s[i].name = p.stages[i]
        BY <2>1, Zenon DEF StagesAreListed
      <4> HIDE DEF f
      <4> QED BY <1>2, <1>3, <4>1, Zenon
    <3>2. e.at # Start
      BY <1>3, <1>4, <3>1, Zenon
    <3>3. ASSUME kind = "duplicateStage" PROVE \E m \in 1 .. i - 1 : s[m].name = e.name
      <4>1. PICK j \in 1 .. i - 1 : p.stages[j] = p.stages[i]
        BY <3>3, Zenon
      <4>2. j \in DOMAIN p.stages
        <5>1. Len(p.stages) \in Nat /\ DOMAIN p.stages = 1 .. Len(p.stages)
          BY ParserMakesPipeline, ListDomain, Zenon DEF IsPipeline
        <5>2. PICK c \in Nat : DOMAIN p.stages = 1 .. c
          BY <5>1, Zenon
        <5>3. i \in 1 .. c
          BY <5>2, Zenon
        <5>4. j \in 1 .. c
          BY <5>3
        <5> QED BY <5>2, <5>4, Zenon
      <4> QED BY <1>2, <2>1, <4>1, <4>2, Zenon DEF StagesAreListed
    <3> HIDE DEF p
    <3> QED BY <1>1, <1>2, <1>5, <3>1, <3>2, <3>3, Zenon DEF PointsHome, p
  <2>2. CASE StagesAreDefault(d, p)
    <3>0. p.stages = DefaultStages
      BY <2>2, Zenon DEF StagesAreDefault
    <3>1. i \in DOMAIN DefaultStages /\ e.name = DefaultStages[i]
      BY <1>2, <3>0, Zenon
    <3>2. e.name \in Range(DefaultStages)
      BY <3>1, Zenon DEF Range
    <3>3. \/ e.at[1] # "stages"
          \/ /\ e.at[2] > f /\ d.keys[e.at[2]].name = "stages" /\ d.keys[f].entries = <<>>
      <4>1. CASE GetStageNameLocation(d, i) = Start
        BY <1>2, <1>3, <1>4, <4>1, Zenon
      <4>2. ASSUME NEW n, MovesOn(d, i, n)
            PROVE  e.at[2] > f /\ d.keys[e.at[2]].name = "stages" /\ d.keys[f].entries = <<>>
        <5>1. e.at = StageAt(n, i) /\ n > f /\ d.keys[n].name = "stages" /\ d.keys[f].entries = <<>>
          BY <1>2, <4>2, Zenon DEF MovesOn
        <5>2. e.at[2] = n
          BY <1>3, <5>1, Zenon
        <5> QED BY <5>1, <5>2, Zenon
      <4> QED BY <2>2, <3>1, <4>1, <4>2, Zenon DEF StagesAreDefault
    <3>4. kind # "duplicateStage"
      <4> SUFFICES ASSUME kind = "duplicateStage" PROVE FALSE
        BY Zenon
      <4>1. PICK j \in 1 .. i - 1 : p.stages[j] = p.stages[i]
        BY Zenon
      <4>2. DefaultStages[j] = DefaultStages[i]
        BY <3>0, <4>1, Zenon
      <4>3. i \in 1 .. 3
        BY <3>1 DEF DefaultStages
      <4>4. j \in 1 .. 2 /\ j < i
        BY <4>3
      <4> HIDE DEF p
      <4> QED BY <4>2, <4>3, <4>4 DEF DefaultStages
    <3> HIDE DEF p, f
    <3> QED BY <1>1, <1>2, <1>5, <3>0, <3>2, <3>3, <3>4, Zenon DEF PointsHome, p, f
  <2> QED BY <2>0, <2>1, <2>2, StagesHaveEntries, Zenon
<1> QED BY <1>1, <1>6, <1>7, Zenon

\* Every error of the checks that need no search points home.
LEMMA StaticErrorsPointHome ==
  ASSUME NEW d, IsDocument(d), ~HasCriticalErrors(CheckYAMLTypes(d)),
         NEW e \in StaticErrors(d, BuildPipeline(d))
  PROVE  PointsHome(d, BuildPipeline(d), StaticErrors(d, BuildPipeline(d)), e)
<1>1. PICK p : p = BuildPipeline(d)
  BY Zenon
<1>2. PICK errs : errs = StaticErrors(d, p)
  BY Zenon
<1> SUFFICES PointsHome(d, p, errs, e)
  BY <1>1, <1>2, Zenon
<1>3. CheckYAMLTypes(d) \subseteq errs
  BY <1>2, Zenon DEF StaticErrors
<1>4. CASE e \in CheckYAMLTypes(d)
  BY <1>4, YAMLTypesPointHome, Zenon
<1>5. CASE e \in ValidateJobs(d)
  <2>1. e = Shape("jobType")
    BY <1>5, Zenon DEF ValidateJobs
  <2>2. "jobType" \notin {"duplicateJob", "duplicateStage", "cycle"}
    OBVIOUS
  <2> QED BY <2>1, <2>2, ShapePointsHome, Zenon
<1>6. CASE e \in CheckAtLeastOneStage(d, p)
  <2>1. p.stages # <<>>
    <3>1. DefaultStages # <<>>
      BY DEF DefaultStages
    <3> QED BY <1>1, <3>1, Zenon DEF BuildPipeline
  <2> QED BY <1>6, <2>1, Zenon DEF CheckAtLeastOneStage
<1>7. CASE e \in CheckAtLeastOneJob(d, p)
  <2>1. p.jobs = <<>> /\ e = FormatError("noJob", NoText, GetJobsLocation(d))
    BY <1>7, Zenon DEF CheckAtLeastOneJob
  <2>2. Cardinality(JobEntries(d)) = 0
    <3>1. PICK c \in Nat : DOMAIN p.jobs = 1 .. c /\ c = Cardinality(JobEntries(d))
      BY <1>1, ParsedJobs, Zenon
    <3>2. DOMAIN p.jobs = {}
      BY <2>1
    <3>3. c = 0
      BY <3>1, <3>2
    <3> QED BY <3>1, <3>3, Zenon
  <2>3. GetJobsLocation(d) = Start
    BY <2>2, PairIsEntry, Zenon DEF GetJobsLocation, GetJobNameLocation
  <2>4. e.kind = "noJob" /\ e.name = NoText /\ e.at = Start
    BY <2>1, <2>3, Zenon DEF FormatError
  <2>5. Start[1] = "start"
    BY DEF Start
  <2>6. e.at[1] # "entry" /\ e.at[1] # "stages"
    BY <2>4, <2>5
  <2>7. e.kind # "duplicateJob" /\ e.kind # "duplicateStage" /\ e.kind # "cycle"
    BY <2>4
  <2> QED BY <2>4, <2>6, <2>7, Zenon DEF PointsHome
<1>8. ASSUME NEW i \in DOMAIN p.stages, NEW kind, kind # "duplicateJob", kind # "cycle",
             kind = "duplicateStage" => \E j \in 1 .. i - 1 : p.stages[j] = p.stages[i],
             e = FormatError(kind, p.stages[i], GetStageNameLocation(d, i))
      PROVE  PointsHome(d, p, errs, e)
  BY <1>1, <1>3, <1>8, StageErrorPointsHome, Zenon
<1>9. CASE e \in CheckUniqueStageNames(d, p)
  <2>1. PICK i \in DOMAIN p.stages :
             /\ \E j \in 1 .. i - 1 : p.stages[j] = p.stages[i]
             /\ e = FormatError("duplicateStage", p.stages[i], GetStageNameLocation(d, i))
    BY <1>9, Zenon DEF CheckUniqueStageNames, StageErrors
  <2>2. "duplicateStage" # "duplicateJob" /\ "duplicateStage" # "cycle"
    OBVIOUS
  <2> QED BY <1>8, <2>1, <2>2, Zenon
<1>10. CASE e \in CheckNoEmptyStages(d, p)
  <2>1. PICK i \in DOMAIN p.stages : e = FormatError("emptyStage", p.stages[i], GetStageNameLocation(d, i))
    BY <1>10, Zenon DEF CheckNoEmptyStages, StageErrors
  <2>2. "emptyStage" # "duplicateJob" /\ "emptyStage" # "cycle" /\ "emptyStage" # "duplicateStage"
    OBVIOUS
  <2> QED BY <1>8, <2>1, <2>2, Zenon
<1>11. ASSUME NEW i \in DOMAIN p.jobs, NEW kind, kind # "duplicateStage", kind # "cycle",
              kind = "duplicateJob" => \E j \in 1 .. i - 1 : p.jobs[j].name = p.jobs[i].name,
              NEW step, e = FormatError(kind, p.jobs[i].name, EntryAt(GetJobNodePair(d, i), step))
       PROVE  PointsHome(d, p, errs, e)
  BY <1>1, <1>11, JobErrorPointsHome, Zenon
<1>12. ASSUME NEW i \in DOMAIN p.jobs PROVE GetJobNodePair(d, i) # 0
  <2>1. GetJobNodePair(d, i) \in Nat \ {0}
    BY <1>1, JobHasEntry, Zenon
  <2> QED BY <2>1
<1>13. CASE e \in CheckUniqueJobNames(d, p)
  <2>1. PICK i \in DOMAIN p.jobs :
             /\ \E j \in 1 .. i - 1 : p.jobs[j].name = p.jobs[i].name
             /\ e = FormatError("duplicateJob", p.jobs[i].name, GetJobNameLocation(d, i))
    BY <1>13, Zenon DEF CheckUniqueJobNames
  <2>2. GetJobNameLocation(d, i) = EntryAt(GetJobNodePair(d, i), 0)
    BY <1>12, Zenon DEF GetJobNameLocation
  <2>3. "duplicateJob" # "duplicateStage" /\ "duplicateJob" # "cycle"
    OBVIOUS
  <2> QED BY <1>11, <2>1, <2>2, <2>3, Zenon
<1>14. ASSUME NEW i \in DOMAIN p.jobs, NEW field, NEW kind \in {"undefinedStage", "undefinedNeed", "foreignNeed"},
              e = FormatError(kind, p.jobs[i].name, JobLocation(d, i, field))
       PROVE  PointsHome(d, p, errs, e)
  <2>1. PICK step : JobLocation(d, i, field) = EntryAt(GetJobNodePair(d, i), step)
    BY <1>12, Zenon DEF JobLocation
  <2>2. kind # "duplicateStage" /\ kind # "cycle" /\ kind # "duplicateJob"
    BY <1>14
  <2> QED BY <1>11, <1>14, <2>1, <2>2, Zenon
<1>15. CASE e \in CheckJobStagesExist(d, p)
  <2>1. PICK i \in DOMAIN p.jobs : e = FormatError("undefinedStage", p.jobs[i].name, JobLocation(d, i, "stage"))
    BY <1>15, Zenon DEF CheckJobStagesExist, GetJobStageLocation
  <2> QED BY <1>14, <2>1, Zenon
<1>16. CASE e \in CheckNeedsReferences(d, p)
  <2>1. PICK i \in DOMAIN p.jobs : e = FormatError("undefinedNeed", p.jobs[i].name, JobLocation(d, i, "needs"))
    BY <1>16, Zenon DEF CheckNeedsReferences, NeedsErrors, GetJobNeedsLocation
  <2> QED BY <1>14, <2>1, Zenon
<1>17. CASE e \in CheckNeedsStageConsistency(d, p)
  <2>1. PICK i \in DOMAIN p.jobs : e = FormatError("foreignNeed", p.jobs[i].name, JobLocation(d, i, "needs"))
    BY <1>17, Zenon DEF CheckNeedsStageConsistency, NeedsErrors, GetJobNeedsLocation
  <2> QED BY <1>14, <2>1, Zenon
<1>18. e \in StaticErrors(d, p)
  BY <1>1, Zenon
<1> QED BY <1>4, <1>5, <1>6, <1>7, <1>9, <1>10, <1>13, <1>15, <1>16, <1>17, <1>18, Zenon DEF StaticErrors

-----------------------------------------------------------------------------
\* When the checks begin there is a parsed pipeline, and the search begins only on a file
\* without critical errors; what has been reported by then points home.
ErrorsKnow ==
  /\ \A e \in errors : PointsHome(doc, pipeline, errors, e)
  /\ pc \in {"verify", "cycles", "found"} => pipeline = BuildPipeline(doc)
  /\ pc \in {"cycles", "found"} => ~HasCriticalErrors(CheckYAMLTypes(doc))

\* A job that needs another is a job of the pipeline, and has needs.
LEMMA EdgeHasNeeds ==
  ASSUME NEW job, NEW other, NeedsEdge(job, other)
  PROVE  job \in JobNames(pipeline) /\ LastNamed(pipeline, job).needs # <<>>
<1>1. other \in Range(Neighbours(job))
  BY Zenon DEF NeedsEdge
<1>2. Range(<<>>) = {}
  BY DEF Range
<1>3. Neighbours(job) # <<>>
  BY <1>1, <1>2, Zenon
<1> QED BY <1>3, Zenon DEF Neighbours

\* The cycle is reported at the needs of the job it names.
LEMMA CyclePointsHome ==
  ASSUME SearchInv, ErrorsKnow, ReportCycle
  PROVE  \A e \in errors' : PointsHome(doc, pipeline, errors', e)
<1>1. PICK job : job = cycle[1]
  BY Zenon
<1>2. PICK i : i = LastIndex(pipeline, job)
  BY Zenon
<1>3. PICK new : new = FormatError("cycle", job, GetJobNeedsLocation(doc, i))
  BY Zenon
<1>4. pc = "found" /\ errors' = errors \cup {new}
  BY <1>1, <1>2, <1>3, Zenon DEF ReportCycle
<1>5. /\ doc \in Documents /\ IsPipeline(pipeline) /\ pipeline = BuildPipeline(doc)
      /\ errors = StaticErrors(doc, pipeline)
  BY <1>4 DEF SearchInv, FileKnows, ErrorsKnow
<1>6. IsDocument(doc)
  BY <1>5, DocumentsAssumption, Zenon
<1>7. \E other : NeedsEdge(job, other)
  <2>1. cycle \in Seq(Names) /\ cycle # <<>>
    BY <1>4 DEF SearchInv, CycleKnows
  <2>2. 1 \in DOMAIN cycle
    BY <2>1
  <2>3. NeedsEdge(cycle[1], cycle[IF 1 < Len(cycle) THEN 1 + 1 ELSE 1])
    BY <2>2, Zenon DEF SearchInv, CycleKnows
  <2> QED BY <1>1, <2>3, Zenon
<1>8. job \in JobNames(pipeline) /\ LastNamed(pipeline, job).needs # <<>>
  BY <1>7, EdgeHasNeeds, Zenon
<1>9. i \in DOMAIN pipeline.jobs /\ pipeline.jobs[i].name = job /\ pipeline.jobs[i].needs # <<>>
  <2>1. IsList(pipeline.jobs)
    BY <1>5, Zenon DEF IsPipeline
  <2> QED BY <1>2, <1>8, <2>1, LastIndexHasName, Zenon DEF LastNamed
<1>10. PICK n : n = GetJobNodePair(doc, i)
  BY Zenon
<1>11. n \in JobEntries(doc) /\ n \in Nat \ {0} /\ pipeline.jobs[i] = ParseJob(doc.keys[n])
  BY <1>5, <1>6, <1>9, <1>10, JobHasEntry, Zenon
<1>12. PICK step : step = FindJobField(doc.keys[n], "needs")
  BY Zenon
<1>13. GetJobNeedsLocation(doc, i) = EntryAt(n, step)
  <2>1. n # 0
    BY <1>11
  <2> QED BY <1>10, <1>12, <2>1, Zenon DEF GetJobNeedsLocation, JobLocation
<1>14. ASSUME Shape("jobType") \notin errors' PROVE step # 0
  <2>1. Shape("jobType") \notin ValidateJobs(doc)
    BY <1>4, <1>5, <1>14, Zenon DEF StaticErrors
  <2>2. JobIsWellTyped(doc.keys[n])
    BY <1>6, <1>11, <2>1, JobsAreWellTyped, Zenon
  <2>3. ~IsReservedTopLevelKey(doc.keys[n].name) /\ n \in DOMAIN doc.keys
    BY <1>11, Zenon DEF JobEntries
  <2>4. doc.keys[n].kind = "seq" => HasLists(doc.keys[n])
    BY <1>6, <2>3, Zenon DEF IsDocument
  <2>5. ParseJob(doc.keys[n]).needs # <<>>
    BY <1>9, <1>11, Zenon
  <2> QED BY <1>12, <2>2, <2>3, <2>4, <2>5, NeedsAreFound, Zenon
<1>15. PointsHome(doc, pipeline, errors', new)
  <2>1. PICK errs : errs = errors'
    BY Zenon
  <2>2. "cycle" # "duplicateStage" /\ "cycle" # "duplicateJob"
    OBVIOUS
  <2>3. "cycle" = "cycle" /\ Shape("jobType") \notin errs => step # 0
    BY <1>14, <2>1, Zenon
  <2>4. i \in DOMAIN BuildPipeline(doc).jobs
    BY <1>5, <1>9, Zenon
  <2>5. PointsHome(doc, BuildPipeline(doc), errs,
          FormatError("cycle", BuildPipeline(doc).jobs[i].name, EntryAt(GetJobNodePair(doc, i), step)))
    BY <1>6, <2>2, <2>3, <2>4, JobErrorPointsHome, Zenon
  <2> QED BY <1>3, <1>5, <1>9, <1>10, <1>13, <2>1, <2>5, Zenon
<1>16. \A e \in errors : PointsHome(doc, pipeline, errors', e)
  <2>1. errors \subseteq errors'
    BY <1>4, Zenon
  <2> QED BY <2>1, StillPointsHome, Zenon DEF ErrorsKnow
<1> QED BY <1>4, <1>15, <1>16, Zenon

\* Every step keeps it.
LEMMA NextErrorsKnow == SearchInv /\ ErrorsKnow /\ [Next]_vars => ErrorsKnow'
<1> SUFFICES ASSUME SearchInv, ErrorsKnow, [Next]_vars PROVE ErrorsKnow'
  OBVIOUS
<1>1. CASE Parse
  <2>1. pc = "parse" /\ errors = {} /\ doc' = doc
    BY <1>1 DEF Parse, SearchInv, FileKnows
  <2>2. CASE ParseFails(doc)
    <3>1. pc' = "rejected" /\ errors' = {Shape("parse")}
      BY <1>1, <2>2 DEF Parse
    <3>2. "parse" \notin {"duplicateJob", "duplicateStage", "cycle"}
      OBVIOUS
    <3>3. \A e \in errors' : PointsHome(doc, pipeline, errors, e)'
      BY <3>1, <3>2, ShapePointsHome, Zenon
    <3>4. pc' \notin {"verify", "cycles", "found"}
      BY <3>1
    <3> QED BY <3>3, <3>4, Zenon DEF ErrorsKnow
  <2>3. CASE ~ParseFails(doc)
    <3>1. pc' = "verify" /\ errors' = {} /\ pipeline' = BuildPipeline(doc)'
      BY <1>1, <2>1, <2>3 DEF Parse
    <3>2. pc' \notin {"cycles", "found"}
      BY <3>1
    <3> QED BY <3>1, <3>2, Zenon DEF ErrorsKnow
  <2> QED BY <2>2, <2>3, Zenon
<1>2. CASE Verify
  <2>1. pc = "verify" /\ doc' = doc /\ pipeline' = pipeline /\ pipeline = BuildPipeline(doc)
    BY <1>2 DEF Verify, ErrorsKnow
  <2>2. CASE HasCriticalErrors(CheckYAMLTypes(doc))
    <3>1. pc' = "rejected" /\ errors' = CheckYAMLTypes(doc)
      BY <1>2, <2>2 DEF Verify
    <3>2. \A e \in errors' : PointsHome(doc, pipeline, errors, e)'
      BY <2>1, <3>1, YAMLTypesPointHome, Zenon
    <3>3. pc' \notin {"verify", "cycles", "found"}
      BY <3>1
    <3> QED BY <3>2, <3>3, Zenon DEF ErrorsKnow
  <2>3. CASE ~HasCriticalErrors(CheckYAMLTypes(doc))
    <3>1. errors' = StaticErrors(doc, BuildPipeline(doc))
      BY <1>2, <2>1, <2>3 DEF Verify
    <3>2. IsDocument(doc)
      BY DocumentsAssumption, Zenon DEF SearchInv, FileKnows
    <3>3. \A e \in errors' : PointsHome(doc, BuildPipeline(doc), errors', e)
      BY <2>3, <3>1, <3>2, StaticErrorsPointHome, Zenon
    <3>4. \A e \in errors' : PointsHome(doc, pipeline, errors, e)'
      BY <2>1, <3>3, Zenon
    <3> QED BY <2>1, <2>3, <3>4, Zenon DEF ErrorsKnow
  <2> QED BY <2>2, <2>3, Zenon
<1>3. CASE ReportCycle
  <2>1. pc' = "rejected" /\ doc' = doc /\ pipeline' = pipeline
    BY <1>3 DEF ReportCycle
  <2>2. \A e \in errors' : PointsHome(doc, pipeline, errors', e)
    BY <1>3, CyclePointsHome, Zenon
  <2>3. \A e \in errors' : PointsHome(doc, pipeline, errors, e)'
    BY <2>1, <2>2, Zenon
  <2>4. pc' \notin {"verify", "cycles", "found"}
    BY <2>1
  <2> QED BY <2>3, <2>4, Zenon DEF ErrorsKnow
<1>4. ASSUME doc' = doc, pipeline' = pipeline, errors' = errors,
             pc' \in {"verify", "cycles", "found"} => pc \in {"verify", "cycles", "found"},
             pc' \in {"cycles", "found"} => pc \in {"cycles", "found"}
      PROVE  ErrorsKnow'
  <2>1. \A e \in errors' : PointsHome(doc, pipeline, errors, e)'
    BY <1>4, Zenon DEF ErrorsKnow
  <2>2. pc' \in {"verify", "cycles", "found"} => pipeline' = BuildPipeline(doc)'
    BY <1>4, Zenon DEF ErrorsKnow
  <2>3. pc' \in {"cycles", "found"} => ~HasCriticalErrors(CheckYAMLTypes(doc))'
    BY <1>4, Zenon DEF ErrorsKnow
  <2> QED BY <2>1, <2>2, <2>3, Zenon DEF ErrorsKnow
<1>5. CASE StartSearch \/ Return \/ ScheduleNext \/ Answered \/ UNCHANGED vars
  <2>1. doc' = doc /\ pipeline' = pipeline /\ errors' = errors /\ pc' = pc
    BY <1>5, Zenon DEF StartSearch, Return, ScheduleNext, Answered, vars
  <2> QED BY <1>4, <2>1, Zenon
<1>6. CASE NextNeighbour
  <2>1. pc = "cycles" /\ doc' = doc /\ pipeline' = pipeline /\ errors' = errors
    BY <1>6, Zenon DEF NextNeighbour
  <2>2. pc \in {"verify", "cycles", "found"} /\ pc \in {"cycles", "found"}
    BY <2>1
  <2> QED BY <1>4, <2>1, <2>2, Zenon
<1>7. CASE EndSearch \/ PlanStage \/ StageDone
  <2>1. doc' = doc /\ pipeline' = pipeline /\ errors' = errors
    BY <1>7, Zenon DEF EndSearch, PlanStage, StageDone
  <2>2. pc' \in {"stage", "rejected", "schedule", "planned"}
    BY <1>7, Zenon DEF EndSearch, PlanStage, StageDone
  <2>3. pc' \notin {"verify", "cycles", "found"} /\ pc' \notin {"cycles", "found"}
    BY <2>2
  <2> QED BY <1>4, <2>1, <2>3, Zenon
<1> QED BY <1>1, <1>2, <1>3, <1>5, <1>6, <1>7, Zenon DEF Next, Step

\* Every error is reported at the stage or the job that it names, for every set of files:
\* the verifier's counting finds the entry the parser made the stage or the job from, and
\* of several `stages' the one the parser read.
THEOREM ErrorsAlwaysPointHome == Spec => []ErrorsPointHome
<1>1. Init => ErrorsKnow
  BY DEF Init, ErrorsKnow
<1>2. ErrorsKnow => ErrorsPointHome
  BY Zenon DEF ErrorsKnow, ErrorsPointHome, AboutDefault, PointsHome
<1> QED BY <1>1, <1>2, SearchInvariant, NextErrorsKnow, PTL DEF Spec

=============================================================================
