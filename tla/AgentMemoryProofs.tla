--------------------------- MODULE AgentMemoryProofs ---------------------------
(***************************************************************************)
(* Proofs about AgentMemory, for any number of requests, owners, memories, *)
(* contents and queries, with any number of failing transactions.          *)
(***************************************************************************)
EXTENDS AgentMemory, FiniteSetTheorems, SequenceTheorems, TLAPS

--------------------------------------------------------------------------------
\* A finite set in order.

\* As many places as things, and no place taken twice: no place is left.
LEMMA NoPlaceLeft ==
  ASSUME NEW S, IsFiniteSet(S), NEW T, IsFiniteSet(T), Cardinality(S) = Cardinality(T),
         NEW f \in [S -> T], \A x, y \in S : f[x] = f[y] => x = y
  PROVE  \A t \in T : \E x \in S : f[x] = t
<1>1. SUFFICES ASSUME NEW t \in T, \A x \in S : f[x] # t PROVE FALSE
  OBVIOUS
<1>2. IsFiniteSet(T \ {t}) /\ Cardinality(T \ {t}) = Cardinality(T) - 1
  BY <1>1, FS_RemoveElement
<1>3. Cardinality(S) \in Nat
  BY FS_CardinalityType
<1>4. Cardinality(T \ {t}) < Cardinality(S)
  BY <1>2, <1>3
<1>5. f \in [S -> T \ {t}]
  BY <1>1
<1>6. \E x, y \in S : x # y /\ f[x] = f[y]
  BY <1>2, <1>4, <1>5, FS_PigeonHole
<1>. QED
  BY <1>6

\* R compares any two members of S.
Orders(R, S) ==
    /\ \A x \in S : <<x, x>> \notin R
    /\ \A x, y \in S : x = y \/ <<x, y>> \in R \/ <<y, x>> \in R
    /\ \A x, y, z \in S : <<x, y>> \in R /\ <<y, z>> \in R => <<x, z>> \in R

\* s lists members of S in the order R.
Lists(s, R, S) ==
    /\ s \in [1 .. Cardinality(S) -> S]
    /\ \A m, n \in 1 .. Cardinality(S) : m < n => <<s[m], s[n]>> \in R

\* Whoever is listed in order is listed once, so all of S is listed.
LEMMA ListsAll ==
  ASSUME NEW S, IsFiniteSet(S), NEW R, Orders(R, S), NEW s, Lists(s, R, S)
  PROVE  \A x \in S : \E m \in 1 .. Cardinality(S) : s[m] = x
<1>1. PICK N \in Nat : N = Cardinality(S)
  BY FS_CardinalityType
<1>2. IsFiniteSet(1 .. N) /\ Cardinality(1 .. N) = N
  <2>1. 1 \in Int /\ N \in Int
    OBVIOUS
  <2>2. IsFiniteSet(1 .. N) /\ Cardinality(1 .. N) = IF 1 > N THEN 0 ELSE N - 1 + 1
    BY <2>1, FS_Interval
  <2>. QED
    BY <2>2
<1>3. s \in [1 .. N -> S]
  BY <1>1 DEF Lists
<1>4. ASSUME NEW m \in 1 .. N, NEW n \in 1 .. N, s[m] = s[n] PROVE m = n
  <2>1. s[m] \in S /\ s[n] \in S
    BY <1>3
  <2>2. <<s[m], s[n]>> \notin R /\ <<s[n], s[m]>> \notin R
    <3>1. <<s[n], s[n]>> \notin R
      BY <2>1 DEF Orders
    <3>. QED
      BY <1>4, <3>1
  <2>3. ~(m < n) /\ ~(n < m)
    BY <1>1, <2>2 DEF Lists
  <2>. QED
    BY <2>3
<1>5. \A m, n \in 1 .. N : s[m] = s[n] => m = n
  BY <1>4
<1>6. PICK D : D = 1 .. N
  OBVIOUS
<1>7. \A x \in S : \E m \in D : s[m] = x
  <2>1. IsFiniteSet(D) /\ Cardinality(D) = Cardinality(S) /\ s \in [D -> S]
    BY <1>1, <1>2, <1>3, <1>6
  <2>2. \A m, n \in D : s[m] = s[n] => m = n
    BY <1>5, <1>6
  <2>. QED
    BY <2>1, <2>2, NoPlaceLeft
<1>. QED
  BY <1>1, <1>6, <1>7

\* There is such a list: everybody stands behind all who precede him.
LEMMA ListExists ==
  ASSUME NEW S, IsFiniteSet(S), NEW R, Orders(R, S)
  PROVE  \E s : Lists(s, R, S)
<1>1. PICK N \in Nat : N = Cardinality(S)
  BY FS_CardinalityType
<1> DEFINE Ahead(x) == {y \in S : <<y, x>> \in R}
           place == [x \in S |-> Cardinality(Ahead(x)) + 1]
<1>2. IsFiniteSet(1 .. N) /\ Cardinality(1 .. N) = N
  <2>1. 1 \in Int /\ N \in Int
    OBVIOUS
  <2>2. IsFiniteSet(1 .. N) /\ Cardinality(1 .. N) = IF 1 > N THEN 0 ELSE N - 1 + 1
    BY <2>1, FS_Interval
  <2>. QED
    BY <2>2
<1>3. ASSUME NEW x \in S
      PROVE  IsFiniteSet(Ahead(x)) /\ Cardinality(Ahead(x)) \in Nat /\ Cardinality(Ahead(x)) < N
  <2>1. IsFiniteSet(S \ {x}) /\ Cardinality(S \ {x}) = N - 1
    BY <1>1, FS_RemoveElement
  <2>2. Ahead(x) \in SUBSET (S \ {x})
    BY DEF Orders
  <2>3. IsFiniteSet(Ahead(x)) /\ Cardinality(Ahead(x)) <= N - 1
    BY <2>1, <2>2, FS_Subset
  <2>4. Cardinality(Ahead(x)) \in Nat
    BY <2>3, FS_CardinalityType
  <2>. QED
    BY <2>3, <2>4
<1>4. place \in [S -> 1 .. N]
  BY <1>3
<1>5. ASSUME NEW x \in S, NEW y \in S, <<x, y>> \in R PROVE place[x] < place[y]
  <2>1. IsFiniteSet(Ahead(x)) /\ Cardinality(Ahead(x)) \in Nat
    BY <1>3
  <2>2. x \notin Ahead(x)
    BY DEF Orders
  <2>3. /\ IsFiniteSet(Ahead(x) \cup {x})
        /\ Cardinality(Ahead(x) \cup {x}) = Cardinality(Ahead(x)) + 1
    BY <2>1, <2>2, FS_AddElement
  <2>4. Ahead(x) \cup {x} \in SUBSET Ahead(y)
    BY <1>5 DEF Orders
  <2>5. IsFiniteSet(Ahead(y)) /\ Cardinality(Ahead(y)) \in Nat
    BY <1>3
  <2>6. Cardinality(Ahead(x) \cup {x}) <= Cardinality(Ahead(y))
    BY <2>4, <2>5, FS_Subset
  <2>7. Cardinality(Ahead(x)) + 1 < Cardinality(Ahead(y)) + 1
    BY <2>1, <2>3, <2>5, <2>6
  <2>. QED
    BY <2>7
<1> HIDE DEF place
<1>6. ASSUME NEW x \in S, NEW y \in S, place[x] = place[y] PROVE x = y
  <2>1. place[x] \in Nat /\ place[y] \in Nat
    BY <1>4
  <2>2. <<x, y>> \notin R /\ <<y, x>> \notin R
    <3>1. \A n \in Nat : ~(n < n)
      OBVIOUS
    <3>2. ~(place[x] < place[x])
      BY <2>1, <3>1
    <3>3. ~(place[x] < place[y]) /\ ~(place[y] < place[x])
      BY <1>6, <3>2
    <3>. QED
      BY <1>5, <3>3
  <2>. QED
    BY <2>2 DEF Orders
<1>7. \A n \in 1 .. N : \E x \in S : place[x] = n
  <2>1. PICK D : D = 1 .. N
    OBVIOUS
  <2>2. IsFiniteSet(D) /\ Cardinality(S) = Cardinality(D) /\ place \in [S -> D]
    BY <1>1, <1>2, <1>4, <2>1
  <2>3. \A x, y \in S : place[x] = place[y] => x = y
    BY <1>6
  <2>4. \A n \in D : \E x \in S : place[x] = n
    BY <2>2, <2>3, NoPlaceLeft
  <2>. QED
    BY <2>1, <2>4
<1>8. PICK s : s = [n \in 1 .. N |-> CHOOSE x \in S : place[x] = n]
  OBVIOUS
<1>9. s \in [1 .. N -> S] /\ \A n \in 1 .. N : place[s[n]] = n
  BY <1>7, <1>8
<1>10. ASSUME NEW m \in 1 .. N, NEW n \in 1 .. N, m < n PROVE <<s[m], s[n]>> \in R
  <2>1. s[m] # s[n]
    BY <1>9, <1>10
  <2>2. <<s[n], s[m]>> \notin R
    <3>1. place[s[m]] = m /\ place[s[n]] = n
      BY <1>9
    <3>2. ~(place[s[n]] < place[s[m]])
      BY <1>10, <3>1
    <3>. QED
      BY <1>5, <1>9, <3>2
  <2>. QED
    BY <1>9, <2>1, <2>2 DEF Orders
<1>. QED
  BY <1>1, <1>9, <1>10 DEF Lists

--------------------------------------------------------------------------------
\* Answers that list memories.

\* The ranking compares any two memories: by overlap, and by age between equals.
LEMMA PrecedesOrders ==
  ASSUME NEW S \in SUBSET Ids, NEW query, IsFiniteSet(query)
  PROVE  Orders({p \in S \X S : Precedes(p[1], p[2], query)}, S)
<1> DEFINE Score(i) == IF query = NoQuery THEN 0 ELSE Cardinality(Overlap(i, query))
           R == {p \in S \X S : Precedes(p[1], p[2], query)}
<1>1. ASSUME NEW i \in S PROVE Score(i) \in Nat
  <2>1. Overlap(i, query) \in SUBSET query
    BY DEF Overlap
  <2>2. IsFiniteSet(Overlap(i, query))
    BY <2>1, FS_Subset
  <2>3. Cardinality(Overlap(i, query)) \in Nat
    BY <2>2, FS_CardinalityType
  <2>. QED
    BY <2>3
<1>2. \A i, j \in S : <<i, j>> \in R <=> Score(i) > Score(j) \/ (Score(i) = Score(j) /\ i > j)
  BY DEF Precedes
<1>3. S \subseteq Nat
  BY ConstantsAssumption DEF Ids
<1> HIDE DEF Score, R
<1>4. \A i \in S : <<i, i>> \notin R
  BY <1>1, <1>2, <1>3
<1>5. ASSUME NEW i \in S, NEW j \in S PROVE i = j \/ <<i, j>> \in R \/ <<j, i>> \in R
  <2>1. \A a, b \in Nat : a > b \/ b > a \/ a = b
    OBVIOUS
  <2>2. /\ Score(i) > Score(j) \/ Score(j) > Score(i) \/ Score(i) = Score(j)
        /\ i > j \/ j > i \/ i = j
    BY <1>1, <1>3, <2>1
  <2>. QED
    BY <1>2, <2>2
<1>6. \A i, j, k \in S : <<i, j>> \in R /\ <<j, k>> \in R => <<i, k>> \in R
  BY <1>1, <1>2, <1>3
<1>7. Orders(R, S)
  BY <1>4, <1>5, <1>6 DEF Orders
<1>. QED
  BY <1>7 DEF R

\* A ranking holds each memory of the set, in order.
LEMMA RankedIs ==
  ASSUME NEW S \in SUBSET Ids, NEW query, IsFiniteSet(query)
  PROVE  /\ IsFiniteSet(S) /\ Cardinality(S) \in Nat
         /\ Ranked(S, query) \in [1 .. Cardinality(S) -> S]
         /\ \A m, n \in 1 .. Cardinality(S) :
                m < n => Precedes(Ranked(S, query)[m], Ranked(S, query)[n], query)
         /\ \A i \in S : \E m \in 1 .. Cardinality(S) : Ranked(S, query)[m] = i
<1>1. IsFiniteSet(S) /\ Cardinality(S) \in Nat
  <2>1. MaxMemories \in Int /\ 1 \in Int
    BY ConstantsAssumption
  <2>2. IsFiniteSet(1 .. MaxMemories)
    BY <2>1, FS_Interval
  <2>3. IsFiniteSet(S)
    BY <2>2, FS_Subset DEF Ids
  <2>. QED
    BY <2>3, FS_CardinalityType
<1>2. PICK R : R = {p \in S \X S : Precedes(p[1], p[2], query)} /\ Orders(R, S)
  BY PrecedesOrders
<1>3. \A i, j \in S : <<i, j>> \in R <=> Precedes(i, j, query)
  BY <1>2
<1>4. PICK s : Lists(s, R, S)
  BY <1>1, <1>2, ListExists
<1>5. \A t \in [1 .. Cardinality(S) -> S] :
          Lists(t, R, S) <=> \A m, n \in 1 .. Cardinality(S) : m < n => Precedes(t[m], t[n], query)
  BY <1>3 DEF Lists
<1>6. \E t \in [1 .. Cardinality(S) -> S] :
          \A m, n \in 1 .. Cardinality(S) : m < n => Precedes(t[m], t[n], query)
  BY <1>4, <1>5 DEF Lists
<1>7. /\ Ranked(S, query) \in [1 .. Cardinality(S) -> S]
      /\ \A m, n \in 1 .. Cardinality(S) :
             m < n => Precedes(Ranked(S, query)[m], Ranked(S, query)[n], query)
  BY <1>6 DEF Ranked
<1>8. Lists(Ranked(S, query), R, S)
  BY <1>5, <1>7
<1>9. \A i \in S : \E m \in 1 .. Cardinality(S) : Ranked(S, query)[m] = i
  BY <1>1, <1>2, <1>8, ListsAll
<1>. QED
  BY <1>1, <1>7, <1>9

\* h answers with the first n of the memories S.
Recalls(h, S, query, n) ==
    /\ h \in Seq(S)
    /\ ToSet(h) = S \/ Len(h) = n
    /\ \A j, k \in DOMAIN h : j < k => Precedes(h[j], h[k], query)
    /\ \A i \in ToSet(h), j \in S \ ToSet(h) : Precedes(i, j, query)

\* What the cut leaves out comes after what it leaves in.
LEMMA FirstRecalls ==
  ASSUME NEW S \in SUBSET Ids, NEW query, IsFiniteSet(query), NEW n \in Nat
  PROVE  Recalls(FirstOf(Ranked(S, query), n), S, query, n)
<1>1. PICK s, N :
          /\ N \in Nat /\ s = Ranked(S, query) /\ N = Cardinality(S) /\ s \in [1 .. N -> S]
          /\ \A j, k \in 1 .. N : j < k => Precedes(s[j], s[k], query)
          /\ \A i \in S : \E j \in 1 .. N : s[j] = i
  <2>1. PICK s : s = Ranked(S, query)
    OBVIOUS
  <2>2. PICK N : N = Cardinality(S)
    OBVIOUS
  <2>3. N \in Nat /\ s \in [1 .. N -> S]
    BY <2>1, <2>2, RankedIs
  <2>4. \A j, k \in 1 .. N : j < k => Precedes(s[j], s[k], query)
    BY <2>1, <2>2, RankedIs
  <2>5. \A i \in S : \E j \in 1 .. N : s[j] = i
    BY <2>1, <2>2, RankedIs
  <2>. QED
    BY <2>1, <2>2, <2>3, <2>4, <2>5
<1>2. s \in Seq(S) /\ Len(s) = N
  BY <1>1
<1>3. PICK L \in Nat : L = (IF N < n THEN N ELSE n) /\ L <= N /\ (L = N \/ L = n)
  <2>1. \A a, b \in Nat : \E l \in Nat :
            l = (IF a < b THEN a ELSE b) /\ l <= a /\ (l = a \/ l = b)
    OBVIOUS
  <2>2. N \in Nat /\ n \in Nat
    BY <1>1
  <2>. QED
    BY <2>1, <2>2
<1>4. PICK h : h = SubSeq(s, 1, L) /\ h \in Seq(S) /\ Len(h) = L /\ \A k \in 1 .. L : h[k] = s[k]
  <2>1. \A k \in 1 .. L : s[k] \in S
    BY <1>1, <1>3
  <2>2. PICK h : h = SubSeq(s, 1, L)
    OBVIOUS
  <2>3. /\ h \in Seq(S) /\ Len(h) = IF 1 <= L THEN L - 1 + 1 ELSE 0
        /\ \A k \in 1 .. L - 1 + 1 : h[k] = s[1 + k - 1]
    BY <2>1, <2>2, SubSeqProperties
  <2>4. \A k \in 1 .. L : k \in 1 .. L - 1 + 1 /\ 1 + k - 1 = k
    OBVIOUS
  <2>5. Len(h) = L
    BY <2>3
  <2>6. \A k \in 1 .. L : h[k] = s[k]
    BY <2>3, <2>4
  <2>. QED
    BY <2>2, <2>3, <2>5, <2>6
<1>5. FirstOf(Ranked(S, query), n) = h
  BY <1>1, <1>2, <1>3, <1>4 DEF FirstOf
<1>6. DOMAIN h = 1 .. L /\ ToSet(h) = {s[k] : k \in 1 .. L}
  <2>1. DOMAIN h = 1 .. L
    BY <1>4, LenProperties
  <2>2. ToSet(h) = {h[k] : k \in 1 .. L}
    BY <2>1 DEF ToSet
  <2>. QED
    BY <1>4, <2>1, <2>2
<1>7. 1 .. L \subseteq 1 .. N
  BY <1>3
<1>8. \A j, k \in DOMAIN h : j < k => Precedes(h[j], h[k], query)
  BY <1>1, <1>4, <1>6, <1>7
<1>9. ToSet(h) = S \/ Len(h) = n
  <2>1. CASE L = N
    BY <1>1, <1>6, <2>1
  <2>2. CASE L = n
    BY <1>4, <2>2
  <2>. QED
    BY <1>3, <2>1, <2>2
<1>10. ASSUME NEW i \in ToSet(h), NEW j \in S \ ToSet(h) PROVE Precedes(i, j, query)
  <2>1. PICK k \in 1 .. L : i = s[k]
    BY <1>6
  <2>2. PICK m \in 1 .. N : j = s[m]
    BY <1>1
  <2>3. m \notin 1 .. L
    BY <1>6, <2>2
  <2>4. k \in 1 .. N /\ k < m
    BY <1>7, <2>1, <2>2, <2>3
  <2>. QED
    BY <1>1, <2>1, <2>2, <2>4
<1>. QED
  BY <1>4, <1>5, <1>8, <1>9, <1>10 DEF Recalls

--------------------------------------------------------------------------------
\* The inductive invariant.

\* The memories are those of owners, under their stripped keys, and an id that has been
\* given, deleted or not, is not given again.
Table ==
    /\ rows \in [Ids -> Memory \cup {NoRow}]
    /\ nextId \in 1 .. MaxMemories + 1
    /\ deleted \in [Ids -> {0, 1}]
    /\ faults \in 0 .. MaxFaults
    /\ \A i \in Ids : rows[i] # NoRow =>
           /\ rows[i].owner # Blank /\ Strip[rows[i].owner] = rows[i].owner
           /\ i < nextId /\ deleted[i] = 0
    /\ \A i \in Ids : deleted[i] = 1 => i < nextId

\* A run is bound to the owner its request names.
Scoped(r) ==
    /\ request[r].at \in {"run", "run_delete"} => bound[r] = Identity(request[r].sent)
    /\ request[r].at = "api_delete" => Strip[request[r].sent] # Blank
    /\ request[r].at \in {"run_delete", "api_delete"} => request[r].id \in Ids

Open ==
    /\ request \in [Requests -> Request]
    /\ bound \in [Requests -> Written]
    /\ \A r \in Requests : Scoped(r)

\* What the last answer names exists, unless it names what was deleted.
Reply ==
    /\ answer.op \in Operations \cup {"none"} /\ answer.sent \in Written
    /\ answer.code \in Codes /\ answer.hits \in Seq(Ids)
    /\ OwnersKeptApart /\ RecallsTheBest
    /\ answer.op # "delete" => \A i \in ToSet(answer.hits) : rows[i] # NoRow

IInv == Table /\ Open /\ Reply

--------------------------------------------------------------------------------
\* Keys and rows.

\* An identity is a stripped key that is not blank.
LEMMA IdentityIs ==
  ASSUME NEW k \in Written
  PROVE  /\ Identity(k) \in Written /\ Strip[k] \in Written
         /\ Identity(k) # Blank /\ Strip[Identity(k)] = Identity(k)
         /\ Strip[k] # Blank => Identity(k) = Strip[k]
  BY ConstantsAssumption DEF Identity

\* A memory is not the row that is not there.
LEMMA MemoryIsThere ==
  ASSUME NEW m \in Memory
  PROVE  m # NoRow /\ m.owner \in Written /\ m.type \in MemoryTypes /\ m.content \in Contents
<1>1. m.type \in MemoryTypes /\ m.owner \in Written /\ m.content \in Contents
  BY DEF Memory
<1>2. NoRow.type = Unlisted
  BY DEF NoRow
<1>. QED
  BY <1>1, <1>2, ConstantsAssumption

\* What a failing transaction counts.
LEMMA FaultCounts ==
  ASSUME faults \in 0 .. MaxFaults, Fault
  PROVE  faults' \in 0 .. MaxFaults
  BY ConstantsAssumption DEF Fault

\* The table after a step that leaves it alone.
LEMMA TableStays ==
  ASSUME Table, UNCHANGED <<rows, nextId, deleted>>, faults' \in 0 .. MaxFaults
  PROVE  Table'
  BY DEF Table

\* The table after an INSERT, at an id that no memory ever had.
LEMMA TableInserts ==
  ASSUME Table, NEW owner \in Written, owner # Blank, Strip[owner] = owner,
         NEW type, NEW content, Verdict(type, content) = "ok", content \in Contents,
         nextId \in Ids, Inserted(owner, type, content),
         deleted' = deleted, faults' \in 0 .. MaxFaults
  PROVE  /\ Table' /\ rows[nextId] = NoRow
         /\ rows'[nextId] # NoRow /\ rows'[nextId].owner = owner
         /\ \A i \in Ids \ {nextId} : rows'[i] = rows[i]
<1>1. type \in MemoryTypes /\ content \in Contents \ Secrets
  BY DEF Verdict
<1>2. PICK m : m = [owner |-> owner, type |-> type, content |-> content]
  OBVIOUS
<1>3. m \in Memory /\ m.owner = owner
  BY <1>1, <1>2 DEF Memory
<1>4. m # NoRow
  BY <1>3, MemoryIsThere
<1>5. rows' = [rows EXCEPT ![nextId] = m] /\ nextId' = nextId + 1
  BY <1>2 DEF Inserted
<1>6. nextId \in Nat /\ nextId <= MaxMemories /\ MaxMemories \in Nat /\ Ids \subseteq Nat
  BY ConstantsAssumption DEF Ids
<1>7. ~(nextId < nextId)
  BY <1>6
<1>8. rows[nextId] = NoRow
  BY <1>7 DEF Table
<1>9. rows' \in [Ids -> Memory \cup {NoRow}] /\ nextId' \in 1 .. MaxMemories + 1
  BY <1>3, <1>5, <1>6 DEF Table
<1>10. rows'[nextId] = m /\ \A i \in Ids \ {nextId} : rows'[i] = rows[i]
  BY <1>5 DEF Table
<1>11. deleted[nextId] = 0
  BY <1>7 DEF Table
<1>12. ASSUME NEW i \in Ids, rows'[i] # NoRow
       PROVE  /\ rows'[i].owner # Blank /\ Strip[rows'[i].owner] = rows'[i].owner
              /\ i < nextId' /\ deleted'[i] = 0
  <2>1. CASE i = nextId
    BY <1>3, <1>5, <1>6, <1>10, <1>11, <2>1
  <2>2. CASE i # nextId
    <3>1. rows[i] # NoRow /\ rows'[i] = rows[i]
      BY <1>10, <1>12, <2>2
    <3>2. i < nextId
      BY <3>1 DEF Table
    <3>3. i < nextId'
      BY <1>5, <1>6, <3>2
    <3>. QED
      BY <3>1, <3>3 DEF Table
  <2>. QED
    BY <2>1, <2>2
<1>13. ASSUME NEW i \in Ids, deleted'[i] = 1 PROVE i < nextId'
  <2>1. i < nextId
    BY <1>13 DEF Table
  <2>. QED
    BY <1>5, <1>6, <2>1
<1>. QED
  BY <1>3, <1>4, <1>8, <1>9, <1>10, <1>12, <1>13 DEF Table

\* The table after a DELETE, whether its row count was reported or not.
LEMMA TableRemoves ==
  ASSUME Table, NEW i \in Ids, rows' = [rows EXCEPT ![i] = NoRow], nextId' = nextId,
         \/ deleted' = deleted
         \/ rows[i] # NoRow /\ deleted' = [deleted EXCEPT ![i] = @ + 1],
         faults' \in 0 .. MaxFaults
  PROVE  Table' /\ rows'[i] = NoRow /\ \A j \in Ids \ {i} : rows'[j] = rows[j]
<1>1. rows'[i] = NoRow /\ (\A j \in Ids \ {i} : rows'[j] = rows[j])
      /\ rows' \in [Ids -> Memory \cup {NoRow}]
  BY DEF Table
<1>2. /\ deleted' \in [Ids -> {0, 1}]
      /\ \A j \in Ids \ {i} : deleted'[j] = deleted[j]
      /\ deleted'[i] = 1 => i < nextId
  <2>1. CASE deleted' = deleted
    BY <2>1 DEF Table
  <2>2. CASE rows[i] # NoRow /\ deleted' = [deleted EXCEPT ![i] = @ + 1]
    <3>1. deleted[i] = 0 /\ i < nextId
      BY <2>2 DEF Table
    <3>2. deleted' = [deleted EXCEPT ![i] = 1]
      BY <2>2, <3>1 DEF Table
    <3>. QED
      BY <3>1, <3>2 DEF Table
  <2>. QED
    BY <2>1, <2>2
<1>. QED
  BY <1>1, <1>2 DEF Table

\* The table after an UPDATE.
LEMMA TableUpdates ==
  ASSUME Table, NEW i \in Ids, rows[i] # NoRow, NEW type, NEW content \in Contents,
         Verdict(type, content) = "ok",
         rows' = [rows EXCEPT ![i].type = type, ![i].content = content],
         UNCHANGED <<nextId, deleted, faults>>
  PROVE  /\ Table' /\ rows'[i] # NoRow /\ rows'[i].owner = rows[i].owner
         /\ \A j \in Ids \ {i} : rows'[j] = rows[j]
<1>1. type \in MemoryTypes /\ content \in Contents \ Secrets
  BY DEF Verdict
<1>2. rows[i] \in Memory
  BY DEF Table
<1>3. PICK m : m = [[rows[i] EXCEPT !.type = type] EXCEPT !.content = content]
  OBVIOUS
<1>4. m \in Memory /\ m.owner = rows[i].owner
  BY <1>1, <1>2, <1>3 DEF Memory
<1>5. m # NoRow
  BY <1>4, MemoryIsThere
<1>6. rows' = [rows EXCEPT ![i] = m]
  BY <1>3 DEF Table
<1>7. /\ rows' \in [Ids -> Memory \cup {NoRow}] /\ rows'[i] = m
      /\ \A j \in Ids \ {i} : rows'[j] = rows[j]
  BY <1>4, <1>6 DEF Table
<1>8. ASSUME NEW j \in Ids, rows'[j] # NoRow
      PROVE  /\ rows'[j].owner # Blank /\ Strip[rows'[j].owner] = rows'[j].owner
             /\ j < nextId' /\ deleted'[j] = 0
  <2>1. rows[j] # NoRow /\ rows'[j].owner = rows[j].owner
    BY <1>4, <1>7, <1>8
  <2>. QED
    BY <2>1 DEF Table
<1>9. Table'
  BY <1>7, <1>8 DEF Table
<1>. QED
  BY <1>4, <1>5, <1>7, <1>9

--------------------------------------------------------------------------------
\* Answers.

LEMMA ToldIs ==
  ASSUME NEW op, NEW k, NEW code, NEW hits, Told(op, k, code, hits)
  PROVE  answer'.op = op /\ answer'.sent = k /\ answer'.code = code /\ answer'.hits = hits
  BY DEF Told, NoAnswer

LEMMA ToSetOfFew ==
  ToSet(<< >>) = {} /\ \A i : ToSet(<<i>>) = {i} /\ <<i>> \in Seq({i})
  BY DEF ToSet

\* An answer that names no memory and is not that of a search.
LEMMA NamesNone ==
  ASSUME answer'.op \in Operations \cup {"none"}, answer'.sent \in Written,
         answer'.code \in Codes, answer'.hits = << >>,
         answer'.op = "none" \/ answer'.code # "ok"
  PROVE  Reply'
<1>1. ToSet(answer'.hits) = {} /\ answer'.hits \in Seq(Ids)
  BY ToSetOfFew
<1>2. OwnersKeptApart'
  BY <1>1 DEF OwnersKeptApart
<1>3. RecallsTheBest'
  BY DEF RecallsTheBest
<1>. QED
  BY <1>1, <1>2, <1>3 DEF Reply

LEMMA Refused ==
  ASSUME NEW op \in Operations, NEW k \in Written, NEW code \in Codes, code # "ok",
         Told(op, k, code, << >>)
  PROVE  Reply'
  BY ToldIs, NamesNone

LEMMA Silent ==
  ASSUME answer' = NoAnswer
  PROVE  Reply'
<1>1. /\ answer'.op = "none" /\ answer'.sent = Blank /\ answer'.code = "ok" /\ answer'.hits = << >>
  BY DEF NoAnswer
<1>2. Blank \in Written /\ "ok" \in Codes
  BY ConstantsAssumption DEF Codes
<1>. QED
  BY <1>1, <1>2, NamesNone

\* An answer that names a memory of the asker's.
LEMMA NamesOne ==
  ASSUME NEW op \in {"save", "create", "get", "update"}, NEW k \in Written, NEW i \in Ids,
         Told(op, k, "ok", <<i>>), rows'[i] # NoRow, rows'[i].owner = Identity(k)
  PROVE  Reply'
<1>1. /\ answer'.op = op /\ answer'.sent = k /\ answer'.code = "ok"
      /\ answer'.hits = <<i>> /\ ToSet(answer'.hits) = {i} /\ answer'.hits \in Seq(Ids)
  <2>1. <<i>> \in Seq(Ids) /\ ToSet(<<i>>) = {i}
    BY ToSetOfFew
  <2>. QED
    BY <2>1, ToldIs
<1>2. OwnersKeptApart'
  BY <1>1 DEF OwnersKeptApart
<1>3. RecallsTheBest'
  BY <1>1 DEF RecallsTheBest
<1>. QED
  BY <1>1, <1>2, <1>3 DEF Reply, Operations, Codes

LEMMA NamesDeleted ==
  ASSUME NEW k \in Written, NEW i \in Ids, Told("delete", k, "ok", <<i>>), rows'[i] = NoRow
  PROVE  Reply'
<1>1. /\ answer'.op = "delete" /\ answer'.sent = k /\ answer'.code = "ok"
      /\ answer'.hits = <<i>> /\ ToSet(answer'.hits) = {i} /\ answer'.hits \in Seq(Ids)
  <2>1. <<i>> \in Seq(Ids) /\ ToSet(<<i>>) = {i}
    BY ToSetOfFew
  <2>. QED
    BY <2>1, ToldIs
<1>2. OwnersKeptApart'
  BY <1>1 DEF OwnersKeptApart
<1>3. RecallsTheBest'
  BY <1>1 DEF RecallsTheBest
<1>. QED
  BY <1>1, <1>2, <1>3 DEF Reply, Operations, Codes

\* Whose memories a search is for.
Asker(op, k) == IF op = "api_search" THEN k ELSE Identity(k)

\* What a search of op may name.
Matching(op, k, query, type) ==
    {i \in Ids : /\ Owned(i, Asker(op, k))
                 /\ type \in {NoType, rows[i].type}
                 /\ query = NoQuery \/ Overlap(i, query) # {}}

\* An answer that recalls the first of what matches is the answer it should be.
LEMMA NamesTheBest ==
  ASSUME Table, NEW op \in {"context", "search", "api_search", "list"}, NEW k \in Written,
         NEW query, query # NoQuery => op # "list", NEW type, NEW limit \in Nat, NEW n \in Nat,
         NEW hits, Recalls(hits, Matching(op, k, query, type), query, n),
         LET cap == IF op = "list" THEN ListCap ELSE SearchCap
         IN  n = IF limit > cap THEN cap ELSE limit,
         Searched(op, k, hits, query, type, limit), UNCHANGED rows
  PROVE  Reply'
<1> DEFINE S == Matching(op, k, query, type)
<1>1. /\ answer'.op = op /\ answer'.sent = k /\ answer'.code = "ok" /\ answer'.hits = hits
      /\ answer'.query = query /\ answer'.type = type /\ answer'.limit = limit
  BY DEF Searched
<1>2. hits \in Seq(S) /\ S \subseteq Ids
  BY DEF Recalls, Matching
<1>3. hits \in Seq(Ids) /\ ToSet(hits) \subseteq S
  <2>1. \A k1 \in DOMAIN hits : hits[k1] \in S
    BY <1>2, LenProperties, ElementOfSeq
  <2>2. hits \in Seq(Ids)
    BY <1>2
  <2>. QED
    BY <2>1, <2>2 DEF ToSet
<1>4. ASSUME NEW i \in ToSet(hits) PROVE rows[i] # NoRow /\ rows[i].owner = Identity(k)
  <2>1. i \in Ids /\ rows[i] # NoRow /\ rows[i].owner = Asker(op, k)
    BY <1>3 DEF Matching, Owned
  <2>2. rows[i].owner # Blank /\ Strip[rows[i].owner] = rows[i].owner
    BY <2>1 DEF Table
  <2>3. op = "api_search" => Identity(k) = k
    BY <2>1, <2>2, IdentityIs DEF Asker
  <2>. QED
    BY <2>1, <2>3 DEF Asker
<1>5. OwnersKeptApart'
  BY <1>1, <1>4 DEF OwnersKeptApart
<1>6. n = IF limit < (IF op = "list" THEN ListCap ELSE SearchCap)
          THEN limit ELSE IF op = "list" THEN ListCap ELSE SearchCap
  <2>1. ListCap \in Nat /\ SearchCap \in Nat
    BY ConstantsAssumption
  <2>. QED
    BY <2>1
<1>7. ASSUME NEW i, NEW j, i \in S, j \in S
      PROVE  Precedes(i, j, query)
                => IF query = NoQuery THEN i > j ELSE Precedes(i, j, query)
  BY DEF Precedes
<1>8. RecallsTheBest'
  <2>1. /\ ToSet(hits) \subseteq S
        /\ ToSet(hits) = S \/ Len(hits) = n
    BY <1>3 DEF Recalls
  <2>2. \A j, m \in DOMAIN hits :
            j < m => IF query = NoQuery THEN hits[j] > hits[m]
                     ELSE Precedes(hits[j], hits[m], query)
    <3>1. \A j \in DOMAIN hits : hits[j] \in S
      BY <1>3 DEF ToSet
    <3>2. \A j, m \in DOMAIN hits : j < m => Precedes(hits[j], hits[m], query)
      BY DEF Recalls
    <3>. QED
      BY <1>7, <3>1, <3>2
  <2>3. \A i \in ToSet(hits), j \in S \ ToSet(hits) :
            IF query = NoQuery THEN i > j ELSE Precedes(i, j, query)
    <3>1. \A i \in ToSet(hits), j \in S \ ToSet(hits) : Precedes(i, j, query)
      BY DEF Recalls
    <3>. QED
      BY <1>3, <1>7, <3>1
  <2>4. \A i : Overlap(i, query)' = Overlap(i, query)
    BY DEF Overlap
  <2>5. \A i, j : Precedes(i, j, query)' <=> Precedes(i, j, query)
    BY <2>4 DEF Precedes
  <2>6. S = {i \in Ids :
                /\ Owned(i, Asker(op, k))'
                /\ type \in {NoType, rows'[i].type}
                /\ query = NoQuery \/ Overlap(i, query)' # {}}
    BY <2>4 DEF Matching, Owned
  <2> HIDE DEF S
  <2>. QED
    BY <1>1, <1>6, <2>1, <2>2, <2>3, <2>5, <2>6 DEF RecallsTheBest, Asker
<1>. QED
  BY <1>1, <1>3, <1>4, <1>5, <1>8 DEF Reply, Operations, Codes

\* search_memories answers with the first of what matches.
LEMMA SearchIsReply ==
  ASSUME Table, NEW op \in {"context", "search", "api_search"}, NEW k \in Written,
         NEW query \in Queries, NEW type, NEW limit \in Nat,
         Searched(op, k, SearchMemories(Asker(op, k), query, type, limit), query, type, limit),
         UNCHANGED rows
  PROVE  Reply'
<1> DEFINE n == IF limit > SearchCap THEN SearchCap ELSE limit
           S == Matching(op, k, query, type)
<1>1. n \in Nat
  BY ConstantsAssumption
<1>2. S = Scored(OwnerMemories(Asker(op, k), type), query)
  BY DEF Matching, Scored, OwnerMemories
<1>3. SearchMemories(Asker(op, k), query, type, limit) = FirstOf(Ranked(S, query), n)
  BY <1>2 DEF SearchMemories
<1>4. S \in SUBSET Ids /\ IsFiniteSet(query)
  BY ConstantsAssumption DEF Matching
<1>5. Recalls(FirstOf(Ranked(S, query), n), S, query, n)
  BY <1>1, <1>4, FirstRecalls
<1> HIDE DEF S
<1>6. Recalls(SearchMemories(Asker(op, k), query, type, limit), S, query, n)
  BY <1>3, <1>5
<1>. QED
  BY <1>1, <1>6, NamesTheBest DEF S

\* list_memories answers with the latest.
LEMMA ListIsReply ==
  ASSUME Table, NEW k \in Written, Strip[k] # Blank, NEW type, NEW limit \in Nat,
         Searched("list", k, ListOf(Strip[k], type, limit), NoQuery, type, limit),
         UNCHANGED rows
  PROVE  Reply'
<1> DEFINE n == IF limit > ListCap THEN ListCap ELSE limit
           S == Matching("list", k, NoQuery, type)
<1>1. n \in Nat
  BY ConstantsAssumption
<1>2. S = OwnerMemories(Strip[k], type)
  BY IdentityIs DEF Matching, OwnerMemories, Asker
<1>3. ListOf(Strip[k], type, limit) = FirstOf(Ranked(S, NoQuery), n)
  BY <1>2 DEF ListOf
<1>4. S \in SUBSET Ids /\ IsFiniteSet(NoQuery)
  BY FS_Singleton DEF Matching, NoQuery
<1>5. Recalls(FirstOf(Ranked(S, NoQuery), n), S, NoQuery, n)
  BY <1>1, <1>4, FirstRecalls
<1> HIDE DEF S
<1>6. Recalls(ListOf(Strip[k], type, limit), S, NoQuery, n)
  BY <1>3, <1>5
<1>. QED
  BY <1>1, <1>6, NamesTheBest DEF S

--------------------------------------------------------------------------------
\* The steps.

\* What a step did to the memories of others: nothing.
ChangedByOwner ==
    \A i \in Ids : rows'[i] # rows[i] =>
        \A row \in {rows[i], rows'[i]} \ {NoRow} : row.owner = Identity(answer'.sent)

LEMMA Unchanged ==
  ASSUME UNCHANGED rows
  PROVE  ChangedByOwner
  BY DEF ChangedByOwner

LEMMA UnavailableKeeps ==
  ASSUME Table, NEW op \in Operations, NEW k \in Written, Unavailable(op, k),
         UNCHANGED <<nextId, deleted>>
  PROVE  Table' /\ Reply' /\ ChangedByOwner
<1>1. Fault /\ Told(op, k, "unavailable", << >>) /\ UNCHANGED rows
  BY DEF Unavailable
<1>2. faults' \in 0 .. MaxFaults
  BY <1>1, FaultCounts DEF Table
<1>3. Table'
  BY <1>1, <1>2, TableStays
<1>4. "unavailable" \in Codes /\ "unavailable" # "ok"
  BY DEF Codes
<1>. QED
  BY <1>1, <1>3, <1>4, Refused, Unchanged

LEMMA RefusedKeeps ==
  ASSUME Table, NEW op \in Operations, NEW k \in Written, NEW code \in Codes, code # "ok",
         Told(op, k, code, << >>), UNCHANGED <<rows, nextId, deleted, faults>>
  PROVE  Table' /\ Reply' /\ ChangedByOwner
<1>1. Table'
  BY TableStays DEF Table
<1>. QED
  BY <1>1, Refused, Unchanged

\* create_memory stores under the identity of the caller.
LEMMA CreateKeeps ==
  ASSUME Table, NEW op \in {"save", "create"}, NEW k \in Written, NEW owner,
         Strip[owner] = Identity(k), NEW type, NEW content \in Contents,
         Create(op, k, owner, type, content), deleted' = deleted
  PROVE  Table' /\ Reply' /\ ChangedByOwner
<1>1. op \in Operations
  BY DEF Operations
<1>2. CASE Verdict(type, content) # "ok"
  <2>1. Verdict(type, content) \in Codes
    BY DEF Verdict, Codes
  <2>2. Told(op, k, Verdict(type, content), << >>) /\ UNCHANGED <<rows, nextId, faults>>
    BY <1>2 DEF Create
  <2>. QED
    BY <1>1, <1>2, <2>1, <2>2, RefusedKeeps
<1>3. ASSUME Verdict(type, content) = "ok", nextId \in Ids,
             Inserted(Strip[owner], type, content), faults' \in 0 .. MaxFaults,
             \/ Told(op, k, "ok", <<nextId>>)
             \/ Told(op, k, "unavailable", << >>)
      PROVE  Table' /\ Reply' /\ ChangedByOwner
  <2>1. PICK o \in Written : o = Strip[owner] /\ o = Identity(k) /\ o # Blank /\ Strip[o] = o
    BY IdentityIs
  <2>2. /\ Table' /\ rows[nextId] = NoRow
        /\ rows'[nextId] # NoRow /\ rows'[nextId].owner = Identity(k)
        /\ \A i \in Ids \ {nextId} : rows'[i] = rows[i]
    <3>1. Inserted(o, type, content)
      BY <1>3, <2>1
    <3>2. /\ Table' /\ rows[nextId] = NoRow
          /\ rows'[nextId] # NoRow /\ rows'[nextId].owner = o
          /\ \A i \in Ids \ {nextId} : rows'[i] = rows[i]
      BY <1>3, <2>1, <3>1, TableInserts
    <3>. QED
      BY <2>1, <3>2
  <2>3. answer'.sent = k
    BY <1>3, ToldIs
  <2>4. ChangedByOwner
    BY <2>2, <2>3 DEF ChangedByOwner
  <2>5. CASE Told(op, k, "ok", <<nextId>>)
    <3>1. op \in {"save", "create", "get", "update"}
      OBVIOUS
    <3>2. PICK i \in Ids : i = nextId
      BY <1>3
    <3>3. Reply'
      BY <2>2, <2>5, <3>1, <3>2, NamesOne
    <3>. QED
      BY <2>2, <2>4, <3>3
  <2>6. CASE Told(op, k, "unavailable", << >>)
    <3>1. "unavailable" \in Codes /\ "unavailable" # "ok"
      BY DEF Codes
    <3>. QED
      BY <1>1, <2>2, <2>4, <2>6, <3>1, Refused
  <2>. QED
    BY <1>3, <2>5, <2>6
<1>4. CASE Verdict(type, content) = "ok"
  <2>1. /\ nextId \in Ids
        /\ \/ Inserted(Strip[owner], type, content) /\ Told(op, k, "ok", <<nextId>>) /\ UNCHANGED faults
           \/ Unavailable(op, k) /\ UNCHANGED nextId
           \/ Inserted(Strip[owner], type, content) /\ Fault /\ Told(op, k, "unavailable", << >>)
    BY <1>4 DEF Create
  <2>2. CASE Inserted(Strip[owner], type, content) /\ Told(op, k, "ok", <<nextId>>) /\ UNCHANGED faults
    <3>1. faults' \in 0 .. MaxFaults
      BY <2>2 DEF Table
    <3>. QED
      BY <1>3, <1>4, <2>1, <2>2, <3>1
  <2>3. CASE Unavailable(op, k) /\ UNCHANGED nextId
    BY <1>1, <2>3, UnavailableKeeps
  <2>4. CASE Inserted(Strip[owner], type, content) /\ Fault /\ Told(op, k, "unavailable", << >>)
    <3>1. faults' \in 0 .. MaxFaults
      BY <2>4, FaultCounts DEF Table
    <3>. QED
      BY <1>3, <1>4, <2>1, <2>4, <3>1
  <2>. QED
    BY <2>1, <2>2, <2>3, <2>4
<1>. QED
  BY <1>2, <1>4

\* A search keeps the table and is answered well.
LEMMA SearchKeeps ==
  ASSUME Table, NEW op \in {"context", "search", "api_search"}, NEW k \in Written,
         NEW query \in Queries, NEW type, NEW limit \in Nat,
         Searched(op, k, SearchMemories(Asker(op, k), query, type, limit), query, type, limit),
         UNCHANGED <<rows, nextId, deleted, faults>>
  PROVE  Table' /\ Reply' /\ ChangedByOwner
<1>1. Table'
  BY TableStays DEF Table
<1>2. Reply'
  BY SearchIsReply
<1>. QED
  BY <1>1, <1>2, Unchanged

\* The requests after a step that leaves them alone.
LEMMA OpenStays ==
  ASSUME Open, UNCHANGED <<request, bound>>
  PROVE  Open'
  BY DEF Open, Scoped

\* The requests after a step of r.
LEMMA OpenMoves ==
  ASSUME Open, NEW r \in Requests, NEW job \in Request, NEW owner \in Written,
         request' = [request EXCEPT ![r] = job], bound' = [bound EXCEPT ![r] = owner],
         job.at \in {"run", "run_delete"} => owner = Identity(job.sent),
         job.at = "api_delete" => Strip[job.sent] # Blank,
         job.at \in {"run_delete", "api_delete"} => job.id \in Ids
  PROVE  Open'
<1>1. request'[r] = job /\ bound'[r] = owner
  BY DEF Open
<1>2. \A s \in Requests \ {r} : request'[s] = request[s] /\ bound'[s] = bound[s]
  BY DEF Open
<1>3. request' \in [Requests -> Request] /\ bound' \in [Requests -> Written]
  BY DEF Open
<1>4. Scoped(r)'
  BY <1>1 DEF Scoped
<1>5. ASSUME NEW s \in Requests \ {r} PROVE Scoped(s)'
  <2>1. Scoped(s)
    BY DEF Open
  <2>. QED
    BY <1>2, <2>1 DEF Scoped
<1>. QED
  BY <1>3, <1>4, <1>5 DEF Open

LEMMA StartRunKeeps ==
  ASSUME IInv, NEW r \in Requests, NEW k \in Written, NEW query \in Queries,
         StartRun(r, k, query)
  PROVE  IInv' /\ ChangedByOwner
<1>1. PICK job : job = [at |-> "run", sent |-> k, id |-> 0]
  OBVIOUS
<1>2. Open'
  <2>1. job \in Request
    BY <1>1 DEF Request
  <2>2. PICK o \in Written : o = Identity(k)
    BY IdentityIs
  <2>3. /\ request' = [request EXCEPT ![r] = job]
        /\ bound' = [bound EXCEPT ![r] = o]
    BY <1>1, <2>2 DEF StartRun, Bound, RunIdentity
  <2>4. /\ job.at \in {"run", "run_delete"} => o = Identity(job.sent)
        /\ job.at = "api_delete" => Strip[job.sent] # Blank
        /\ job.at \in {"run_delete", "api_delete"} => job.id \in Ids
    BY <1>1, <2>2
  <2>5. Open
    BY DEF IInv
  <2>. QED
    BY <2>1, <2>3, <2>4, <2>5, OpenMoves
<1>3. Table' /\ Reply' /\ ChangedByOwner
  <2>1. Table /\ UNCHANGED <<nextId, deleted>>
    BY DEF IInv, StartRun
  <2>2. CASE /\ Searched("context", k, SearchMemories(RunIdentity(k), query, NoType, ContextLimit),
                         query, NoType, ContextLimit)
             /\ UNCHANGED <<rows, faults>>
    <3>1. RunIdentity(k) = Asker("context", k) /\ ContextLimit \in Nat
      BY ConstantsAssumption DEF RunIdentity, Asker
    <3>2. Searched("context", k, SearchMemories(Asker("context", k), query, NoType, ContextLimit),
                   query, NoType, ContextLimit)
      BY <2>2, <3>1
    <3>. QED
      BY <2>1, <2>2, <3>1, <3>2, SearchKeeps
  <2>3. CASE Unavailable("context", k)
    <3>1. "context" \in Operations
      BY DEF Operations
    <3>. QED
      BY <2>1, <2>3, <3>1, UnavailableKeeps
  <2>. QED
    BY <2>2, <2>3 DEF StartRun
<1>. QED
  BY <1>2, <1>3 DEF IInv

\* A run asks in the name of the owner it is bound to.
LEMMA RunAsks ==
  ASSUME IInv, NEW r \in Requests, request[r].at \in {"run", "run_delete"}
  PROVE  /\ request[r].sent \in Written /\ bound[r] = Identity(request[r].sent)
         /\ Strip[bound[r]] = Identity(request[r].sent)
<1>1. request[r].sent \in Written
  BY DEF IInv, Open, Request
<1>2. bound[r] = Identity(request[r].sent)
  BY DEF IInv, Open, Scoped
<1>. QED
  BY <1>1, <1>2, IdentityIs

LEMMA SaveMemoryKeeps ==
  ASSUME IInv, NEW r \in Requests, NEW type, NEW content \in Contents,
         SaveMemory(r, type, content)
  PROVE  IInv' /\ ChangedByOwner
<1>1. request[r].at = "run" /\ Create("save", request[r].sent, bound[r], type, content)
      /\ UNCHANGED <<request, bound, deleted>>
  BY DEF SaveMemory
<1>2. request[r].sent \in Written /\ Strip[bound[r]] = Identity(request[r].sent)
  BY <1>1, RunAsks
<1>3. Table' /\ Reply' /\ ChangedByOwner
  BY <1>1, <1>2, CreateKeeps DEF IInv
<1>4. Open'
  BY <1>1, OpenStays DEF IInv
<1>. QED
  BY <1>3, <1>4 DEF IInv

LEMMA SearchMemoryKeeps ==
  ASSUME IInv, NEW r \in Requests, NEW query \in Queries, NEW type, SearchMemory(r, query, type)
  PROVE  IInv' /\ ChangedByOwner
<1> DEFINE k == request[r].sent
<1>1. request[r].at = "run" /\ UNCHANGED <<nextId, request, bound, deleted>>
  BY DEF SearchMemory
<1>2. k \in Written /\ bound[r] = Asker("search", k)
  BY <1>1, RunAsks DEF Asker
<1>3. "search" \in Operations /\ "invalid" \in Codes /\ "invalid" # "ok" /\ ToolLimit \in Nat
  BY ConstantsAssumption DEF Operations, Codes
<1>4. Table
  BY DEF IInv
<1>5. Table' /\ Reply' /\ ChangedByOwner
  <2>1. CASE /\ Searched("search", k, SearchMemories(bound[r], query, type, ToolLimit),
                         query, type, ToolLimit)
             /\ UNCHANGED <<rows, faults>>
    <3>1. Searched("search", k, SearchMemories(Asker("search", k), query, type, ToolLimit),
                   query, type, ToolLimit)
      BY <1>2, <2>1
    <3>. QED
      BY <1>1, <1>2, <1>3, <1>4, <2>1, <3>1, SearchKeeps
  <2>2. CASE Unavailable("search", k)
    BY <1>1, <1>2, <1>3, <1>4, <2>2, UnavailableKeeps
  <2>3. CASE Told("search", k, "invalid", << >>) /\ UNCHANGED <<rows, faults>>
    BY <1>1, <1>2, <1>3, <1>4, <2>3, RefusedKeeps
  <2>. QED
    BY <2>1, <2>2, <2>3 DEF SearchMemory
<1>6. Open'
  BY <1>1, OpenStays DEF IInv
<1>. QED
  BY <1>5, <1>6 DEF IInv

\* Nothing is open: the idle request is a request, of the default owner.
LEMMA IdleIs ==
  /\ Idle \in Request /\ Idle.at = "idle" /\ Default \in Written
  BY ConstantsAssumption DEF Idle, Request

LEMMA EndRunKeeps ==
  ASSUME IInv, NEW r \in Requests, EndRun(r)
  PROVE  IInv' /\ ChangedByOwner
<1>1. /\ request' = [request EXCEPT ![r] = Idle] /\ bound' = [bound EXCEPT ![r] = Default]
      /\ answer' = NoAnswer /\ UNCHANGED <<rows, nextId, deleted, faults>>
  BY DEF EndRun
<1>2. Open'
  <2>1. /\ ~(Idle.at \in {"run", "run_delete"}) /\ Idle.at # "api_delete"
        /\ ~(Idle.at \in {"run_delete", "api_delete"})
    BY IdleIs
  <2>. QED
    BY <1>1, <2>1, IdleIs, OpenMoves DEF IInv
<1>3. Table'
  BY <1>1, TableStays DEF IInv, Table
<1>4. Reply' /\ ChangedByOwner
  BY <1>1, Silent, Unchanged
<1>. QED
  BY <1>2, <1>3, <1>4 DEF IInv

--------------------------------------------------------------------------------
\* Deleting.

\* Where a request goes after its delete, it is as it was before.
LEMMA AfterDeleteKeeps ==
  ASSUME Open, NEW r \in Requests, request' = AfterDelete(r), bound' = bound
  PROVE  Open'
<1>1. request[r] \in Request /\ bound[r] \in Written /\ Scoped(r)
  BY DEF Open
<1>2. bound' = [bound EXCEPT ![r] = bound[r]]
  BY DEF Open
<1>3. CASE request[r].at \in {"run", "run_delete"}
  <2>1. PICK job : job = [[request[r] EXCEPT !.at = "run"] EXCEPT !.id = 0]
    OBVIOUS
  <2>2. job \in Request /\ job.at = "run" /\ job.sent = request[r].sent
    BY <1>1, <2>1 DEF Request
  <2>3. request' = [request EXCEPT ![r] = job]
    BY <1>3, <2>1 DEF AfterDelete, Open
  <2>4. bound[r] = Identity(job.sent)
    BY <1>1, <1>3, <2>2 DEF Scoped
  <2>. QED
    BY <1>1, <1>2, <2>2, <2>3, <2>4, OpenMoves
<1>4. CASE request[r].at \notin {"run", "run_delete"}
  <2>1. request' = [request EXCEPT ![r] = Idle]
    BY <1>4 DEF AfterDelete, Open
  <2>2. /\ ~(Idle.at \in {"run", "run_delete"}) /\ Idle.at # "api_delete"
        /\ ~(Idle.at \in {"run_delete", "api_delete"})
    BY IdleIs
  <2>. QED
    BY <1>1, <1>2, <2>1, <2>2, IdleIs, OpenMoves
<1>. QED
  BY <1>3, <1>4

LEMMA FindKeeps ==
  ASSUME IInv, NEW r \in Requests, NEW k \in Written, NEW owner, NEW i \in Ids,
         NEW next \in {"run_delete", "api_delete"},
         next = "run_delete" => bound[r] = Identity(k),
         next = "api_delete" => Strip[k] # Blank,
         FindOwned(r, k, owner, i, next)
  PROVE  IInv' /\ ChangedByOwner
<1>1. UNCHANGED <<nextId, bound, deleted>> /\ "delete" \in Operations
      /\ "not_found" \in Codes /\ "not_found" # "ok"
  BY DEF FindOwned, Operations, Codes
<1>2. Table /\ Open
  BY DEF IInv
<1>3. CASE /\ request' = [request EXCEPT ![r] = [at |-> next, sent |-> k, id |-> i]]
           /\ answer' = NoAnswer /\ UNCHANGED <<rows, faults>>
  <2>1. PICK job : job = [at |-> next, sent |-> k, id |-> i]
    OBVIOUS
  <2>2. job \in Request /\ job.at = next /\ job.sent = k /\ job.id = i
    BY <2>1 DEF Request
  <2>3. bound' = [bound EXCEPT ![r] = bound[r]] /\ bound[r] \in Written
    BY <1>1, <1>2 DEF Open
  <2>4. request' = [request EXCEPT ![r] = job]
    BY <1>3, <2>1
  <2>5. /\ job.at \in {"run", "run_delete"} => bound[r] = Identity(job.sent)
        /\ job.at = "api_delete" => Strip[job.sent] # Blank
        /\ job.at \in {"run_delete", "api_delete"} => job.id \in Ids
    BY <2>2
  <2>6. Open'
    BY <1>2, <2>2, <2>3, <2>4, <2>5, OpenMoves
  <2>7. Table'
    BY <1>1, <1>2, <1>3, TableStays DEF Table
  <2>. QED
    BY <1>3, <2>6, <2>7, Silent, Unchanged DEF IInv
<1>4. CASE /\ request' = AfterDelete(r) /\ Told("delete", k, "not_found", << >>)
           /\ UNCHANGED <<rows, faults>>
  BY <1>1, <1>2, <1>4, RefusedKeeps, AfterDeleteKeeps DEF IInv
<1>5. CASE Unavailable("delete", k) /\ request' = AfterDelete(r)
  BY <1>1, <1>2, <1>5, UnavailableKeeps, AfterDeleteKeeps DEF IInv
<1>. QED
  BY <1>3, <1>4, <1>5 DEF FindOwned

LEMMA FindForToolKeeps ==
  ASSUME IInv, NEW r \in Requests, NEW i \in Ids, FindForTool(r, i)
  PROVE  IInv' /\ ChangedByOwner
<1>1. /\ request[r].at = "run"
      /\ FindOwned(r, request[r].sent, Strip[bound[r]], i, "run_delete")
  BY DEF FindForTool
<1>2. request[r].sent \in Written /\ bound[r] = Identity(request[r].sent)
  BY <1>1, RunAsks
<1>. QED
  BY <1>1, <1>2, FindKeeps

LEMMA FindForApiKeeps ==
  ASSUME IInv, NEW r \in Requests, NEW k \in Written, NEW i \in Ids, FindForApi(r, k, i)
  PROVE  IInv' /\ ChangedByOwner
<1>1. CASE Strip[k] # Blank /\ FindOwned(r, k, Strip[k], i, "api_delete")
  BY <1>1, FindKeeps
<1>2. CASE /\ Told("delete", k, "invalid", << >>)
           /\ UNCHANGED <<rows, nextId, request, bound, deleted, faults>>
  <2>1. "delete" \in Operations /\ "invalid" \in Codes /\ "invalid" # "ok"
    BY DEF Operations, Codes
  <2>. QED
    BY <1>2, <2>1, RefusedKeeps, OpenStays DEF IInv
<1>. QED
  BY <1>1, <1>2 DEF FindForApi

LEMMA DeleteFoundKeeps ==
  ASSUME IInv, NEW r \in Requests, DeleteFound(r)
  PROVE  IInv' /\ ChangedByOwner
<1> DEFINE k == request[r].sent
           owner == IF request[r].at = "run_delete" THEN Strip[bound[r]] ELSE Strip[k]
<1>1. PICK i : i = request[r].id
  OBVIOUS
<1>2. request[r].at \in {"run_delete", "api_delete"} /\ request' = AfterDelete(r)
      /\ UNCHANGED <<nextId, bound>>
  BY DEF DeleteFound
<1>3. i \in Ids /\ k \in Written /\ owner = Identity(k)
  <2>1. Scoped(r) /\ request[r] \in Request
    BY DEF IInv, Open
  <2>2. i \in Ids /\ k \in Written
    BY <1>1, <1>2, <2>1 DEF Scoped, Request
  <2>3. CASE request[r].at = "run_delete"
    BY <2>2, <2>3, RunAsks
  <2>4. CASE request[r].at = "api_delete"
    BY <2>1, <2>2, <2>4, IdentityIs DEF Scoped
  <2>. QED
    BY <1>2, <2>2, <2>3, <2>4
<1>4. Open' /\ Table
  BY <1>2, AfterDeleteKeeps DEF IInv
<1>5. /\ "delete" \in Operations /\ "not_found" \in Codes /\ "not_found" # "ok"
      /\ "unavailable" \in Codes /\ "unavailable" # "ok"
  BY DEF Operations, Codes
<1>6. /\ \/ Owned(i, owner) /\ rows' = [rows EXCEPT ![i] = NoRow]
            /\ deleted' = [deleted EXCEPT ![i] = @ + 1]
            /\ Told("delete", k, "ok", <<i>>) /\ UNCHANGED faults
         \/ Told("delete", k, "not_found", << >>) /\ UNCHANGED <<rows, deleted, faults>>
         \/ Unavailable("delete", k) /\ UNCHANGED deleted
         \/ rows' = (IF Owned(i, owner) THEN [rows EXCEPT ![i] = NoRow] ELSE rows)
            /\ Fault /\ Told("delete", k, "unavailable", << >>) /\ UNCHANGED deleted
  BY <1>1, <1>2 DEF DeleteFound, StillThere
<1> HIDE DEF owner
<1>7. ASSUME Owned(i, owner), rows'[i] = NoRow, \A j \in Ids \ {i} : rows'[j] = rows[j],
             answer'.sent = k
      PROVE  ChangedByOwner
  BY <1>3, <1>7 DEF ChangedByOwner, Owned
<1>8. Table' /\ Reply' /\ ChangedByOwner
  <2>1. CASE Owned(i, owner) /\ rows' = [rows EXCEPT ![i] = NoRow]
             /\ deleted' = [deleted EXCEPT ![i] = @ + 1]
             /\ Told("delete", k, "ok", <<i>>) /\ UNCHANGED faults
    <3>1. rows[i] # NoRow /\ faults' \in 0 .. MaxFaults
      BY <1>4, <2>1 DEF Owned, Table
    <3>2. Table' /\ rows'[i] = NoRow /\ \A j \in Ids \ {i} : rows'[j] = rows[j]
      BY <1>2, <1>3, <1>4, <2>1, <3>1, TableRemoves
    <3>3. Reply'
      BY <1>3, <2>1, <3>2, NamesDeleted
    <3>4. answer'.sent = k
      BY <2>1, ToldIs
    <3>. QED
      BY <1>7, <2>1, <3>2, <3>3, <3>4
  <2>2. CASE Told("delete", k, "not_found", << >>) /\ UNCHANGED <<rows, deleted, faults>>
    BY <1>2, <1>3, <1>4, <1>5, <2>2, RefusedKeeps
  <2>3. CASE Unavailable("delete", k) /\ UNCHANGED deleted
    BY <1>2, <1>3, <1>4, <1>5, <2>3, UnavailableKeeps
  <2>4. CASE rows' = (IF Owned(i, owner) THEN [rows EXCEPT ![i] = NoRow] ELSE rows)
             /\ Fault /\ Told("delete", k, "unavailable", << >>) /\ UNCHANGED deleted
    <3>1. faults' \in 0 .. MaxFaults
      BY <1>4, <2>4, FaultCounts DEF Table
    <3>2. Reply' /\ answer'.sent = k
      BY <1>3, <1>5, <2>4, Refused, ToldIs
    <3>3. CASE Owned(i, owner)
      <4>1. Table' /\ rows'[i] = NoRow /\ \A j \in Ids \ {i} : rows'[j] = rows[j]
        BY <1>2, <1>3, <1>4, <2>4, <3>1, <3>3, TableRemoves
      <4>. QED
        BY <1>7, <3>2, <3>3, <4>1
    <3>4. CASE ~Owned(i, owner)
      BY <1>2, <1>4, <2>4, <3>1, <3>2, <3>4, TableStays, Unchanged
    <3>. QED
      BY <3>3, <3>4
  <2>. QED
    BY <1>6, <2>1, <2>2, <2>3, <2>4
<1>. QED
  BY <1>4, <1>8 DEF IInv

--------------------------------------------------------------------------------
\* The API.

LEMMA CreateMemoryKeeps ==
  ASSUME IInv, NEW r \in Requests, NEW k \in Written, NEW type, NEW content \in Contents,
         CreateMemory(r, k, type, content)
  PROVE  IInv' /\ ChangedByOwner
<1>1. Create("create", k, Identity(k), type, content) /\ UNCHANGED <<request, bound, deleted>>
  BY DEF CreateMemory, ApiCall
<1>2. Strip[Identity(k)] = Identity(k)
  BY IdentityIs
<1>. QED
  BY <1>1, <1>2, CreateKeeps, OpenStays DEF IInv

LEMMA ListMemoriesKeeps ==
  ASSUME IInv, NEW r \in Requests, NEW k \in Written, NEW type, NEW limit \in Nat,
         ListMemories(r, k, type, limit)
  PROVE  IInv' /\ ChangedByOwner
<1>1. UNCHANGED <<request, bound, deleted, rows, nextId, faults>>
  BY DEF ListMemories, ApiCall
<1>2. Open' /\ Table /\ Table'
  BY <1>1, OpenStays, TableStays DEF IInv, Table
<1>3. Reply'
  <2>1. CASE Strip[k] # Blank /\ type # Unlisted
    BY <1>1, <1>2, <2>1, ListIsReply DEF ListMemories
  <2>2. CASE ~(Strip[k] # Blank /\ type # Unlisted)
    <3>1. "list" \in Operations /\ "invalid" \in Codes /\ "invalid" # "ok"
      BY DEF Operations, Codes
    <3>2. Told("list", k, "invalid", << >>)
      BY <2>2 DEF ListMemories
    <3>. QED
      BY <3>1, <3>2, Refused
  <2>. QED
    BY <2>1, <2>2
<1>. QED
  BY <1>1, <1>2, <1>3, Unchanged DEF IInv

LEMMA SearchByApiKeeps ==
  ASSUME IInv, NEW r \in Requests, NEW k \in Written, NEW query \in Queries, NEW type,
         NEW limit \in Nat, SearchByApi(r, k, query, type, limit)
  PROVE  IInv' /\ ChangedByOwner
<1>1. /\ UNCHANGED <<request, bound, deleted, rows, nextId, faults>>
      /\ Searched("api_search", k, SearchMemories(Asker("api_search", k), query, type, limit),
                  query, type, limit)
  BY DEF SearchByApi, ApiCall, Asker
<1>. QED
  BY <1>1, SearchKeeps, OpenStays DEF IInv

LEMMA GetMemoryKeeps ==
  ASSUME IInv, NEW r \in Requests, NEW k \in Written, NEW i \in Ids, GetMemory(r, k, i)
  PROVE  IInv' /\ ChangedByOwner
<1>1. UNCHANGED <<request, bound, deleted, rows, nextId, faults>>
  BY DEF GetMemory, ApiCall
<1>2. /\ "get" \in Operations /\ "get" \in {"save", "create", "get", "update"}
      /\ {"invalid", "not_found"} \subseteq Codes \ {"ok"}
  BY DEF Operations, Codes
<1>3. Open' /\ Table'
  BY <1>1, OpenStays, TableStays DEF IInv, Table
<1>4. Reply'
  <2>1. CASE Strip[k] = Blank
    BY <1>2, <2>1, Refused DEF GetMemory
  <2>2. CASE Strip[k] # Blank /\ Owned(i, Strip[k])
    <3>1. Told("get", k, "ok", <<i>>)
      BY <2>2 DEF GetMemory
    <3>2. rows'[i] # NoRow /\ rows'[i].owner = Identity(k)
      BY <1>1, <2>2, IdentityIs DEF Owned
    <3>. QED
      BY <1>2, <3>1, <3>2, NamesOne
  <2>3. CASE Strip[k] # Blank /\ ~Owned(i, Strip[k])
    BY <1>2, <2>3, Refused DEF GetMemory
  <2>. QED
    BY <2>1, <2>2, <2>3
<1>. QED
  BY <1>1, <1>3, <1>4, Unchanged DEF IInv

LEMMA UpdateMemoryKeeps ==
  ASSUME IInv, NEW r \in Requests, NEW k \in Written, NEW i \in Ids, NEW type,
         NEW content \in Contents, UpdateMemory(r, k, i, type, content)
  PROVE  IInv' /\ ChangedByOwner
<1>1. UNCHANGED <<request, bound, deleted, nextId, faults>>
  BY DEF UpdateMemory, ApiCall
<1>2. /\ "update" \in Operations /\ "update" \in {"save", "create", "get", "update"}
      /\ {"invalid", "not_found"} \subseteq Codes \ {"ok"}
  BY DEF Operations, Codes
<1>3. Open' /\ Table
  BY <1>1, OpenStays DEF IInv
<1>4. Table' /\ Reply' /\ ChangedByOwner
  <2>1. CASE /\ Strip[k] # Blank /\ UpdateVerdict(type, content) = "ok" /\ Owned(i, Strip[k])
             /\ rows' = [rows EXCEPT ![i].type = type, ![i].content = content]
             /\ Told("update", k, "ok", <<i>>)
    <3>1. rows[i] # NoRow /\ rows[i].owner = Identity(k) /\ Verdict(type, content) = "ok"
      BY <2>1, IdentityIs DEF Owned, UpdateVerdict
    <3>2. /\ Table' /\ rows'[i] # NoRow /\ rows'[i].owner = rows[i].owner
          /\ \A j \in Ids \ {i} : rows'[j] = rows[j]
      BY <1>1, <1>3, <2>1, <3>1, TableUpdates
    <3>3. Reply'
      BY <1>2, <2>1, <3>1, <3>2, NamesOne
    <3>4. answer'.sent = k
      BY <2>1, ToldIs
    <3>5. ChangedByOwner
      BY <3>1, <3>2, <3>4 DEF ChangedByOwner
    <3>. QED
      BY <3>2, <3>3, <3>5
  <2>2. CASE Told("update", k, "invalid", << >>) /\ UNCHANGED rows
    BY <1>1, <1>2, <1>3, <2>2, RefusedKeeps
  <2>3. CASE Told("update", k, "not_found", << >>) /\ UNCHANGED rows
    BY <1>1, <1>2, <1>3, <2>3, RefusedKeeps
  <2>. QED
    BY <2>1, <2>2, <2>3 DEF UpdateMemory
<1>. QED
  BY <1>3, <1>4 DEF IInv

--------------------------------------------------------------------------------
\* The theorems.

LEMMA InitEstablishes == Init => IInv
<1> SUFFICES ASSUME Init PROVE IInv
  OBVIOUS
<1>1. Table
  BY ConstantsAssumption DEF Init, Table
<1>2. Open
  BY IdleIs DEF Init, Open, Scoped
<1>3. Reply
  <2>1. /\ answer.op = "none" /\ answer.sent = Blank /\ answer.code = "ok" /\ answer.hits = << >>
        /\ Blank \in Written /\ "ok" \in Codes
    BY ConstantsAssumption DEF Init, NoAnswer, Codes
  <2>2. ToSet(answer.hits) = {} /\ answer.hits \in Seq(Ids)
    BY <2>1, ToSetOfFew
  <2>3. OwnersKeptApart /\ RecallsTheBest
    BY <2>1, <2>2 DEF OwnersKeptApart, RecallsTheBest
  <2>. QED
    BY <2>1, <2>2, <2>3 DEF Reply
<1>. QED
  BY <1>1, <1>2, <1>3 DEF IInv

LEMMA StepKeeps ==
  ASSUME IInv, [Next]_vars
  PROVE  IInv' /\ (ChangedByOwner \/ UNCHANGED vars)
<1>1. ASSUME NEW r \in Requests,
             \/ \E k \in Written, query \in Queries : StartRun(r, k, query)
             \/ \E type \in MemoryTypes \cup {Unlisted}, content \in Contents :
                    SaveMemory(r, type, content)
             \/ \E query \in Queries, type \in MemoryTypes \cup {NoType, Unlisted} :
                    SearchMemory(r, query, type)
             \/ EndRun(r)
      PROVE  IInv' /\ ChangedByOwner
  BY <1>1, StartRunKeeps, SaveMemoryKeeps, SearchMemoryKeeps, EndRunKeeps
<1>2. ASSUME NEW r \in Requests,
             \/ \E i \in Ids : FindForTool(r, i)
             \/ \E k \in Written, i \in Ids : FindForApi(r, k, i)
             \/ DeleteFound(r)
      PROVE  IInv' /\ ChangedByOwner
  BY <1>2, FindForToolKeeps, FindForApiKeeps, DeleteFoundKeeps
<1>3. ASSUME NEW r \in Requests,
             \/ \E k \in Written, type \in MemoryTypes \cup {Unlisted}, content \in Contents :
                    CreateMemory(r, k, type, content)
             \/ \E k \in Written, i \in Ids : GetMemory(r, k, i)
             \/ \E k \in Written, i \in Ids, type \in MemoryTypes, content \in Contents :
                    UpdateMemory(r, k, i, type, content)
      PROVE  IInv' /\ ChangedByOwner
  BY <1>3, CreateMemoryKeeps, GetMemoryKeeps, UpdateMemoryKeeps
<1>4. ASSUME NEW r \in Requests, NEW k \in Written, NEW type, NEW limit \in {1, ListCap},
             \/ ListMemories(r, k, type, limit)
             \/ \E query \in Queries : SearchByApi(r, k, query, type, limit)
      PROVE  IInv' /\ ChangedByOwner
  <2>1. limit \in Nat
    BY ConstantsAssumption
  <2>. QED
    BY <1>4, <2>1, ListMemoriesKeeps, SearchByApiKeeps
<1>5. CASE UNCHANGED vars
  <2>1. IInv' <=> IInv
    BY <1>5 DEF IInv, Table, Open, Scoped, Reply, OwnersKeptApart, RecallsTheBest, vars,
                Owned, Overlap, Precedes
  <2>. QED
    BY <1>5, <2>1
<1>. QED
  BY <1>1, <1>2, <1>3, <1>4, <1>5 DEF Next

\* The table, the open requests and the last answer are always in order.
THEOREM Inductive == Spec => []IInv
<1>1. Init => IInv
  BY InitEstablishes
<1>2. IInv /\ [Next]_vars => IInv'
  BY StepKeeps
<1>. QED
  BY <1>1, <1>2, PTL DEF Spec

\* No sequence of saves and updates ever stores what looks like a secret, or a type that
\* is none of the four, for whatever contents are offered.
THEOREM TypeCorrect == Spec => []TypeOK
<1>1. IInv => TypeOK
  BY DEF IInv, Table, Open, Reply, TypeOK
<1>. QED
  BY <1>1, Inductive, PTL

\* However many runs and calls of however many owners are open at a time, each is told of
\* memories of its own owner only, and what it saves is saved under that owner.
THEOREM OwnersStayApart == Spec => []OwnersKeptApart
<1>1. IInv => OwnersKeptApart
  BY DEF IInv, Reply
<1>. QED
  BY <1>1, Inductive, PTL

\* No memory changes or goes but for its owner, between the two statements of a delete too.
THEOREM OnlyTheOwnerChanges == Spec => OnlyOwnersChange
<1>1. IInv /\ [Next]_vars => ChangedByOwner \/ UNCHANGED vars
  BY StepKeeps
<1>2. ChangedByOwner \/ UNCHANGED vars
        => [\A i \in Ids : rows'[i] # rows[i] =>
               \A row \in {rows[i], rows'[i]} \ {NoRow} :
                   row.owner = Identity(answer'.sent)]_vars
  BY DEF ChangedByOwner
<1>. QED
  BY <1>1, <1>2, Inductive, PTL DEF Spec, OnlyOwnersChange

\* One delete of a memory is told that it deleted it, and no later answer names it.
THEOREM DeletedIsForgotten == Spec => []ForgottenForGood
<1>1. ASSUME IInv PROVE ForgottenForGood
  <2>1. ASSUME NEW i \in Ids PROVE deleted[i] \in {0, 1} /\ (deleted[i] = 1 => rows[i] = NoRow)
    BY <1>1 DEF IInv, Table
  <2>2. answer.op # "delete" => \A i \in ToSet(answer.hits) : rows[i] # NoRow
    BY <1>1 DEF IInv, Reply
  <2>. QED
    BY <2>1, <2>2 DEF ForgottenForGood
<1>. QED
  BY <1>1, Inductive, PTL

\* For any number of memories and any limits: an answer holds the best of the asker's
\* matching memories, best first, as many as the limit admits.
THEOREM TheBestAreRecalled == Spec => []RecallsTheBest
<1>1. IInv => RecallsTheBest
  BY DEF IInv, Reply
<1>. QED
  BY <1>1, Inductive, PTL
================================================================================
