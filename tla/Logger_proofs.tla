----------------------------- MODULE Logger_proofs -----------------------------
(***************************************************************************)
(* The books of the logger, for every number of entries, threads, places   *)
(* in the queue and files: from WriteLog on, an entry is in one place. The *)
(* invariant counts each entry in the queue, with the worker, with a       *)
(* caller, in the file, among the dropped and among the lost, and orders   *)
(* what goes through the queue. A rotation renames a file to a name below  *)
(* the file's own, which the system refuses: there is one file, and it     *)
(* keeps everything.                                                       *)
(***************************************************************************)
EXTENDS Logger, TLAPS, WellFoundedInduction, SequenceTheorems, FiniteSetTheorems

\* The entries t has still to write.
Hand(t) == ToSet(hand[t])
Hands(e) == {t \in Threads : e \in Hand(t)}
Count(s, e) == Cardinality({i \in DOMAIN s : s[i] = e})

\* Every entry has been issued.
Known ==
  /\ ToSet(queue) \subseteq 1..issued /\ ToSet(entry) \subseteq 1..issued
  /\ ToSet(written) \subseteq 1..issued /\ ToSet(accepted) \subseteq 1..issued
  /\ \A t \in Threads : Hand(t) \subseteq 1..issued

\* A thread has entries to write only inside WriteLogSync and Flush, each of them once, and
\* no two threads have the same one; the worker has one at most.
Handed ==
  /\ Len(entry) <= 1
  /\ \A t \in Threads :
       /\ hand[t] # <<>> => pc[t] \in {"write", "flush"}
       /\ pc[t] = "write" => Len(hand[t]) = 1
       /\ \A i, j \in DOMAIN hand[t] : hand[t][i] = hand[t][j] => i = j
  /\ \A t, u \in Threads : t # u => Hand(t) \cap Hand(u) = {}

\* What has been queued is not counted as dropped.
Queueing ==
  /\ ToSet(accepted) \cap dropped = {} /\ before \subseteq ToSet(accepted)
  /\ flushes = 0 => \A t \in Threads : Hand(t) \cap ToSet(accepted) = {}

\* Where Flush has not come between, numbers grow from the file by the worker's hand to the
\* end of the queue.
Increasing(s) == \A i, j \in DOMAIN s : i < j => s[i] < s[j]
Ahead(S, T)   == \A x \in S, y \in T : x < y
FromQueue     == ToSet(written) \cap ToSet(accepted)
Ordered ==
  flushes = 0 /\ opened =>
    /\ ToSet(queue) \cup ToSet(entry) \subseteq ToSet(accepted)
    /\ ToSet(accepted) \subseteq ToSet(written) \cup ToSet(entry) \cup ToSet(queue)
    /\ Increasing(queue) /\ Ahead(ToSet(entry), ToSet(queue))
    /\ Ahead(FromQueue, ToSet(entry) \cup ToSet(queue))
    /\ \A i, j \in DOMAIN written :
         i < j /\ {written[i], written[j]} \subseteq ToSet(accepted) => written[i] < written[j]

\* The worker that has ended has left nothing of what was queued before Shutdown.
Left == ToSet(written) \cup lost \cup UNION {Hand(t) : t \in Threads}
Ending ==
  /\ worker = "done" => shutdown /\ before \subseteq Left
  /\ joined => worker = "done"

\* No rename succeeds, so there is one file, and nothing is ever taken from it.
OneFile == file = [path \in {LogFile} |-> written]

\* The inductive invariant.
IInv ==
  TypeOK /\ Known /\ Handed /\ Conserved /\ Queueing /\ Ordered /\ Ending /\ OneFile

-----------------------------------------------------------------------------
(* Files and their contents *)

\* A set of numbers that is not empty has a least one.
LEMMA LeastNatural ==
  ASSUME NEW T \in SUBSET Nat, T # {}
  PROVE  \E m \in T : \A n \in T : m <= n
<1>1. \A x, y \in Nat : <<x, y>> \in OpToRel(<, Nat) <=> x < y
  BY Zenon DEF OpToRel
<1>2. PICK m \in T : \A n \in T : ~(<<n, m>> \in OpToRel(<, Nat))
  BY NatLessThanWellFounded, WFMin
<1>3. \A n \in T : ~(n < m)
  BY <1>1, <1>2, Zenon
<1> QED BY <1>3

\* A rename into a directory that is a file leaves the files as they are.
LEMMA NotRenamed ==
  ASSUME NEW there, NEW i \in Nat
  PROVE  Renamed(there, Backup(i), Backup(i + 1)) = there
<1>1. Backup(i + 1) = Append(LogFile, i + 1)
  BY DEF Backup
<1>2. Len(Append(LogFile, i + 1)) = 2
  BY DEF LogFile
<1>3. Front(Backup(i + 1)) # <<>>
  BY <1>1, <1>2 DEF Front, LogFile
<1> QED BY <1>3 DEF Renamed

\* Rename_'s loop over the numbers renames nothing.
LEMMA RenamesNothing ==
  ASSUME NEW base, NEW n \in Nat, NEW seq \in [1..n -> Nat]
  PROVE  FoldLeft(LAMBDA there, i : Renamed(there, Backup(i), Backup(i + 1)), base, seq) = base
<1> DEFINE Step(iter) == [s \in SUBSET (1..n) |->
                            IF s = {} THEN base
                            ELSE Renamed(iter[s \ {Max(s)}], Backup(seq[Max(s)]), Backup(seq[Max(s)] + 1))]
           Iter == CHOOSE iter : iter = Step(iter)
           Same == [s \in SUBSET (1..n) |-> base]
           Off == {k \in 0..n : \E s \in SUBSET (1..k) : Iter[s] # base}
<1> HIDE DEF Iter, Step, Same
<1>1. FoldLeft(LAMBDA there, i : Renamed(there, Backup(i), Backup(i + 1)), base, seq) = Iter[1..n]
  <2>1. DOMAIN seq = 1..n
    OBVIOUS
  <2> QED BY <2>1 DEF FoldLeft, MapThenFoldSet, Iter, Step
<1>2. ASSUME NEW k \in Nat, NEW s \in SUBSET (1..k), k \in s
      PROVE  Max(s) = k
  <2>1. \A y \in s : k >= y
    OBVIOUS
  <2> DEFINE Greatest(x) == x \in s /\ \A y \in s : x >= y
  <2>4. \A x \in s : x \in 1..k
    OBVIOUS
  <2>5. Greatest(k)
    BY <1>2, <2>1
  <2>6. ASSUME NEW x, Greatest(x) PROVE x = k
    <3>1. x \in 1..k /\ x >= k /\ k >= x
      BY <1>2, <2>1, <2>4, <2>6
    <3> QED BY <3>1
  <2>2. Greatest(k) /\ \A x : Greatest(x) => x = k
    BY <2>5, <2>6
  <2>3. Max(s) = CHOOSE x : Greatest(x)
    BY DEF Max
  <2> HIDE DEF Greatest
  <2> QED BY <2>2, <2>3, Zenon
<1>3. ASSUME NEW s \in SUBSET (1..n), s # {}
      PROVE  \E k \in s : s \subseteq 1..k
  <2> DEFINE Above == {k \in Nat : s \subseteq 1..k}
  <2>1. n \in Above
    OBVIOUS
  <2>2. PICK m \in Above : \A k \in Above : m <= k
    BY <2>1, LeastNatural
  <2>3. m > 0
    <3>1. PICK x \in s : x \in 1..m
      BY <1>3, <2>2
    <3> QED BY <2>2, <3>1
  <2>9. (m - 1) \notin Above
    BY <2>2, <2>3
  <2>4. PICK x \in s : x \notin 1..(m - 1)
    BY <2>2, <2>3, <2>9
  <2>5. x = m
    BY <2>2, <2>4
  <2> QED BY <2>2, <2>5
<1>4. \A s \in SUBSET (1..n) : s # {} => seq[Max(s)] \in Nat
  BY <1>2, <1>3
<1>5. \A there : \A s \in SUBSET (1..n) :
        s # {} => Renamed(there, Backup(seq[Max(s)]), Backup(seq[Max(s)] + 1)) = there
  BY <1>4, NotRenamed
<1>6. Same = Step(Same)
  <2>1. \A s \in SUBSET (1..n) : s \ {Max(s)} \in SUBSET (1..n)
    OBVIOUS
  <2>2. \A s \in SUBSET (1..n) : Same[s] = base
    BY DEF Same
  <2>3. \A s \in SUBSET (1..n) :
          base = IF s = {} THEN base
                 ELSE Renamed(Same[s \ {Max(s)}], Backup(seq[Max(s)]), Backup(seq[Max(s)] + 1))
    BY <1>5, <2>1, <2>2
  <2> QED BY <2>3, Zenon DEF Step, Same
<1>7. Iter = Step(Iter)
  BY <1>6 DEF Iter
<1>8. \A s \in SUBSET (1..n) : Iter[s] = IF s = {} THEN base ELSE Iter[s \ {Max(s)}]
  BY <1>5, <1>7 DEF Step
<1>9. Off = {}
  <2> SUFFICES ASSUME Off # {} PROVE FALSE
    OBVIOUS
  <2>1. PICK k \in Off : \A j \in Off : k <= j
    <3>1. Off \in SUBSET Nat
      OBVIOUS
    <3> QED BY <3>1, LeastNatural
  <2>2. PICK s \in SUBSET (1..k) : Iter[s] # base
    BY <2>1
  <2>10. s \in SUBSET (1..n) /\ k \in 0..n
    BY <2>1, <2>2
  <2>11. s # {}
    BY <1>8, <2>2, <2>10
  <2>8. k # 0
    <3>1. PICK x \in s : x \in 1..k
      BY <2>2, <2>11
    <3> QED BY <2>10, <3>1
  <2>3. (k - 1) \notin Off
    <3>1. ~(k <= k - 1)
      BY <2>10
    <3> QED BY <2>1, <3>1, Zenon
  <2>4. \A t \in SUBSET (1..(k - 1)) : Iter[t] = base
    BY <2>1, <2>3, <2>8
  <2>5. k \in s
    BY <2>1, <2>2, <2>4
  <2>6. Max(s) = k
    BY <1>2, <2>1, <2>5
  <2>7. s \ {k} \in SUBSET (1..(k - 1))
    BY <2>2, <2>10
  <2>12. Iter[s] = Iter[s \ {k}]
    BY <1>8, <2>6, <2>10, <2>11
  <2>13. Iter[s \ {k}] = base
    BY <2>4, <2>7, Zenon
  <2> QED BY <2>2, <2>12, <2>13
<1>10. Iter[1..n] = base
  <2>1. n \in 0..n /\ 1..n \in SUBSET (1..n)
    OBVIOUS
  <2> QED BY <1>9, <2>1
<1> QED BY <1>1, <1>10

\* The sequence of sequences of which only the last is not empty.
LEMMA FlattensToLast ==
  ASSUME NEW n \in Nat \ {0}, NEW S, NEW w \in Seq(S)
  PROVE  FlattenSeq([i \in 1..n |-> IF i = n THEN w ELSE <<>>]) = w
<1> DEFINE seqs == [i \in 1..n |-> IF i = n THEN w ELSE <<>>]
           Step(flatten) == [i \in 1..n |-> IF i = 1 THEN seqs[i] ELSE flatten[i - 1] \o seqs[i]]
           Flatten == CHOOSE flatten : flatten = Step(flatten)
           Off == {k \in 1..n : Flatten[k] # seqs[k]}
<1> HIDE DEF Flatten, Step
<1>1. Len(seqs) = n
  OBVIOUS
<1>2. FlattenSeq(seqs) = Flatten[n]
  BY <1>1 DEF FlattenSeq, Flatten, Step
<1>3. <<>> \o w = w /\ <<>> \o <<>> = <<>>
  BY ConcatEmptySeq, EmptySeq
<1>8. \A i \in 1..n : i # 1 => <<>> \o seqs[i] = seqs[i]
  BY <1>3
<1>4. seqs = Step(seqs)
  <2>1. ASSUME NEW i \in 1..n
        PROVE  seqs[i] = IF i = 1 THEN seqs[i] ELSE seqs[i - 1] \o seqs[i]
    <3>1. i # 1 => seqs[i - 1] = <<>>
      OBVIOUS
    <3> HIDE DEF seqs
    <3> QED BY <1>8, <3>1
  <2>2. seqs = [i \in 1..n |-> seqs[i]]
    OBVIOUS
  <2> HIDE DEF seqs
  <2>3. \A i \in 1..n : seqs[i] = IF i = 1 THEN seqs[i] ELSE seqs[i - 1] \o seqs[i]
    BY <2>1
  <2> QED BY <2>2, <2>3, Zenon DEF Step
<1>5. Flatten = Step(Flatten)
  BY <1>4 DEF Flatten
<1>6. \A i \in 1..n : Flatten[i] = IF i = 1 THEN seqs[i] ELSE Flatten[i - 1] \o seqs[i]
  BY <1>5 DEF Step
<1>7. Off = {}
  <2> SUFFICES ASSUME Off # {} PROVE FALSE
    OBVIOUS
  <2>1. PICK k \in Off : \A j \in Off : k <= j
    <3>1. Off \in SUBSET Nat
      OBVIOUS
    <3> QED BY <3>1, LeastNatural
  <2>2. k \in 1..n /\ Flatten[k] # seqs[k]
    BY <2>1
  <2>3. k # 1
    BY <1>6, <2>2
  <2>4. ~(k <= k - 1) /\ k - 1 \in 1..n
    BY <2>2, <2>3
  <2>5. Flatten[k - 1] = seqs[k - 1]
    BY <2>1, <2>4
  <2>6. seqs[k - 1] = <<>>
    BY <2>2, <2>4
  <2> HIDE DEF seqs
  <2> QED BY <1>6, <1>8, <2>2, <2>3, <2>5, <2>6
<1>9. n \in 1..n /\ seqs[n] = w
  OBVIOUS
<1>10. Flatten[n] = w
  BY <1>7, <1>9
<1> QED BY <1>2, <1>10

-----------------------------------------------------------------------------
(* Sequences as what they hold *)

\* What Append, Head and Tail do to what a sequence holds.
LEMMA SetOf ==
  ASSUME NEW S
  PROVE  /\ ToSet(<<>>) = {} /\ \A x : ToSet(<<x>>) = {x}
         /\ \A s \in Seq(S), x \in S : ToSet(Append(s, x)) = ToSet(s) \cup {x}
         /\ \A s \in Seq(S) : s # <<>> =>
              ToSet(s) = {Head(s)} \cup ToSet(Tail(s)) /\ Head(s) \in ToSet(s)
<1>1. ToSet(<<>>) = {} /\ \A x : ToSet(<<x>>) = {x}
  BY DEF ToSet
<1>2. ASSUME NEW s \in Seq(S), NEW x \in S
      PROVE  ToSet(Append(s, x)) = ToSet(s) \cup {x}
  <2>1. DOMAIN s = 1..Len(s) /\ DOMAIN Append(s, x) = 1..(Len(s) + 1) /\ Len(s) \in Nat
    BY LenProperties, AppendProperties
  <2>2. \A i \in 1..Len(s) : Append(s, x)[i] = s[i]
    BY <2>1
  <2>3. Append(s, x)[Len(s) + 1] = x
    BY <2>1
  <2>4. 1..(Len(s) + 1) = (1..Len(s)) \cup {Len(s) + 1}
    BY <2>1
  <2> QED BY <2>1, <2>2, <2>3, <2>4, Zenon DEF ToSet
<1>3. ASSUME NEW s \in Seq(S), s # <<>>
      PROVE  ToSet(s) = {Head(s)} \cup ToSet(Tail(s)) /\ Head(s) \in ToSet(s)
  <2>1. Len(s) \in Nat \ {0} /\ DOMAIN s = 1..Len(s) /\ Head(s) = s[1]
    BY <1>3, EmptySeq
  <2>2. DOMAIN Tail(s) = 1..(Len(s) - 1) /\ \A i \in 1..(Len(s) - 1) : Tail(s)[i] = s[i + 1]
    BY <1>3, HeadTailProperties, LenProperties
  <2>3. ASSUME NEW i \in 2..Len(s)
        PROVE  i - 1 \in DOMAIN Tail(s) /\ Tail(s)[i - 1] = s[i]
    BY <2>1, <2>2
  <2>4. ToSet(Tail(s)) = {s[i] : i \in 2..Len(s)}
    <3>1. ASSUME NEW i \in DOMAIN Tail(s) PROVE \E j \in 2..Len(s) : Tail(s)[i] = s[j]
      <4>1. i + 1 \in 2..Len(s)
        BY <2>1, <2>2
      <4> QED BY <2>2, <4>1
    <3> QED BY <2>3, <3>1 DEF ToSet
  <2>5. 1..Len(s) = {1} \cup (2..Len(s))
    BY <2>1
  <2> QED BY <2>1, <2>4, <2>5 DEF ToSet
<1> QED BY <1>1, <1>2, <1>3

\* How often an entry occurs is a number, and 0 only where it does not.
LEMMA CountIsNat ==
  ASSUME NEW S, NEW s \in Seq(S), NEW e
  PROVE  /\ IsFiniteSet({i \in DOMAIN s : s[i] = e}) /\ Count(s, e) \in Nat
         /\ Count(s, e) = 0 <=> e \notin ToSet(s)
<1> DEFINE At == {i \in DOMAIN s : s[i] = e}
<1>1. IsFiniteSet(1..Len(s))
  BY FS_Interval
<1>2. IsFiniteSet(At)
  BY <1>1, FS_Subset
<1>3. At = {} <=> e \notin ToSet(s)
  BY DEF ToSet
<1>4. Cardinality(At) \in Nat /\ (Cardinality(At) = 0 <=> At = {})
  BY <1>2, FS_CardinalityType, FS_EmptySet
<1> QED BY <1>2, <1>3, <1>4 DEF Count

\* The empty sequence and those of one.
LEMMA CountOf ==
  ASSUME NEW e
  PROVE  Count(<<>>, e) = 0 /\ \A x : Count(<<x>>, e) = IF x = e THEN 1 ELSE 0
<1>1. {i \in DOMAIN <<>> : <<>>[i] = e} = {}
  OBVIOUS
<1>2. ASSUME NEW x PROVE {i \in DOMAIN <<x>> : <<x>>[i] = e} = IF x = e THEN {1} ELSE {}
  OBVIOUS
<1>3. Cardinality({}) = 0 /\ Cardinality({1}) = 1
  BY FS_EmptySet, FS_Singleton
<1> QED BY <1>1, <1>2, <1>3 DEF Count

\* Append adds one occurrence, of the entry appended.
LEMMA CountAppend ==
  ASSUME NEW S, NEW s \in Seq(S), NEW x \in S, NEW e
  PROVE  Count(Append(s, x), e) = Count(s, e) + (IF x = e THEN 1 ELSE 0)
<1> DEFINE At(q) == {i \in DOMAIN q : q[i] = e}
<1>1. DOMAIN s = 1..Len(s) /\ DOMAIN Append(s, x) = 1..(Len(s) + 1) /\ Len(s) \in Nat
  BY LenProperties, AppendProperties
<1>2. \A i \in 1..(Len(s) + 1) : Append(s, x)[i] = IF i <= Len(s) THEN s[i] ELSE x
  BY <1>1
<1>3. At(Append(s, x)) = At(s) \cup (IF x = e THEN {Len(s) + 1} ELSE {})
  BY <1>1, <1>2
<1>4. Len(s) + 1 \notin At(s)
  BY <1>1
<1>5. IsFiniteSet(At(s)) /\ Cardinality(At(s)) \in Nat
  BY CountIsNat DEF Count
<1>6. Cardinality(At(s) \cup {Len(s) + 1}) = Cardinality(At(s)) + 1
  BY <1>4, <1>5, FS_AddElement
<1>7. Count(Append(s, x), e) = Cardinality(At(Append(s, x))) /\ Count(s, e) = Cardinality(At(s))
  BY DEF Count
<1> HIDE DEF At
<1>8. CASE x = e
  <2>1. At(Append(s, x)) = At(s) \cup {Len(s) + 1}
    BY <1>3, <1>8
  <2> QED BY <1>5, <1>6, <1>7, <1>8, <2>1
<1>9. CASE x # e
  <2>1. At(Append(s, x)) = At(s)
    BY <1>3, <1>9
  <2> QED BY <1>5, <1>7, <1>9, <2>1
<1> QED BY <1>8, <1>9

\* Tail takes one occurrence away, the head's.
LEMMA CountTail ==
  ASSUME NEW S, NEW s \in Seq(S), s # <<>>, NEW e
  PROVE  Count(s, e) = Count(Tail(s), e) + (IF Head(s) = e THEN 1 ELSE 0)
<1> DEFINE At(q) == {i \in DOMAIN q : q[i] = e}
           Later == At(s) \ {1}
           Shift == [i \in At(Tail(s)) |-> i + 1]
<1>1. Len(s) \in Nat \ {0} /\ DOMAIN s = 1..Len(s) /\ Head(s) = s[1]
  BY EmptySeq
<1>2. /\ Tail(s) \in Seq(S) /\ DOMAIN Tail(s) = 1..(Len(s) - 1)
      /\ \A i \in 1..(Len(s) - 1) : Tail(s)[i] = s[i + 1]
  BY HeadTailProperties, LenProperties
<1>3. Shift \in Bijection(At(Tail(s)), Later)
  <2>1. \A i \in At(Tail(s)) : i \in 1..(Len(s) - 1) /\ i + 1 \in Later
    BY <1>1, <1>2
  <2>2. \A i, j \in At(Tail(s)) : i + 1 = j + 1 => i = j
    BY <2>1, <1>1
  <2>3. \A k \in Later : k - 1 \in At(Tail(s)) /\ (k - 1) + 1 = k
    BY <1>1, <1>2
  <2> HIDE DEF At, Later
  <2>4. Shift \in [At(Tail(s)) -> Later] /\ \A i \in At(Tail(s)) : Shift[i] = i + 1
    BY <2>1
  <2> HIDE DEF Shift
  <2>5. \A k \in Later : \E i \in At(Tail(s)) : Shift[i] = k
    BY <2>3, <2>4
  <2>6. \A i, j \in At(Tail(s)) : Shift[i] = Shift[j] => i = j
    BY <2>2, <2>4
  <2> QED BY <2>4, <2>5, <2>6, Zenon DEF Bijection, Injection, Surjection, IsInjective
<1>4. IsFiniteSet(At(Tail(s))) /\ Cardinality(At(Tail(s))) \in Nat
  BY <1>2, CountIsNat DEF Count
<1>5. IsFiniteSet(Later) /\ Cardinality(Later) = Cardinality(At(Tail(s)))
  BY <1>3, <1>4, FS_Bijection DEF ExistsBijection
<1>6. At(s) = IF Head(s) = e THEN Later \cup {1} ELSE Later
  BY <1>1
<1>7. Cardinality(Later \cup {1}) = Cardinality(Later) + 1
  BY <1>5, FS_AddElement
<1>8. Count(s, e) = Cardinality(At(s)) /\ Count(Tail(s), e) = Cardinality(At(Tail(s)))
  BY DEF Count
<1> HIDE DEF At, Later
<1>9. CASE Head(s) = e
  <2>1. At(s) = Later \cup {1}
    BY <1>6, <1>9
  <2> QED BY <1>4, <1>5, <1>7, <1>8, <1>9, <2>1
<1>10. CASE Head(s) # e
  <2>1. At(s) = Later
    BY <1>6, <1>10
  <2> QED BY <1>4, <1>5, <1>8, <1>10, <2>1
<1> QED BY <1>9, <1>10

\* What occurs once at most is in one place.
LEMMA CountOne ==
  ASSUME NEW S, NEW s \in Seq(S), NEW i \in DOMAIN s, NEW j \in DOMAIN s, s[i] = s[j],
         Count(s, s[i]) <= 1
  PROVE  i = j
<1> DEFINE At == {k \in DOMAIN s : s[k] = s[i]}
<1> SUFFICES ASSUME i # j PROVE FALSE
  OBVIOUS
<1>1. IsFiniteSet(At) /\ Cardinality(At) \in Nat
  BY CountIsNat DEF Count
<1>2. {i, j} \subseteq At
  OBVIOUS
<1>3. Cardinality({i, j}) = 2
  <2>1. IsFiniteSet({i}) /\ Cardinality({i}) = 1
    BY FS_Singleton
  <2>2. j \notin {i} /\ {i} \cup {j} = {i, j}
    OBVIOUS
  <2>3. Cardinality({i} \cup {j}) = Cardinality({i}) + 1
    BY <2>1, <2>2, FS_AddElement
  <2>4. Cardinality({i, j}) = Cardinality({i}) + 1
    BY <2>2, <2>3, Zenon
  <2>5. Cardinality({i}) = 1 => Cardinality({i}) + 1 = 2
    OBVIOUS
  <2> QED BY <2>1, <2>4, <2>5, Zenon
<1>4. Cardinality({i, j}) <= Cardinality(At)
  BY <1>1, <1>2, FS_Subset
<1>5. Cardinality(At) <= 1
  BY DEF Count
<1> QED BY <1>1, <1>3, <1>4, <1>5

\* Of a sequence without repetition, the head is not in the tail.
LEMMA TailDiffers ==
  ASSUME NEW S, NEW s \in Seq(S), s # <<>>, \A i, j \in DOMAIN s : s[i] = s[j] => i = j
  PROVE  /\ Head(s) \notin ToSet(Tail(s))
         /\ \A i, j \in DOMAIN Tail(s) : Tail(s)[i] = Tail(s)[j] => i = j
<1>1. Len(s) \in Nat \ {0} /\ DOMAIN s = 1..Len(s) /\ Head(s) = s[1]
  BY EmptySeq
<1>2. DOMAIN Tail(s) = 1..(Len(s) - 1) /\ \A i \in 1..(Len(s) - 1) : Tail(s)[i] = s[i + 1]
  BY HeadTailProperties, LenProperties
<1>3. \A i \in 1..(Len(s) - 1) : i + 1 \in DOMAIN s /\ i + 1 # 1
  BY <1>1
<1>4. Head(s) \notin ToSet(Tail(s))
  <2>1. 1 \in DOMAIN s
    BY <1>1
  <2> QED BY <1>1, <1>2, <1>3, <2>1 DEF ToSet
<1>5. ASSUME NEW i \in DOMAIN Tail(s), NEW j \in DOMAIN Tail(s), Tail(s)[i] = Tail(s)[j]
      PROVE  i = j
  <2>1. i + 1 = j + 1
    BY <1>2, <1>3, <1>5
  <2> QED BY <1>1, <1>2, <2>1
<1> QED BY <1>4, <1>5

\* No two threads have the same entry, so that one thread has it or none.
LEMMA HandsOne ==
  ASSUME NEW h, \A t, u \in Threads : t # u => ToSet(h[t]) \cap ToSet(h[u]) = {}, NEW e
  PROVE  Cardinality({t \in Threads : e \in ToSet(h[t])}) =
           IF \E t \in Threads : e \in ToSet(h[t]) THEN 1 ELSE 0
<1> DEFINE Have == {t \in Threads : e \in ToSet(h[t])}
<1>1. CASE \E t \in Threads : e \in ToSet(h[t])
  <2>1. PICK t \in Threads : e \in ToSet(h[t])
    BY <1>1
  <2>2. Have = {t}
    BY <2>1
  <2> QED BY <1>1, <2>2, FS_Singleton
<1>2. CASE ~\E t \in Threads : e \in ToSet(h[t])
  <2>1. Have = {}
    BY <1>2
  <2> QED BY <1>2, <2>1, FS_EmptySet
<1> QED BY <1>1, <1>2

\* Where an entry is, as numbers.
Held(e) == \E t \in Threads : e \in Hand(t)
Placed(e) ==
  Count(queue, e) + Count(entry, e) + Count(written, e) + (IF Held(e) THEN 1 ELSE 0)
    + (IF e \in dropped THEN 1 ELSE 0) + (IF e \in lost THEN 1 ELSE 0)

\* Copies by place.
LEMMA CopiesPlaced ==
  /\ Handed => \A e : Copies(e) = Placed(e)
  /\ Handed' => \A e : Copies(e)' = Placed(e)'
<1>1. ASSUME Handed, NEW e PROVE Copies(e) = Placed(e)
  <2>1. \A t, u \in Threads : t # u => ToSet(hand[t]) \cap ToSet(hand[u]) = {}
    BY <1>1 DEF Handed, Hand
  <2> QED BY <2>1, HandsOne DEF Copies, Placed, Count, Held, Hand
<1>2. ASSUME Handed', NEW e PROVE Copies(e)' = Placed(e)'
  <2>1. \A t, u \in Threads : t # u => ToSet(hand'[t]) \cap ToSet(hand'[u]) = {}
    BY <1>2 DEF Handed, Hand
  <2> QED BY <2>1, HandsOne DEF Copies, Placed, Count, Held, Hand
<1> QED BY <1>1, <1>2

-----------------------------------------------------------------------------
(* The file *)

\* Where nothing is renamed, a rotation reopens the file it closed, with all it held, or
\* leaves it closed.
LEMMA RotatedIsFile ==
  ASSUME LoggerAssumption, OneFile
  PROVE  Rotated = file /\ MovedUp = file
<1> DEFINE last == IF MaxItems = 0 THEN 1 ELSE MaxItems
           moves == Reverse([i \in 1..last |-> i - 1])
           oldest == IF MaxItems = 0 THEN {} ELSE {Backup(MaxItems)}
           kept == [p \in DOMAIN file \ oldest |-> file[p]]
<1>1. last \in Nat \ {0}
  BY DEF LoggerAssumption
<1>2. moves \in [1..last -> Nat]
  <2>1. Len([i \in 1..last |-> i - 1]) = last
    BY <1>1
  <2> HIDE DEF last
  <2>2. \A i \in 1..last : last - i + 1 \in 1..last /\ last - i \in Nat
    BY <1>1
  <2> QED BY <1>1, <2>1, <2>2 DEF Reverse
<1>3. DOMAIN file = {LogFile} /\ file = [p \in DOMAIN file |-> file[p]]
  BY DEF OneFile
<1>4. LogFile \notin oldest
  BY DEF Backup, LogFile, LoggerAssumption
<1>5. kept = file
  <2>1. DOMAIN file \ oldest = DOMAIN file
    BY <1>3, <1>4
  <2> QED BY <1>3, <2>1
<1>6. FoldLeft(LAMBDA there, i : Renamed(there, Backup(i), Backup(i + 1)), kept, moves) = kept
  <2> HIDE DEF last, moves, kept
  <2> QED BY <1>1, <1>2, RenamesNothing
<1>7. Opened(file) = file
  BY <1>3 DEF Opened
<1>8. /\ Rotated = Opened(MovedUp)
      /\ MovedUp = FoldLeft(LAMBDA there, i : Renamed(there, Backup(i), Backup(i + 1)), kept, moves)
  BY DEF Rotated, MovedUp
<1> HIDE DEF last, moves, oldest, kept
<1> QED BY <1>5, <1>6, <1>7, <1>8

\* What FileSink::write does to the histories.
Put(e) ==
  \/ opened /\ UNCHANGED <<opened, lost>> /\ written' = Append(written, e)
  \/ ~opened /\ UNCHANGED <<opened, written>> /\ lost' = lost \cup {e}

\* One entry handed to the sink: appended to the file, or lost where none was opened.
LEMMA Writing ==
  ASSUME LoggerAssumption, OneFile, NEW e, write(e)
  PROVE  Put(e) /\ OneFile' /\ UNCHANGED <<opened, crashed>>
<1> DEFINE there == IF Full THEN Rotated ELSE file
<1>1. there = file
  BY RotatedIsFile
<1>2. CASE opened /\ file' = [there EXCEPT ![LogFile] = Append(@, e)]
             /\ written' = Append(written, e) /\ UNCHANGED <<opened, lost, crashed>>
  BY <1>1, <1>2 DEF OneFile, Put
<1>3. CASE ~opened /\ lost' = lost \cup {e} /\ UNCHANGED <<opened, file, written, crashed>>
  BY <1>3 DEF OneFile, Put
<1> QED BY <1>2, <1>3 DEF write

-----------------------------------------------------------------------------
(* Init and the steps that move no entry *)

\* The invariant holds at the start.
LEMMA InitInv == LoggerAssumption /\ Init => IInv
<1> SUFFICES ASSUME LoggerAssumption, Init PROVE IInv
  OBVIOUS
<1> USE DEF Init
<1>1. ToSet(<<>>) = {}
  BY SetOf
<1>7. file = [path \in {LogFile} |-> <<>>]
  OBVIOUS
<1>2. TypeOK
  <2>1. LogFile \in DOMAIN file
    BY <1>7
  <2>2. 0 \in 0..MaxEntries /\ 0 \in 0..MaxFlushes /\ <<>> \in Seq(Entries) /\ Len(<<>>) = 0
    BY DEF LoggerAssumption
  <2>3. pc \in [Threads -> CallerPc] /\ hand \in [Threads -> Seq(Entries)]
        /\ due \in [Threads -> SUBSET Entries] /\ worker \in WorkerPc /\ worker # "process"
    BY <2>2 DEF WorkerPc, CallerPc
  <2>4. /\ Len(queue) <= QueueSize /\ dropped \subseteq 1..issued /\ lost \subseteq 1..issued
        /\ before \subseteq Entries /\ (entry # <<>> <=> worker = "process")
    BY <2>2 DEF LoggerAssumption
  <2>5. /\ queue \in Seq(Entries) /\ entry \in Seq(Entries) /\ accepted \in Seq(Entries)
        /\ written \in Seq(Entries) /\ issued \in 0..MaxEntries /\ flushes \in 0..MaxFlushes
        /\ shutdown \in BOOLEAN /\ opened \in BOOLEAN /\ joined \in BOOLEAN /\ crashed \in BOOLEAN
    BY <2>2
  <2> HIDE DEF Init
  <2> QED BY <2>1, <2>3, <2>4, <2>5, Zenon DEF TypeOK
<1>3. Known /\ Queueing /\ Ending
  BY <1>1, Zenon DEF Known, Queueing, Ending, Hand
<1>4. Handed
  BY <1>1 DEF Handed, Hand
<1>5. Conserved
  BY DEF Conserved
<1>6. Ordered
  BY <1>1 DEF Ordered, Increasing, Ahead, FromQueue
<1>8. OneFile
  BY <1>7 DEF OneFile
<1> QED BY <1>2, <1>3, <1>4, <1>5, <1>6, <1>8 DEF IInv

\* A step that moves no entry leaves the books as they are.
LEMMA Control ==
  ASSUME IInv, UNCHANGED <<queueVars, entry, hand, sinkVars, flushes, issued>>,
         TypeOK', Handed', Ending', before' \subseteq ToSet(accepted)
  PROVE  IInv'
<1> USE DEF IInv, queueVars, sinkVars
<1>1. Known'
  BY DEF Known, Hand
<1>2. Conserved'
  BY DEF Conserved, Copies
<1>3. Queueing'
  BY DEF Queueing, Hand
<1>4. Ordered'
  BY DEF Ordered, Increasing, Ahead, FromQueue
<1>5. OneFile'
  BY DEF OneFile
<1> QED BY <1>1, <1>2, <1>3, <1>4, <1>5

\* The steps that only change where a thread or the worker is.
LEMMA ControlSteps ==
  ASSUME LoggerAssumption, IInv,
         \/ \E t \in Threads : NotifyOne(t) \/ FlushReturns(t) \/ Shutdown(t) \/ NotifyAll(t) \/ Join(t)
         \/ TestPredicate \/ Wait \/ TakeNone \/ WakesSpuriously
         \/ UNCHANGED vars
  PROVE  IInv'
<1> USE DEF IInv, queueVars, sinkVars, workerVars, flushVars, stopVars, callVars
<1>1. UNCHANGED <<queueVars, entry, hand, sinkVars, flushes, issued>>
  BY DEF NotifyOne, FlushReturns, Shutdown, NotifyAll, Join, TestPredicate, Wait, TakeNone,
         WakesSpuriously, Work, vars
<1>2. before' \subseteq ToSet(accepted)
  BY DEF NotifyOne, FlushReturns, Shutdown, NotifyAll, Join, TestPredicate, Wait, TakeNone,
         WakesSpuriously, Work, vars, Queueing
<1>3. TypeOK'
  <2>1. ASSUME NEW t \in Threads, NotifyOne(t) \/ NotifyAll(t) PROVE TypeOK'
    BY <2>1 DEF TypeOK, NotifyOne, NotifyAll, Notified, Goto, WorkerPc, CallerPc
  <2>2. ASSUME NEW t \in Threads, FlushReturns(t) PROVE TypeOK'
    BY <2>2 DEF TypeOK, FlushReturns, Goto, CallerPc
  <2>3. ASSUME NEW t \in Threads, Shutdown(t) PROVE TypeOK'
    <3>1. ToSet(accepted) \subseteq Entries
      BY DEF TypeOK, Known, Entries
    <3> QED BY <2>3, <3>1 DEF TypeOK, Shutdown, Goto, CallerPc
  <2>4. ASSUME NEW t \in Threads, Join(t) PROVE TypeOK'
    BY <2>4 DEF TypeOK, Join, Goto, CallerPc
  <2>5. ASSUME TestPredicate \/ Wait \/ TakeNone \/ WakesSpuriously PROVE TypeOK'
    BY <2>5 DEF TypeOK, TestPredicate, Wait, TakeNone, WakesSpuriously, Work, WorkerPc
  <2>6. ASSUME UNCHANGED vars PROVE TypeOK'
    BY <2>6 DEF TypeOK, vars
  <2> QED BY <2>1, <2>2, <2>3, <2>4, <2>5, <2>6
<1>4. Handed'
  <2>1. ASSUME NEW t \in Threads,
               NotifyOne(t) \/ FlushReturns(t) \/ Shutdown(t) \/ NotifyAll(t) \/ Join(t)
        PROVE  hand' = hand /\ entry' = entry /\ hand[t] = <<>>
               /\ \E label \in {"out", "notifyAll", "join"} : pc' = [pc EXCEPT ![t] = label]
    BY <2>1 DEF Handed, NotifyOne, FlushReturns, Shutdown, NotifyAll, Join, Goto
  <2>2. ASSUME NEW t \in Threads,
               NotifyOne(t) \/ FlushReturns(t) \/ Shutdown(t) \/ NotifyAll(t) \/ Join(t)
        PROVE  Handed'
    BY <2>1, <2>2 DEF Handed, Hand, TypeOK
  <2>3. ASSUME TestPredicate \/ Wait \/ TakeNone \/ WakesSpuriously \/ UNCHANGED vars PROVE Handed'
    BY <2>3 DEF Handed, Hand, TestPredicate, Wait, TakeNone, WakesSpuriously, Work, vars
  <2> QED BY <2>2, <2>3
<1>5. Ending'
  <2>1. ASSUME NEW t \in Threads, NotifyOne(t) \/ NotifyAll(t) PROVE Ending'
    BY <2>1 DEF Ending, NotifyOne, NotifyAll, Notified, Left, Hand
  <2>2. ASSUME NEW t \in Threads, FlushReturns(t) \/ Shutdown(t) \/ Join(t) PROVE Ending'
    BY <2>2 DEF Ending, FlushReturns, Shutdown, Join, Left, Hand
  <2>5. ASSUME TestPredicate \/ Wait \/ TakeNone \/ WakesSpuriously \/ UNCHANGED vars PROVE Ending'
    BY <2>5 DEF Ending, TestPredicate, Wait, TakeNone, WakesSpuriously, Work, vars, Left, Hand
  <2> QED BY <2>1, <2>2, <2>5
<1> QED BY <1>1, <1>2, <1>3, <1>4, <1>5, Control

\* The worker ends under shutdown, with nothing queued and nothing taken.
LEMMA TestLoopInv ==
  ASSUME LoggerAssumption, IInv, TestLoop
  PROVE  IInv'
<1> USE DEF IInv, queueVars, sinkVars, workerVars, flushVars, stopVars, callVars, TestLoop, Work
<1>1. TypeOK'
  BY DEF TypeOK, WorkerPc
<1>2. Handed'
  BY DEF Handed, Hand
<1>3. Ending'
  <2>1. CASE worker' # "done"
    BY <2>1 DEF Ending
  <2>2. CASE worker' = "done"
    <3>1. shutdown /\ queue = <<>> /\ entry = <<>>
      BY <2>2 DEF TypeOK
    <3>2. ASSUME NEW e \in before PROVE e \in Left
      <4>1. e \in 1..issued /\ e \notin dropped
        BY DEF Queueing, Known
      <4>2. Placed(e) = 1
        BY <4>1, CopiesPlaced DEF Conserved
      <4>3. Count(queue, e) = 0 /\ Count(entry, e) = 0
        BY <3>1, CountOf
      <4>4. Count(written, e) \in Nat /\ (Count(written, e) = 0 <=> e \notin ToSet(written))
        BY CountIsNat DEF TypeOK
      <4>5. Held(e) \/ e \in lost \/ e \in ToSet(written)
        BY <4>1, <4>2, <4>3, <4>4 DEF Placed
      <4> QED BY <4>5 DEF Held, Left
    <3> QED BY <2>2, <3>1, <3>2 DEF Ending, Left, Hand
  <2> QED BY <2>1, <2>2
<1>4. before' \subseteq ToSet(accepted)
  BY DEF Queueing
<1>5. UNCHANGED <<queueVars, entry, hand, sinkVars, flushes, issued>>
  OBVIOUS
<1> QED BY <1>1, <1>2, <1>3, <1>4, <1>5, Control

-----------------------------------------------------------------------------
(* New entries *)

\* The next entry is nowhere yet.
LEMMA Fresh ==
  ASSUME IInv
  PROVE  /\ NextEntry \notin ToSet(queue) \cup ToSet(entry) \cup ToSet(written) \cup ToSet(accepted)
         /\ NextEntry \notin dropped \cup lost /\ ~Held(NextEntry) /\ NextEntry \notin 1..issued
         /\ Count(queue, NextEntry) = 0 /\ Count(entry, NextEntry) = 0
         /\ Count(written, NextEntry) = 0
<1>1. issued \in Nat /\ NextEntry \notin 1..issued
  BY DEF IInv, TypeOK, NextEntry
<1>2. NextEntry \notin ToSet(queue) \cup ToSet(entry) \cup ToSet(written) \cup ToSet(accepted)
  BY <1>1 DEF IInv, Known
<1>3. NextEntry \notin dropped \cup lost
  BY <1>1 DEF IInv, TypeOK
<1>4. ~Held(NextEntry)
  BY <1>1 DEF IInv, Known, Held
<1>5. queue \in Seq(Entries) /\ entry \in Seq(Entries) /\ written \in Seq(Entries)
  BY DEF IInv, TypeOK
<1> QED BY <1>1, <1>2, <1>3, <1>4, <1>5, CountIsNat

\* Counts are numbers.
LEMMA Counts ==
  ASSUME TypeOK
  PROVE  \A e : /\ Count(queue, e) \in Nat /\ (Count(queue, e) = 0 <=> e \notin ToSet(queue))
                /\ Count(entry, e) \in Nat /\ (Count(entry, e) = 0 <=> e \notin ToSet(entry))
                /\ Count(written, e) \in Nat /\ (Count(written, e) = 0 <=> e \notin ToSet(written))
  BY CountIsNat DEF TypeOK

\* WriteLogAsync queues its entry, drops it, or drops the oldest for it.
LEMMA AsyncInv ==
  ASSUME LoggerAssumption, IInv, NEW t \in Threads, WriteLogAsync(t)
  PROVE  IInv'
<1> DEFINE n == NextEntry
<1> USE DEF IInv
<1>1. /\ issued \in Nat /\ issued' = n /\ n = issued + 1 /\ n \in Entries /\ issued' \in 0..MaxEntries
      /\ pc[t] = "out" /\ hand[t] = <<>>
      /\ UNCHANGED <<shutdown, worker, entry, hand, opened, crashed, file, written, lost, flushes, due, joined, before>>
  <2>1. /\ pc[t] = "out" /\ issued' = n /\ issued < MaxEntries
        /\ UNCHANGED <<shutdown, worker, entry, hand, opened, crashed, file, written, lost, flushes, due, joined, before>>
    BY DEF WriteLogAsync, workerVars, sinkVars, flushVars, stopVars
  <2>2. issued \in Nat /\ n = issued + 1 /\ n \in Entries /\ n \in 0..MaxEntries
    BY <2>1 DEF TypeOK, Entries, LoggerAssumption, NextEntry
  <2>3. hand[t] = <<>>
    BY <2>1 DEF Handed
  <2> QED BY <2>1, <2>2, <2>3
<1>2. \A e \in 1..issued : e # n /\ e \in 1..issued'
  BY <1>1
<1>3. \A e \in 1..issued' : e = n \/ e \in 1..issued
  BY <1>1
<1>4. \A e : Held(e)' = Held(e)
  BY <1>1 DEF Held, Hand
<1>5. OneFile'
  BY <1>1 DEF OneFile
<1>6. CASE dropped' = dropped \cup {n} /\ UNCHANGED <<queue, accepted, pc>>
  <2>1. TypeOK'
    <3>1. dropped' \subseteq 1..issued' /\ lost' \subseteq 1..issued'
      BY <1>1, <1>2, <1>6 DEF TypeOK
    <3> QED BY <1>1, <1>6, <3>1 DEF TypeOK
  <2>2. Known'
    BY <1>1, <1>2, <1>6 DEF Known, Hand
  <2>3. Handed'
    BY <1>1, <1>6 DEF Handed, Hand
  <2>4. Conserved'
    <3>1. ASSUME NEW e \in 1..issued' PROVE Placed(e)' = 1
      <4>1. CASE e = n
        BY <1>1, <1>4, <1>6, <4>1, Fresh DEF Placed
      <4>2. CASE e \in 1..issued
        <5>1. Placed(e) = 1
          BY <4>2, CopiesPlaced DEF Conserved
        <5> QED BY <1>1, <1>2, <1>4, <1>6, <4>2, <5>1 DEF Placed
      <4> QED BY <1>3, <4>1, <4>2
    <3> QED BY <2>3, <3>1, CopiesPlaced DEF Conserved
  <2>5. Queueing'
    BY <1>1, <1>6, Fresh DEF Queueing, Hand
  <2>6. Ordered'
    BY <1>1, <1>6 DEF Ordered, Increasing, Ahead, FromQueue
  <2>7. Ending'
    BY <1>1, <1>6 DEF Ending, Left, Hand
  <2> QED BY <1>5, <2>1, <2>2, <2>3, <2>4, <2>5, <2>6, <2>7
<1>7. CASE /\ Len(queue) < QueueSize
           /\ queue' = Append(queue, n) /\ accepted' = Append(accepted, n)
           /\ Goto(t, "notify") /\ UNCHANGED dropped
  <2> queue \in Seq(Entries) /\ accepted \in Seq(Entries) /\ n \in Entries
    BY <1>1 DEF TypeOK
  <2>9. ToSet(queue') = ToSet(queue) \cup {n} /\ ToSet(accepted') = ToSet(accepted) \cup {n}
    BY <1>7, SetOf
  <2>1. TypeOK'
    <3>1. dropped' \subseteq 1..issued' /\ lost' \subseteq 1..issued'
      BY <1>1, <1>2, <1>7 DEF TypeOK
    <3>2. queue' \in Seq(Entries) /\ accepted' \in Seq(Entries) /\ Len(queue') <= QueueSize
      BY <1>7 DEF LoggerAssumption
    <3>3. pc' \in [Threads -> CallerPc]
      BY <1>7 DEF TypeOK, Goto, CallerPc
    <3> QED BY <1>1, <1>7, <3>1, <3>2, <3>3 DEF TypeOK
  <2>2. Known'
    <3>1. n \in 1..issued'
      BY <1>1
    <3> QED BY <1>1, <1>2, <2>9, <3>1 DEF Known, Hand
  <2>3. Handed'
    BY <1>1, <1>7 DEF Handed, Hand, Goto, TypeOK
  <2>4. Conserved'
    <3>1. ASSUME NEW e \in 1..issued' PROVE Placed(e)' = 1
      <4> HIDE DEF n
      <4>3. Count(queue', e) = Count(queue, e) + (IF n = e THEN 1 ELSE 0)
        BY <1>7, CountAppend
      <4>1. CASE e = n
        BY <1>1, <1>4, <1>7, <4>1, <4>3, Fresh DEF Placed, n
      <4>2. CASE e \in 1..issued
        <5>1. Placed(e) = 1 /\ e # n
          BY <1>2, <4>2, CopiesPlaced DEF Conserved
        <5>2. Count(queue', e) = Count(queue, e)
          BY <4>3, <5>1, Counts
        <5> QED BY <1>1, <1>4, <1>7, <5>1, <5>2 DEF Placed
      <4> QED BY <1>3, <4>1, <4>2
    <3> QED BY <2>3, <3>1, CopiesPlaced DEF Conserved
  <2>5. Queueing'
    <3>1. \A u \in Threads : n \notin Hand(u)
      BY Fresh DEF Held
    <3> QED BY <1>1, <1>7, <2>9, <3>1, Fresh DEF Queueing, Hand
  <2>6. Ordered'
    <3> SUFFICES ASSUME flushes = 0 /\ opened PROVE Ordered'
      BY <1>1 DEF Ordered
    <3>1. n \notin ToSet(written)
      BY Fresh
    <3>2. FromQueue' = FromQueue
      BY <1>1, <2>9, <3>1 DEF FromQueue
    <3>3. \A x \in 1..issued : x < n
      BY <1>1
    <3>4. Ahead(FromQueue, ToSet(entry) \cup ToSet(queue'))
      BY <2>9, <3>3 DEF Ordered, Ahead, FromQueue, Known
    <3>5. Ahead(ToSet(entry), ToSet(queue'))
      BY <2>9, <3>3 DEF Ordered, Ahead, Known
    <3>6. Increasing(queue')
      <4>1. Len(queue) \in Nat /\ DOMAIN queue = 1..Len(queue) /\ DOMAIN queue' = 1..(Len(queue) + 1)
        BY <1>7, LenProperties, AppendProperties
      <4>2. \A i \in 1..Len(queue) : queue'[i] = queue[i] /\ queue[i] \in ToSet(queue)
        BY <1>7, <4>1 DEF ToSet
      <4>3. queue'[Len(queue) + 1] = n
        BY <1>7
      <4>4. \A i \in 1..Len(queue) : queue'[i] < n
        BY <3>3, <4>2 DEF Known
      <4>5. ASSUME NEW i \in DOMAIN queue', NEW j \in DOMAIN queue', i < j PROVE queue'[i] < queue'[j]
        <5>1. CASE j = Len(queue) + 1
          <6>1. i \in 1..Len(queue)
            BY <4>1, <4>5, <5>1
          <6> QED BY <4>3, <4>4, <5>1, <6>1
        <5>2. CASE j # Len(queue) + 1
          <6>1. i \in 1..Len(queue) /\ j \in 1..Len(queue)
            BY <4>1, <4>5, <5>2
          <6> QED BY <4>1, <4>2, <4>5, <6>1 DEF Ordered, Increasing
        <5> QED BY <5>1, <5>2
      <4> QED BY <4>5 DEF Increasing
    <3>7. \A i, j \in DOMAIN written :
            i < j /\ {written[i], written[j]} \subseteq ToSet(accepted') => written[i] < written[j]
      <4>1. \A i \in DOMAIN written : written[i] # n
        BY <3>1 DEF ToSet
      <4> QED BY <2>9, <4>1 DEF Ordered
    <3>8. /\ ToSet(queue') \cup ToSet(entry) \subseteq ToSet(accepted')
          /\ ToSet(accepted') \subseteq ToSet(written) \cup ToSet(entry) \cup ToSet(queue')
      BY <2>9 DEF Ordered
    <3> HIDE DEF n
    <3> QED BY <1>1, <3>2, <3>4, <3>5, <3>6, <3>7, <3>8, Zenon DEF Ordered, Ahead, Increasing
  <2>7. Ending'
    BY <1>1, <1>7 DEF Ending, Left, Hand
  <2> QED BY <1>5, <2>1, <2>2, <2>3, <2>4, <2>5, <2>6, <2>7
<1>8. Len(queue) \in Nat /\ QueueSize \in Nat
  BY DEF TypeOK, LoggerAssumption
<1> QED BY <1>6, <1>7, <1>8 DEF WriteLogAsync

\* WriteLogSync has its entry to write.
LEMMA SyncInv ==
  ASSUME LoggerAssumption, IInv, NEW t \in Threads, WriteLogSync(t)
  PROVE  IInv'
<1> DEFINE n == NextEntry
<1> USE DEF IInv
<1>1. /\ issued \in Nat /\ issued' = n /\ n = issued + 1 /\ n \in Entries /\ issued' \in 0..MaxEntries
      /\ pc[t] = "out" /\ hand[t] = <<>>
      /\ hand' = [hand EXCEPT ![t] = <<n>>] /\ pc' = [pc EXCEPT ![t] = "write"]
      /\ UNCHANGED <<queue, dropped, accepted, shutdown, worker, entry, opened, crashed, file, written, lost,
                     flushes, due, joined, before>>
  <2>1. /\ pc[t] = "out" /\ issued' = n /\ issued < MaxEntries
        /\ hand' = [hand EXCEPT ![t] = <<n>>] /\ pc' = [pc EXCEPT ![t] = "write"]
        /\ UNCHANGED <<queue, dropped, accepted, shutdown, worker, entry, opened, crashed, file, written, lost,
                       flushes, due, joined, before>>
    BY DEF WriteLogSync, workerVars, sinkVars, flushVars, stopVars, queueVars, Goto
  <2>2. issued \in Nat /\ n = issued + 1 /\ n \in Entries /\ n \in 0..MaxEntries
    BY <2>1 DEF TypeOK, Entries, LoggerAssumption, NextEntry
  <2>3. hand[t] = <<>>
    BY <2>1 DEF Handed
  <2> QED BY <2>1, <2>2, <2>3
<1>2. \A e \in 1..issued : e # n /\ e \in 1..issued'
  BY <1>1
<1>3. \A e \in 1..issued' : e = n \/ e \in 1..issued
  BY <1>1
<1>4. ToSet(<<n>>) = {n} /\ ToSet(<<>>) = {}
  BY SetOf
<1>5. /\ Hand(t)' = {n} /\ Hand(t) = {}
      /\ \A u \in Threads : u # t => Hand(u)' = Hand(u) /\ hand'[u] = hand[u] /\ pc'[u] = pc[u]
  BY <1>1, <1>4 DEF Hand, TypeOK
<1>6. \A u \in Threads : n \notin Hand(u)
  BY Fresh DEF Held
<1>7. \A e : Held(e)' <=> Held(e) \/ e = n
  BY <1>5 DEF Held
<1> HIDE DEF n
<1>8. OneFile'
  BY <1>1 DEF OneFile
<1>9. TypeOK'
  <2>1. dropped' \subseteq 1..issued' /\ lost' \subseteq 1..issued'
    BY <1>1, <1>2 DEF TypeOK
  <2>2. pc' \in [Threads -> CallerPc] /\ hand' \in [Threads -> Seq(Entries)]
    BY <1>1 DEF TypeOK, CallerPc
  <2> QED BY <1>1, <2>1, <2>2 DEF TypeOK
<1>10. Known'
  <2>1. n \in 1..issued'
    BY <1>1
  <2>2. ASSUME NEW u \in Threads PROVE Hand(u)' \subseteq 1..issued'
    BY <1>2, <1>5, <2>1 DEF Known
  <2> QED BY <1>1, <1>2, <2>2 DEF Known
<1>11. Handed'
  <2>1. ASSUME NEW u \in Threads
        PROVE  (/\ hand[u] # <<>> => pc[u] \in {"write", "flush"}
                /\ pc[u] = "write" => Len(hand[u]) = 1
                /\ \A i, j \in DOMAIN hand[u] : hand[u][i] = hand[u][j] => i = j)'
    <3>1. CASE u = t
      <4>1. hand'[t] = <<n>> /\ pc'[t] = "write"
        BY <1>1 DEF TypeOK
      <4>2. Len(<<n>>) = 1 /\ DOMAIN <<n>> = {1}
        OBVIOUS
      <4> QED BY <3>1, <4>1, <4>2
    <3>2. CASE u # t
      BY <1>5, <3>2 DEF Handed
    <3> QED BY <3>1, <3>2
  <2>2. ASSUME NEW u \in Threads, NEW v \in Threads, u # v PROVE Hand(u)' \cap Hand(v)' = {}
    BY <1>5, <1>6, <2>2 DEF Handed
  <2> QED BY <1>1, <2>1, <2>2 DEF Handed
<1>12. Conserved'
  <2>1. ASSUME NEW e \in 1..issued' PROVE Placed(e)' = 1
    <3>1. CASE e = n
      BY <1>1, <1>7, <3>1, Fresh DEF Placed, n
    <3>2. CASE e \in 1..issued
      <4>1. Placed(e) = 1 /\ e # n
        BY <1>2, <3>2, CopiesPlaced DEF Conserved
      <4> QED BY <1>1, <1>7, <4>1 DEF Placed
    <3> QED BY <1>3, <3>1, <3>2
  <2> QED BY <1>11, <2>1, CopiesPlaced DEF Conserved
<1>13. Queueing'
  <2>1. n \notin ToSet(accepted)
    BY Fresh DEF n
  <2> QED BY <1>1, <1>5, <2>1 DEF Queueing
<1>14. Ordered'
  BY <1>1 DEF Ordered, Increasing, Ahead, FromQueue
<1>15. Ending'
  <2>1. Left \subseteq Left'
    BY <1>1, <1>5 DEF Left
  <2> QED BY <1>1, <2>1 DEF Ending
<1> QED BY <1>8, <1>9, <1>10, <1>11, <1>12, <1>13, <1>14, <1>15

-----------------------------------------------------------------------------
(* Entries that move *)

\* What is handed to the sink is written or lost with it.
LEMMA PutPlaces ==
  ASSUME TypeOK, NEW x \in Entries, x \notin lost, Put(x)
  PROVE  /\ written' \in Seq(Entries)
         /\ ToSet(written') \cup lost' = ToSet(written) \cup lost \cup {x}
         /\ ToSet(written') \subseteq ToSet(written) \cup {x} /\ lost' \subseteq lost \cup {x}
         /\ opened' => ToSet(written') = ToSet(written) \cup {x}
         /\ \A e : Count(written', e) + (IF e \in lost' THEN 1 ELSE 0) =
                   Count(written, e) + (IF e \in lost THEN 1 ELSE 0) + (IF e = x THEN 1 ELSE 0)
<1>1. written \in Seq(Entries)
  BY DEF TypeOK
<1>2. CASE UNCHANGED <<opened, lost>> /\ written' = Append(written, x)
  <2>1. ToSet(written') = ToSet(written) \cup {x}
    BY <1>1, <1>2, SetOf
  <2>2. ASSUME NEW e
        PROVE  Count(written', e) + (IF e \in lost' THEN 1 ELSE 0) =
                 Count(written, e) + (IF e \in lost THEN 1 ELSE 0) + (IF e = x THEN 1 ELSE 0)
    <3>1. Count(written', e) = Count(written, e) + (IF x = e THEN 1 ELSE 0)
      BY <1>1, <1>2, CountAppend
    <3>2. Count(written, e) \in Nat
      BY Counts
    <3> QED BY <1>2, <3>1, <3>2
  <2>3. written' \in Seq(Entries)
    BY <1>1, <1>2
  <2> QED BY <1>2, <2>1, <2>2, <2>3
<1>3. CASE ~opened' /\ lost' = lost \cup {x} /\ UNCHANGED written
  <2>1. ASSUME NEW e
        PROVE  Count(written', e) + (IF e \in lost' THEN 1 ELSE 0) =
                 Count(written, e) + (IF e \in lost THEN 1 ELSE 0) + (IF e = x THEN 1 ELSE 0)
    BY <1>3, Counts
  <2> QED BY <1>1, <1>3, <2>1
<1> QED BY <1>2, <1>3 DEF Put

\* An entry that follows all those of its kind keeps them in order.
LEMMA PutOrders ==
  ASSUME TypeOK, NEW x \in Entries, Put(x), NEW A,
         \A i, j \in DOMAIN written : i < j /\ {written[i], written[j]} \subseteq A => written[i] < written[j],
         x \in A => \A y \in ToSet(written) \cap A : y < x
  PROVE  \A i, j \in DOMAIN written' : i < j /\ {written'[i], written'[j]} \subseteq A => written'[i] < written'[j]
<1>1. CASE written' = written
  BY <1>1
<1>2. CASE written' = Append(written, x)
  <2>1. /\ Len(written) \in Nat /\ DOMAIN written = 1..Len(written)
        /\ DOMAIN written' = 1..(Len(written) + 1)
    BY <1>2, LenProperties, AppendProperties DEF TypeOK
  <2>2. \A i \in 1..Len(written) : written'[i] = written[i] /\ written[i] \in ToSet(written)
    <3>1. \A i \in 1..Len(written) : written'[i] = written[i]
      BY <1>2, <2>1 DEF TypeOK
    <3> QED BY <2>1, <3>1 DEF ToSet
  <2>3. written'[Len(written) + 1] = x
    BY <1>2 DEF TypeOK
  <2>4. ASSUME NEW i \in DOMAIN written', NEW j \in DOMAIN written', i < j,
               {written'[i], written'[j]} \subseteq A
        PROVE  written'[i] < written'[j]
    <3>1. CASE j = Len(written) + 1
      <4>1. i \in 1..Len(written)
        BY <2>1, <2>4, <3>1
      <4>2. written'[j] = x /\ x \in A
        BY <2>3, <2>4, <3>1
      <4>3. written'[i] \in ToSet(written) \cap A
        BY <2>2, <2>4, <4>1
      <4> QED BY <4>2, <4>3
    <3>2. CASE j # Len(written) + 1
      <4>1. i \in DOMAIN written /\ j \in DOMAIN written
        BY <2>1, <2>4, <3>2
      <4>2. written'[i] = written[i] /\ written'[j] = written[j]
        BY <2>1, <2>2, <4>1
      <4> QED BY <2>4, <4>1, <4>2
    <3> QED BY <3>1, <3>2
  <2> QED BY <2>4
<1> QED BY <1>1, <1>2 DEF Put

\* A caller writes the first of the entries it has.
LEMMA WriteNextInv ==
  ASSUME LoggerAssumption, IInv, NEW t \in Threads, WriteNext(t)
  PROVE  IInv'
<1> DEFINE x == Head(hand[t])
<1> USE DEF IInv
<1>1. /\ pc[t] \in {"write", "flush"} /\ hand[t] # <<>> /\ write(x)
      /\ hand' = [hand EXCEPT ![t] = Tail(hand[t])]
      /\ pc' = IF pc[t] = "write" THEN [pc EXCEPT ![t] = "out"] ELSE pc
      /\ UNCHANGED <<queue, dropped, accepted, shutdown, worker, entry, flushes, due, joined, before, issued>>
  BY DEF WriteNext, Goto, queueVars, workerVars, flushVars, stopVars
<1>2. hand[t] \in Seq(Entries) /\ Tail(hand[t]) \in Seq(Entries) /\ x \in Entries /\ x \in Hand(t)
      /\ Hand(t) = {x} \cup ToSet(Tail(hand[t]))
  <2>1. hand[t] \in Seq(Entries)
    BY DEF TypeOK
  <2> QED BY <1>1, <2>1, SetOf, HeadTailProperties DEF Hand
<1>3. x \notin ToSet(Tail(hand[t]))
      /\ \A i, j \in DOMAIN Tail(hand[t]) : Tail(hand[t])[i] = Tail(hand[t])[j] => i = j
  BY <1>1, <1>2, TailDiffers DEF Handed
<1>4. /\ Hand(t)' = Hand(t) \ {x}
      /\ \A u \in Threads : u # t => /\ Hand(u)' = Hand(u) /\ hand'[u] = hand[u] /\ pc'[u] = pc[u]
                                  /\ x \notin Hand(u)
  <2>1. hand'[t] = Tail(hand[t])
    BY <1>1 DEF TypeOK
  <2>2. \A u \in Threads : u # t => hand'[u] = hand[u] /\ pc'[u] = pc[u]
    BY <1>1 DEF TypeOK
  <2>3. \A u \in Threads : u # t => x \notin Hand(u)
    BY <1>2 DEF Handed
  <2>4. Hand(t)' = ToSet(Tail(hand[t]))
    BY <2>1 DEF Hand
  <2> QED BY <1>2, <1>3, <2>2, <2>3, <2>4 DEF Hand
<1>5. Held(x) /\ \A e : Held(e)' <=> Held(e) /\ e # x
  BY <1>2, <1>4 DEF Held
<1>6. x \in 1..issued
  BY <1>2 DEF Known
<1>7. Placed(x) = 1
  BY <1>6, CopiesPlaced DEF Conserved
<1>8. x \notin lost
  BY <1>5, <1>7, Counts DEF Placed
<1> HIDE DEF x
<1>9. Put(x) /\ OneFile' /\ opened' = opened /\ crashed' = crashed
  BY <1>1, Writing DEF TypeOK
<1>10. /\ written' \in Seq(Entries)
       /\ ToSet(written') \cup lost' = ToSet(written) \cup lost \cup {x}
       /\ ToSet(written') \subseteq ToSet(written) \cup {x} /\ lost' \subseteq lost \cup {x}
       /\ opened' => ToSet(written') = ToSet(written) \cup {x}
       /\ \A e : Count(written', e) + (IF e \in lost' THEN 1 ELSE 0) =
                 Count(written, e) + (IF e \in lost THEN 1 ELSE 0) + (IF e = x THEN 1 ELSE 0)
  BY <1>2, <1>8, <1>9, PutPlaces
<1>11. TypeOK'
  <2>1. hand' \in [Threads -> Seq(Entries)] /\ pc' \in [Threads -> CallerPc]
    BY <1>1, <1>2 DEF TypeOK, CallerPc
  <2>2. lost' \subseteq 1..issued
    BY <1>6, <1>10 DEF TypeOK
  <2>3. LogFile \in DOMAIN file'
    BY <1>9 DEF OneFile
  <2> QED BY <1>1, <1>9, <1>10, <2>1, <2>2, <2>3 DEF TypeOK
<1>12. Known'
  <2>1. ASSUME NEW u \in Threads PROVE Hand(u)' \subseteq 1..issued
    BY <1>4 DEF Known
  <2>2. ToSet(written') \subseteq 1..issued
    BY <1>6, <1>10 DEF Known
  <2> QED BY <1>1, <2>1, <2>2 DEF Known
<1>13. Handed'
  <2>1. ASSUME NEW u \in Threads
        PROVE  (/\ hand[u] # <<>> => pc[u] \in {"write", "flush"}
                /\ pc[u] = "write" => Len(hand[u]) = 1
                /\ \A i, j \in DOMAIN hand[u] : hand[u][i] = hand[u][j] => i = j)'
    <3>1. CASE u = t
      <4>1. hand'[t] = Tail(hand[t]) /\ pc'[t] = IF pc[t] = "write" THEN "out" ELSE "flush"
        BY <1>1 DEF TypeOK
      <4>2. pc[t] = "write" => Tail(hand[t]) = <<>>
        <5>1. pc[t] = "write" => Len(hand[t]) = 1
          BY DEF Handed
        <5>2. Len(Tail(hand[t])) = Len(hand[t]) - 1
          BY <1>1, <1>2, HeadTailProperties
        <5>3. Len(Tail(hand[t])) = 0 => Tail(hand[t]) = <<>>
          BY <1>2, EmptySeq
        <5> QED BY <5>1, <5>2, <5>3
      <4> QED BY <1>3, <3>1, <4>1, <4>2
    <3>2. CASE u # t
      BY <1>4, <3>2 DEF Handed
    <3> QED BY <3>1, <3>2
  <2>2. ASSUME NEW u \in Threads, NEW v \in Threads, u # v PROVE Hand(u)' \cap Hand(v)' = {}
    BY <1>4, <2>2 DEF Handed
  <2> QED BY <1>1, <2>1, <2>2 DEF Handed
<1>14. Conserved'
  <2>1. ASSUME NEW e \in 1..issued PROVE Placed(e)' = 1
    <3>1. Placed(e) = 1
      BY CopiesPlaced DEF Conserved
    <3>2. Count(written', e) \in Nat
      BY <1>10, CountIsNat
    <3>3. Count(queue', e) = Count(queue, e) /\ Count(entry', e) = Count(entry, e) /\ dropped' = dropped
      BY <1>1
    <3>4. /\ Count(queue, e) \in Nat /\ Count(entry, e) \in Nat /\ Count(written, e) \in Nat
          /\ Count(written', e) + (IF e \in lost' THEN 1 ELSE 0) =
               Count(written, e) + (IF e \in lost THEN 1 ELSE 0) + (IF e = x THEN 1 ELSE 0)
      BY <1>10, Counts
    <3>5. CASE e = x
      <4>1. Held(e) /\ ~Held(e)'
        BY <1>5, <3>5
      <4> QED BY <3>1, <3>2, <3>3, <3>4, <3>5, <4>1 DEF Placed
    <3>6. CASE e # x
      <4>1. Held(e)' <=> Held(e)
        BY <1>5, <3>6
      <4> QED BY <3>1, <3>2, <3>3, <3>4, <3>6, <4>1 DEF Placed
    <3> QED BY <3>5, <3>6
  <2> QED BY <1>1, <1>13, <2>1, CopiesPlaced DEF Conserved
<1>15. Queueing'
  BY <1>1, <1>4 DEF Queueing
<1>16. Ordered'
  <2> SUFFICES ASSUME flushes = 0 /\ opened' PROVE Ordered'
    BY <1>1 DEF Ordered
  <2>1. opened /\ x \notin ToSet(accepted)
    BY <1>2, <1>9 DEF Queueing
  <2>2. ToSet(written') = ToSet(written) \cup {x} /\ FromQueue' = FromQueue
    BY <1>1, <1>10, <2>1 DEF FromQueue
  <2>3. \A i, j \in DOMAIN written' :
          i < j /\ {written'[i], written'[j]} \subseteq ToSet(accepted) => written'[i] < written'[j]
    <3>1. \A i, j \in DOMAIN written :
            i < j /\ {written[i], written[j]} \subseteq ToSet(accepted) => written[i] < written[j]
      BY <2>1 DEF Ordered
    <3> QED BY <1>2, <1>9, <2>1, <3>1, PutOrders
  <2>4. /\ ToSet(queue) \cup ToSet(entry) \subseteq ToSet(accepted)
        /\ ToSet(accepted) \subseteq ToSet(written') \cup ToSet(entry) \cup ToSet(queue)
        /\ Increasing(queue) /\ Ahead(ToSet(entry), ToSet(queue))
        /\ Ahead(FromQueue, ToSet(entry) \cup ToSet(queue))
    BY <2>1, <2>2 DEF Ordered
  <2> QED BY <1>1, <2>2, <2>3, <2>4, Zenon DEF Ordered, Increasing, Ahead
<1>17. Ending'
  <2>1. Left \subseteq Left'
    BY <1>4, <1>10 DEF Left
  <2> QED BY <1>1, <2>1 DEF Ending
<1> QED BY <1>9, <1>11, <1>12, <1>13, <1>14, <1>15, <1>16, <1>17

\* Flush takes the queue over from the worker.
LEMMA FlushInv ==
  ASSUME LoggerAssumption, IInv, NEW t \in Threads, Flush(t)
  PROVE  IInv'
<1> USE DEF IInv
<1>1. /\ pc[t] = "out" /\ flushes < MaxFlushes /\ flushes' = flushes + 1
      /\ hand' = [hand EXCEPT ![t] = queue] /\ queue' = <<>> /\ pc' = [pc EXCEPT ![t] = "flush"]
      /\ due' = [due EXCEPT ![t] = ToSet(accepted)]
      /\ UNCHANGED <<dropped, accepted, shutdown, worker, entry, opened, crashed, file, written, lost,
                     joined, before, issued>>
  BY DEF Flush, Goto, workerVars, sinkVars, stopVars
<1>2. hand[t] = <<>> /\ Hand(t) = {}
  BY <1>1, SetOf DEF Handed, Hand
<1>3. queue \in Seq(Entries) /\ ToSet(queue') = {}
  BY <1>1, SetOf DEF TypeOK
<1>4. /\ Hand(t)' = ToSet(queue) /\ hand'[t] = queue /\ pc'[t] = "flush"
      /\ \A u \in Threads : u # t => Hand(u)' = Hand(u) /\ hand'[u] = hand[u] /\ pc'[u] = pc[u]
  BY <1>1 DEF TypeOK, Hand
<1>5. ASSUME NEW e \in ToSet(queue) PROVE ~Held(e) /\ Count(queue, e) = 1
  <2>1. e \in 1..issued
    BY DEF Known
  <2>2. Placed(e) = 1
    BY <2>1, CopiesPlaced DEF Conserved
  <2>3. Count(queue, e) \in Nat /\ Count(queue, e) # 0
    BY Counts
  <2> QED BY <2>2, <2>3, Counts DEF Placed
<1>6. \A e : Held(e)' <=> Held(e) \/ e \in ToSet(queue)
  BY <1>2, <1>4 DEF Held
<1>7. OneFile' /\ ~(flushes' = 0)
  BY <1>1 DEF OneFile, TypeOK
<1>8. TypeOK'
  <2>1. ToSet(accepted) \subseteq Entries
    BY DEF Known, TypeOK, Entries
  <2>2. due' \in [Threads -> SUBSET Entries] /\ hand' \in [Threads -> Seq(Entries)]
        /\ pc' \in [Threads -> CallerPc]
    BY <1>1, <1>3, <2>1 DEF TypeOK, CallerPc
  <2>3. flushes' \in 0..MaxFlushes
    BY <1>1 DEF TypeOK, LoggerAssumption
  <2>4. queue' \in Seq(Entries) /\ Len(queue') <= QueueSize
    BY <1>1 DEF LoggerAssumption
  <2> QED BY <1>1, <2>2, <2>3, <2>4 DEF TypeOK
<1>9. Known'
  <2>1. ASSUME NEW u \in Threads PROVE Hand(u)' \subseteq 1..issued
    BY <1>4 DEF Known
  <2> QED BY <1>1, <1>3, <2>1 DEF Known
<1>10. Handed'
  <2>1. ASSUME NEW u \in Threads
        PROVE  (/\ hand[u] # <<>> => pc[u] \in {"write", "flush"}
                /\ pc[u] = "write" => Len(hand[u]) = 1
                /\ \A i, j \in DOMAIN hand[u] : hand[u][i] = hand[u][j] => i = j)'
    <3>1. CASE u = t
      <4>1. ASSUME NEW i \in DOMAIN queue, NEW j \in DOMAIN queue, queue[i] = queue[j] PROVE i = j
        <5>1. queue[i] \in ToSet(queue)
          BY DEF ToSet
        <5>2. Count(queue, queue[i]) <= 1
          BY <1>5, <5>1
        <5> QED BY <1>3, <4>1, <5>2, CountOne
      <4> QED BY <1>4, <3>1, <4>1
    <3>2. CASE u # t
      BY <1>4, <3>2 DEF Handed
    <3> QED BY <3>1, <3>2
  <2>2. ASSUME NEW u \in Threads, NEW v \in Threads, u # v PROVE Hand(u)' \cap Hand(v)' = {}
    <3>1. \A w \in Threads : Hand(w) \cap ToSet(queue) = {}
      BY <1>5 DEF Held
    <3> QED BY <1>4, <2>2, <3>1 DEF Handed
  <2> QED BY <1>1, <2>1, <2>2 DEF Handed
<1>11. Conserved'
  <2>1. ASSUME NEW e \in 1..issued PROVE Placed(e)' = 1
    <3>1. Placed(e) = 1
      BY CopiesPlaced DEF Conserved
    <3>2. Count(queue', e) = 0
      BY <1>1, CountOf
    <3>3. UNCHANGED <<entry, written, dropped, lost>>
      BY <1>1
    <3>4. CASE e \in ToSet(queue)
      BY <1>5, <1>6, <3>1, <3>2, <3>3, <3>4, Counts DEF Placed
    <3>5. CASE e \notin ToSet(queue)
      <4>1. Count(queue, e) = 0
        BY <3>5, Counts
      <4> QED BY <1>6, <3>1, <3>2, <3>3, <3>5, <4>1 DEF Placed
    <3> QED BY <3>4, <3>5
  <2> QED BY <1>1, <1>10, <2>1, CopiesPlaced DEF Conserved
<1>12. Queueing' /\ Ordered'
  BY <1>1, <1>7 DEF Queueing, Ordered
<1>13. Ending'
  <2>1. Left \subseteq Left'
    BY <1>1, <1>2, <1>4 DEF Left
  <2> QED BY <1>1, <2>1 DEF Ending
<1> QED BY <1>7, <1>8, <1>9, <1>10, <1>11, <1>12, <1>13

\* The worker takes the oldest entry.
LEMMA TakeInv ==
  ASSUME LoggerAssumption, IInv, Take
  PROVE  IInv'
<1> DEFINE x == Head(queue)
<1> USE DEF IInv
<1>1. /\ worker = "take" /\ queue # <<>> /\ worker' = "process" /\ entry' = <<x>> /\ queue' = Tail(queue)
      /\ UNCHANGED <<dropped, accepted, shutdown, pc, hand, opened, crashed, file, written, lost, flushes, due,
                     joined, before, issued>>
  BY DEF Take, callVars, sinkVars, flushVars, stopVars
<1>2. queue \in Seq(Entries) /\ queue' \in Seq(Entries) /\ x \in ToSet(queue) /\ x \in Entries
      /\ ToSet(queue) = {x} \cup ToSet(queue') /\ entry = <<>> /\ Len(queue') = Len(queue) - 1
  <2>1. queue \in Seq(Entries) /\ entry = <<>>
    BY <1>1 DEF TypeOK
  <2> QED BY <1>1, <2>1, SetOf, HeadTailProperties
<1>3. ToSet(entry) = {} /\ ToSet(entry') = {x} /\ Len(entry') = 1
  BY <1>1, <1>2, SetOf
<1>4. \A e : Count(queue', e) + Count(entry', e) = Count(queue, e) + Count(entry, e)
  <2>1. ASSUME NEW e PROVE Count(queue', e) + Count(entry', e) = Count(queue, e) + Count(entry, e)
    <3>1. Count(queue, e) = Count(Tail(queue), e) + (IF x = e THEN 1 ELSE 0)
      BY <1>1, <1>2, CountTail
    <3>2. Count(entry, e) = 0 /\ Count(entry', e) = IF x = e THEN 1 ELSE 0
      BY <1>1, <1>2, CountOf
    <3>3. Count(queue', e) \in Nat
      BY <1>2, CountIsNat
    <3> QED BY <1>1, <3>1, <3>2, <3>3
  <2> QED BY <2>1
<1>5. entry' \in Seq(Entries) /\ entry' # <<>>
  BY <1>1, <1>2
<1> HIDE DEF x
<1>6. TypeOK'
  <2>1. Len(queue') <= QueueSize
    BY <1>2 DEF TypeOK, LoggerAssumption
  <2> QED BY <1>1, <1>2, <1>5, <2>1 DEF TypeOK, WorkerPc
<1>7. Known'
  BY <1>1, <1>2, <1>3 DEF Known, Hand
<1>8. Handed'
  BY <1>1, <1>3 DEF Handed, Hand
<1>9. Conserved'
  <2>1. ASSUME NEW e \in 1..issued PROVE Placed(e)' = 1
    <3>1. Placed(e) = 1
      BY CopiesPlaced DEF Conserved
    <3>2. Held(e)' <=> Held(e)
      BY <1>1 DEF Held, Hand
    <3>3. Count(queue', e) \in Nat /\ Count(entry', e) \in Nat
      BY <1>2, <1>5, CountIsNat
    <3> QED BY <1>1, <1>4, <3>1, <3>2, <3>3, Counts DEF Placed
  <2> QED BY <1>1, <1>8, <2>1, CopiesPlaced DEF Conserved
<1>10. Queueing'
  BY <1>1 DEF Queueing, Hand
<1>11. Ordered'
  <2> SUFFICES ASSUME flushes = 0 /\ opened PROVE Ordered'
    BY <1>1 DEF Ordered
  <2>1. Increasing(queue') /\ \A y \in ToSet(queue') : x < y
    <3>1. /\ Len(queue) \in Nat \ {0} /\ DOMAIN queue = 1..Len(queue) /\ x = queue[1]
          /\ DOMAIN queue' = 1..(Len(queue) - 1)
          /\ \A i \in 1..(Len(queue) - 1) : queue'[i] = queue[i + 1]
      BY <1>1, <1>2, EmptySeq, HeadTailProperties, LenProperties DEF x
    <3>2. \A i \in 1..(Len(queue) - 1) : i + 1 \in DOMAIN queue /\ 1 < i + 1
      BY <3>1
    <3>3. 1 \in DOMAIN queue
      BY <3>1
    <3>4. \A i \in DOMAIN queue' : x < queue'[i]
      BY <3>1, <3>2, <3>3 DEF Ordered, Increasing
    <3>5. \A i, j \in DOMAIN queue' : i < j => queue'[i] < queue'[j]
      <4>1. \A i, j \in 1..(Len(queue) - 1) : i < j => i + 1 < j + 1
        BY <3>1
      <4> QED BY <3>1, <3>2, <4>1 DEF Ordered, Increasing
    <3> QED BY <3>4, <3>5 DEF Increasing, ToSet
  <2>2. Ahead(ToSet(entry'), ToSet(queue'))
    BY <1>3, <2>1 DEF Ahead
  <2>3. FromQueue' = FromQueue /\ ToSet(entry') \cup ToSet(queue') = ToSet(entry) \cup ToSet(queue)
    BY <1>1, <1>2, <1>3 DEF FromQueue
  <2>4. /\ ToSet(queue') \cup ToSet(entry') \subseteq ToSet(accepted)
        /\ ToSet(accepted) \subseteq ToSet(written) \cup ToSet(entry') \cup ToSet(queue')
        /\ Ahead(FromQueue, ToSet(entry') \cup ToSet(queue'))
        /\ \A i, j \in DOMAIN written :
             i < j /\ {written[i], written[j]} \subseteq ToSet(accepted) => written[i] < written[j]
    BY <2>3 DEF Ordered
  <2> QED BY <1>1, <2>1, <2>2, <2>3, <2>4, Zenon DEF Ordered, Ahead, Increasing
<1>12. Ending'
  <2>1. worker' # "done" /\ joined' = joined /\ worker # "done"
    BY <1>1
  <2> QED BY <2>1 DEF Ending
<1>13. OneFile'
  BY <1>1 DEF OneFile
<1> QED BY <1>6, <1>7, <1>8, <1>9, <1>10, <1>11, <1>12, <1>13

\* The worker writes the entry it has taken.
LEMMA ProcessTakenInv ==
  ASSUME LoggerAssumption, IInv, ProcessTaken
  PROVE  IInv'
<1> DEFINE x == entry[1]
<1> USE DEF IInv
<1>1. /\ worker = "process" /\ write(x) /\ worker' = "take" /\ entry' = <<>>
      /\ UNCHANGED <<queue, dropped, accepted, shutdown, pc, hand, flushes, due, joined, before, issued>>
  BY DEF ProcessTaken, queueVars, callVars, flushVars, stopVars
<1>2. entry = <<x>> /\ x \in Entries
  <2>1. entry \in Seq(Entries) /\ entry # <<>> /\ Len(entry) <= 1
    BY <1>1 DEF TypeOK, Handed
  <2>4. Len(entry) \in Nat /\ Len(entry) # 0
    BY <2>1, EmptySeq, LenProperties
  <2>5. \A k \in Nat : k <= 1 /\ k # 0 => k = 1
    OBVIOUS
  <2>2. Len(entry) = 1
    BY <2>1, <2>4, <2>5, Zenon
  <2>3. entry \in [1..1 -> Entries]
    BY <2>1, <2>2
  <2> QED BY <2>3
<1>3. ToSet(entry) = {x} /\ ToSet(entry') = {}
  BY <1>1, <1>2, SetOf
<1>4. \A e : Count(entry, e) = (IF x = e THEN 1 ELSE 0) /\ Count(entry', e) = 0
  BY <1>1, <1>2, CountOf
<1>5. x \in 1..issued
  BY <1>3 DEF Known
<1>6. x \notin lost
  <2>1. Placed(x) = 1
    BY <1>5, CopiesPlaced DEF Conserved
  <2> QED BY <1>4, <2>1, Counts DEF Placed
<1> HIDE DEF x
<1>7. Put(x) /\ OneFile' /\ opened' = opened /\ crashed' = crashed
  BY <1>1, Writing DEF TypeOK
<1>8. /\ written' \in Seq(Entries)
      /\ ToSet(written') \cup lost' = ToSet(written) \cup lost \cup {x}
      /\ ToSet(written') \subseteq ToSet(written) \cup {x} /\ lost' \subseteq lost \cup {x}
      /\ opened' => ToSet(written') = ToSet(written) \cup {x}
      /\ \A e : Count(written', e) + (IF e \in lost' THEN 1 ELSE 0) =
                Count(written, e) + (IF e \in lost THEN 1 ELSE 0) + (IF e = x THEN 1 ELSE 0)
  BY <1>2, <1>6, <1>7, PutPlaces
<1>9. TypeOK'
  <2>1. lost' \subseteq 1..issued
    BY <1>5, <1>8 DEF TypeOK
  <2>2. LogFile \in DOMAIN file'
    BY <1>7 DEF OneFile
  <2> QED BY <1>1, <1>7, <1>8, <2>1, <2>2 DEF TypeOK, WorkerPc
<1>10. Known'
  BY <1>1, <1>3, <1>5, <1>8 DEF Known, Hand
<1>11. Handed'
  BY <1>1 DEF Handed, Hand
<1>12. Conserved'
  <2>1. ASSUME NEW e \in 1..issued PROVE Placed(e)' = 1
    <3>1. Placed(e) = 1
      BY CopiesPlaced DEF Conserved
    <3>2. Count(written', e) \in Nat
      BY <1>8, CountIsNat
    <3>3. Count(queue', e) = Count(queue, e) /\ dropped' = dropped /\ (Held(e)' <=> Held(e))
      BY <1>1 DEF Held, Hand
    <3>4. /\ Count(queue, e) \in Nat /\ Count(written, e) \in Nat
          /\ Count(written', e) + (IF e \in lost' THEN 1 ELSE 0) =
               Count(written, e) + (IF e \in lost THEN 1 ELSE 0) + (IF e = x THEN 1 ELSE 0)
      BY <1>8, Counts
    <3>5. CASE e = x
      <4>1. Count(entry, e) = 1 /\ Count(entry', e) = 0
        BY <1>4, <3>5
      <4> QED BY <3>1, <3>2, <3>3, <3>4, <3>5, <4>1 DEF Placed
    <3>6. CASE e # x
      <4>1. Count(entry, e) = 0 /\ Count(entry', e) = 0
        BY <1>4, <3>6
      <4> QED BY <3>1, <3>2, <3>3, <3>4, <3>6, <4>1 DEF Placed
    <3> QED BY <3>5, <3>6
  <2> QED BY <1>1, <1>11, <2>1, CopiesPlaced DEF Conserved
<1>13. Queueing'
  BY <1>1 DEF Queueing, Hand
<1>14. Ordered'
  <2> SUFFICES ASSUME flushes = 0 /\ opened' PROVE Ordered'
    BY <1>1 DEF Ordered
  <2>1. opened /\ x \in ToSet(accepted)
    BY <1>3, <1>7 DEF Ordered
  <2>2. ToSet(written') = ToSet(written) \cup {x} /\ FromQueue' = FromQueue \cup {x}
    BY <1>1, <1>8, <2>1 DEF FromQueue
  <2>3. Ahead(FromQueue', ToSet(entry') \cup ToSet(queue'))
    BY <1>1, <1>3, <2>1, <2>2 DEF Ordered, Ahead
  <2>4. \A i, j \in DOMAIN written' :
          i < j /\ {written'[i], written'[j]} \subseteq ToSet(accepted) => written'[i] < written'[j]
    <3>1. \A i, j \in DOMAIN written :
            i < j /\ {written[i], written[j]} \subseteq ToSet(accepted) => written[i] < written[j]
      BY <2>1 DEF Ordered
    <3>2. \A y \in ToSet(written) \cap ToSet(accepted) : y < x
      BY <1>3, <2>1 DEF Ordered, Ahead, FromQueue
    <3> QED BY <1>2, <1>7, <3>1, <3>2, PutOrders
  <2>5. /\ ToSet(queue') \cup ToSet(entry') \subseteq ToSet(accepted)
        /\ ToSet(accepted) \subseteq ToSet(written') \cup ToSet(entry') \cup ToSet(queue')
        /\ Increasing(queue') /\ Ahead(ToSet(entry'), ToSet(queue'))
    BY <1>1, <1>3, <2>1, <2>2 DEF Ordered, Ahead
  <2> QED BY <1>1, <2>3, <2>4, <2>5, Zenon DEF Ordered, Ahead, Increasing
<1>15. Ending'
  <2>1. worker' # "done" /\ joined' = joined /\ worker # "done"
    BY <1>1
  <2> QED BY <2>1 DEF Ending
<1> QED BY <1>7, <1>9, <1>10, <1>11, <1>12, <1>13, <1>14, <1>15

\* The process that ends because the file did not open again leaves everything in place.
LEMMA CrashInv ==
  ASSUME LoggerAssumption, IInv, Crash
  PROVE  IInv'
<1> USE DEF IInv
<1>1. /\ file' = file /\ crashed' = TRUE
      /\ UNCHANGED <<queue, dropped, accepted, shutdown, worker, entry, pc, hand, opened, written,
                     lost, flushes, due, joined, before, issued>>
  BY RotatedIsFile DEF Crash, queueVars, workerVars, callVars, flushVars, stopVars
<1>2. TypeOK'
  BY <1>1 DEF TypeOK
<1>3. Known' /\ Handed'
  BY <1>1 DEF Known, Handed, Hand
<1>4. Conserved'
  BY <1>1 DEF Conserved, Copies
<1>5. Queueing' /\ Ending'
  BY <1>1 DEF Queueing, Ending, Left, Hand
<1>6. Ordered'
  BY <1>1 DEF Ordered, Increasing, Ahead, FromQueue
<1>7. OneFile'
  BY <1>1 DEF OneFile
<1> QED BY <1>2, <1>3, <1>4, <1>5, <1>6, <1>7

-----------------------------------------------------------------------------
(* The theorem *)

\* Every step preserves the invariant.
LEMMA StepInv == LoggerAssumption /\ IInv /\ [Next]_vars => IInv'
<1> SUFFICES ASSUME LoggerAssumption, IInv, [Next]_vars PROVE IInv'
  OBVIOUS
<1>1. ASSUME NEW t \in Threads, WriteLogAsync(t) PROVE IInv'
  BY <1>1, AsyncInv
<1>2. ASSUME NEW t \in Threads, WriteLogSync(t) PROVE IInv'
  BY <1>2, SyncInv
<1>3. ASSUME NEW t \in Threads, Flush(t) PROVE IInv'
  BY <1>3, FlushInv
<1>4. ASSUME NEW t \in Threads, WriteNext(t) PROVE IInv'
  BY <1>4, WriteNextInv
<1>5. CASE \/ \E t \in Threads : NotifyOne(t) \/ FlushReturns(t) \/ Shutdown(t) \/ NotifyAll(t) \/ Join(t)
           \/ TestPredicate \/ Wait \/ TakeNone \/ WakesSpuriously
           \/ UNCHANGED vars
  BY <1>5, ControlSteps
<1>6. CASE TestLoop
  BY <1>6, TestLoopInv
<1>7. CASE Take
  BY <1>7, TakeInv
<1>8. CASE ProcessTaken
  BY <1>8, ProcessTakenInv
<1>9. CASE Crash
  BY <1>9, CrashInv
<1> QED BY <1>1, <1>2, <1>3, <1>4, <1>5, <1>6, <1>7, <1>8, <1>9 DEF Next, CallerStep, WorkerStep

\* The file holds what was written.
LEMMA StoredIsWritten ==
  ASSUME LoggerAssumption, TypeOK, OneFile
  PROVE  Stored = written
<1> DEFINE n == MaxItems + 2
           parts == [i \in 1..n |->
             LET path == Backup(n - i) IN IF path \in DOMAIN file THEN file[path] ELSE <<>>]
<1>1. n \in Nat \ {0} /\ written \in Seq(Entries)
  BY DEF LoggerAssumption, TypeOK
<1>2. ASSUME NEW i \in 1..n
      PROVE  (LET path == Backup(n - i) IN IF path \in DOMAIN file THEN file[path] ELSE <<>>)
               = IF i = n THEN written ELSE <<>>
  <2>1. CASE i = n
    <3>1. Backup(n - i) = LogFile
      BY <1>1, <2>1 DEF Backup
    <3> QED BY <2>1, <3>1 DEF OneFile
  <2>2. CASE i # n
    <3>1. n - i # 0
      BY <1>1, <2>2
    <3>2. Backup(n - i) # LogFile
      BY <3>1 DEF Backup, LogFile
    <3> QED BY <2>2, <3>2 DEF OneFile
  <2> QED BY <2>1, <2>2
<1>3. parts = [i \in 1..n |-> IF i = n THEN written ELSE <<>>]
  <2> HIDE DEF n
  <2> QED BY <1>2, Zenon
<1>4. Stored = FlattenSeq(parts)
  BY DEF Stored
<1> HIDE DEF n, parts
<1> QED BY <1>1, <1>3, <1>4, FlattensToLast

\* The invariant balances the books.
LEMMA Accounts ==
  ASSUME LoggerAssumption, IInv
  PROVE  EntryAccounting
<1> USE DEF IInv
<1>1. ShutdownDrains
  BY Zenon DEF ShutdownDrains, Ending, Left, Hand
<1>2. RotationKeepsRecent
  <2>1. written \in Seq(Entries)
    BY DEF TypeOK
  <2>2. IsSuffix(written, written)
    <3>1. Len(Reverse(written)) <= Len(Reverse(written))
      <4>1. Len(Reverse(written)) \in Nat
        BY <2>1, LenProperties DEF Reverse
      <4> QED BY <4>1
    <3> QED BY <3>1, Zenon DEF IsSuffix, IsPrefix
  <2> QED BY <2>2, StoredIsWritten DEF RotationKeepsRecent
<1>3. AsyncInOrder
  <2> SUFFICES ASSUME flushes = 0, opened PROVE AsyncInOrder
    BY DEF AsyncInOrder
  <2> DEFINE out == written \o entry \o queue
             w == Len(written)
             e == Len(entry)
             q == Len(queue)
  <2>1. /\ written \in Seq(Entries) /\ entry \in Seq(Entries) /\ queue \in Seq(Entries)
        /\ w \in Nat /\ e \in {0, 1} /\ q \in Nat
    <3>1. written \in Seq(Entries) /\ entry \in Seq(Entries) /\ queue \in Seq(Entries) /\ Len(entry) <= 1
      BY DEF TypeOK, Handed
    <3>2. Len(written) \in Nat /\ Len(entry) \in Nat /\ Len(queue) \in Nat
      BY <3>1, LenProperties
    <3>4. \A k \in Nat : k <= 1 => k \in {0, 1}
      OBVIOUS
    <3>3. Len(entry) \in {0, 1}
      BY <3>1, <3>2, <3>4, Zenon
    <3> QED BY <3>1, <3>2, <3>3
  <2>2. /\ DOMAIN written = 1..w /\ DOMAIN entry = 1..e /\ DOMAIN queue = 1..q
        /\ DOMAIN out = 1..(w + e + q)
    BY <2>1, ConcatProperties, LenProperties
  <2>3. \A i \in 1..w : out[i] = written[i]
    BY <2>1, <2>2, ConcatProperties
  <2>4. \A i \in 1..e : out[w + i] = entry[i]
    BY <2>1, <2>2, ConcatProperties
  <2>5. \A i \in 1..q : out[w + e + i] = queue[i]
    BY <2>1, <2>2, ConcatProperties
  <2> HIDE DEF out, w, e, q
  <2>6. ToSet(accepted) \subseteq ToSet(out)
    <3>1. ASSUME NEW x \in ToSet(written) PROVE x \in ToSet(out)
      <4>1. PICK i \in 1..w : x = written[i]
        BY <2>2 DEF ToSet
      <4>2. i \in DOMAIN out
        BY <2>1, <2>2
      <4> QED BY <2>3, <4>1, <4>2 DEF ToSet
    <3>2. ASSUME NEW x \in ToSet(entry) PROVE x \in ToSet(out)
      <4>1. PICK i \in 1..e : x = entry[i]
        BY <2>2 DEF ToSet
      <4>2. w + i \in DOMAIN out
        BY <2>1, <2>2
      <4> QED BY <2>4, <4>1, <4>2 DEF ToSet
    <3>3. ASSUME NEW x \in ToSet(queue) PROVE x \in ToSet(out)
      <4>1. PICK i \in 1..q : x = queue[i]
        BY <2>2 DEF ToSet
      <4>2. w + e + i \in DOMAIN out
        BY <2>1, <2>2
      <4> QED BY <2>5, <4>1, <4>2 DEF ToSet
    <3> QED BY <3>1, <3>2, <3>3 DEF Ordered
  <2>7. ASSUME NEW i \in DOMAIN out, NEW j \in DOMAIN out, i < j, {out[i], out[j]} \subseteq ToSet(accepted)
        PROVE  out[i] < out[j]
    <3>1. \A k \in DOMAIN out :
            k \in 1..w \/ (\E m \in 1..e : k = w + m) \/ (\E m \in 1..q : k = w + e + m)
      <4>1. ASSUME NEW k \in DOMAIN out, k \notin 1..w, k <= w + e PROVE k - w \in 1..e /\ k = w + (k - w)
        BY <2>1, <2>2, <4>1
      <4>2. ASSUME NEW k \in DOMAIN out, ~(k <= w + e)
            PROVE  k - (w + e) \in 1..q /\ k = w + e + (k - (w + e))
        BY <2>1, <2>2, <4>2
      <4>3. \A k \in DOMAIN out : k \in 1..w \/ (\E m \in 1..e : k = w + m) \/ ~(k <= w + e)
        BY <4>1, Zenon
      <4>4. \A k \in DOMAIN out : ~(k <= w + e) => \E m \in 1..q : k = w + e + m
        BY <4>2, Zenon
      <4>5. ASSUME NEW k \in DOMAIN out
            PROVE  k \in 1..w \/ (\E m \in 1..e : k = w + m) \/ (\E m \in 1..q : k = w + e + m)
        BY <4>3, <4>4
      <4> QED BY <4>5
    <3>2. CASE j \in 1..w
      <4>1. i \in 1..w
        BY <2>1, <2>2, <2>7, <3>2
      <4> QED BY <2>2, <2>3, <2>7, <3>2, <4>1 DEF Ordered
    <3>3. ASSUME NEW m \in 1..e, j = w + m PROVE out[i] < out[j]
      <4>1. i \in 1..w
        BY <2>1, <2>2, <2>7, <3>3
      <4>2. out[i] = written[i] /\ out[i] \in FromQueue
        BY <2>2, <2>3, <2>7, <4>1 DEF FromQueue, ToSet
      <4>3. out[j] \in ToSet(entry)
        BY <2>2, <2>4, <3>3 DEF ToSet
      <4> QED BY <4>2, <4>3 DEF Ordered, Ahead
    <3>4. ASSUME NEW m \in 1..q, j = w + e + m PROVE out[i] < out[j]
      <4>1. out[j] = queue[m] /\ out[j] \in ToSet(queue)
        BY <2>2, <2>5, <3>4 DEF ToSet
      <4>2. CASE i \in 1..w
        <5>1. out[i] \in FromQueue
          BY <2>2, <2>3, <2>7, <4>2 DEF FromQueue, ToSet
        <5> QED BY <4>1, <5>1 DEF Ordered, Ahead
      <4>3. ASSUME NEW n \in 1..e, i = w + n PROVE out[i] < out[j]
        <5>1. out[i] \in ToSet(entry)
          BY <2>2, <2>4, <4>3 DEF ToSet
        <5> QED BY <4>1, <5>1 DEF Ordered, Ahead
      <4>4. ASSUME NEW n \in 1..q, i = w + e + n PROVE out[i] < out[j]
        <5>1. n < m
          BY <2>1, <2>7, <3>4, <4>4
        <5>2. out[i] = queue[n]
          BY <2>5, <4>4
        <5> QED BY <2>2, <4>1, <5>1, <5>2 DEF Ordered, Increasing
      <4> QED BY <3>1, <4>2, <4>3, <4>4
    <3> QED BY <3>1, <3>2, <3>3, <3>4
  <2> QED BY <2>6, <2>7, Zenon DEF AsyncInOrder, out
<1> QED BY <1>1, <1>2, <1>3 DEF EntryAccounting

\* The books of the logger balance in every state: an entry is in one place and ends written,
\* lost or dropped, the worker keeps the order of the queue, Shutdown leaves nothing behind,
\* and the files hold the last of what was written, also where a rotation ends the process.
THEOREM AccountingHolds == Spec => []EntryAccounting
<1>1. Init => IInv
  BY InitInv, LoggerAssumption
<1>2. IInv /\ [Next]_vars => IInv'
  BY StepInv, LoggerAssumption
<1>3. IInv => EntryAccounting
  BY Accounts, LoggerAssumption
<1> QED BY <1>1, <1>2, <1>3, PTL DEF Spec
=============================================================================
