---------------------------- MODULE SemaphoreProofs ----------------------------
(***************************************************************************)
(* Theorems about the semaphore of Admission, for every number of permits  *)
(* and any set of requests.                                                *)
(***************************************************************************)
EXTENDS AdmissionProofs, FiniteSetTheorems, SequenceTheorems

\* A line of requests, each of them in it once.
IsLine(line) ==
  /\ line \in Seq(Requests)
  /\ \A i, j \in 1 .. Len(line) : line[i] = line[j] => i = j

InLine(line, r) == \E i \in 1 .. Len(line) : line[i] = r

\* The k oldest of a line.
First(line, k) == {line[i] : i \in 1 .. k}

LEMMA FirstCount ==
  ASSUME NEW line, IsLine(line), NEW k \in 0 .. Len(line)
  PROVE  /\ IsFiniteSet(First(line, k))
         /\ Cardinality(First(line, k)) = k
         /\ First(line, k) \subseteq Requests
<1>1. Len(line) \in Nat /\ 1 .. k \subseteq 1 .. Len(line)
  BY LenProperties DEF IsLine
<1> DEFINE f == [i \in 1 .. k |-> line[i]]
<1>2. f \in Bijection(1 .. k, First(line, k))
  <2>1. f \in [1 .. k -> First(line, k)] /\ IsInjective(f)
    BY <1>1 DEF IsLine, First, IsInjective
  <2>2. \A t \in First(line, k) : \E i \in 1 .. k : f[i] = t
    BY DEF First
  <2> QED
    BY <2>1, <2>2 DEF Bijection, Injection, Surjection
<1>3. ExistsBijection(1 .. k, First(line, k))
  BY <1>2 DEF ExistsBijection
<1>4. First(line, k) \subseteq Requests
  BY <1>1, ElementOfSeq DEF IsLine, First
<1> QED
  BY <1>3, <1>4, FS_NatBijection, FS_CountingElements

\* When the first k have left, the others are in line as they were.
LEMMA RestOfLine ==
  ASSUME NEW line, IsLine(line), NEW k \in 0 .. Len(line)
  PROVE  /\ IsLine(SubSeq(line, k + 1, Len(line)))
         /\ Len(SubSeq(line, k + 1, Len(line))) = Len(line) - k
         /\ \A r : InLine(SubSeq(line, k + 1, Len(line)), r) <=>
                     InLine(line, r) /\ r \notin First(line, k)
<1> DEFINE rest == SubSeq(line, k + 1, Len(line))
<1>1. Len(line) \in Nat /\ k \in Nat /\ \A i \in 1 .. Len(line) : line[i] \in Requests
  BY LenProperties, ElementOfSeq DEF IsLine
<1>2. /\ rest \in Seq(Requests)
      /\ Len(rest) = Len(line) - k
      /\ \A i \in 1 .. Len(rest) : rest[i] = line[k + i]
  <2>1. \A i \in k + 1 .. Len(line) : line[i] \in Requests
    BY <1>1
  <2>2. /\ rest \in Seq(Requests)
        /\ Len(rest) = IF k + 1 <= Len(line) THEN Len(line) - (k + 1) + 1 ELSE 0
        /\ \A i \in 1 .. Len(line) - (k + 1) + 1 : rest[i] = line[k + 1 + i - 1]
    BY <1>1, <2>1, SubSeqProperties
  <2> QED
    BY <1>1, <2>2
<1> HIDE DEF rest
<1>3. IsLine(rest)
  <2> SUFFICES ASSUME NEW i \in 1 .. Len(rest), NEW j \in 1 .. Len(rest), rest[i] = rest[j]
               PROVE  i = j
    BY <1>2 DEF IsLine
  <2>1. line[k + i] = line[k + j] /\ k + i \in 1 .. Len(line) /\ k + j \in 1 .. Len(line)
    BY <1>1, <1>2
  <2>2. k + i = k + j
    BY <2>1 DEF IsLine
  <2> QED
    BY <1>1, <2>2
<1>4. ASSUME NEW r, InLine(rest, r)
      PROVE  InLine(line, r) /\ r \notin First(line, k)
  <2>1. PICK i \in 1 .. Len(rest) : rest[i] = r
    BY <1>4 DEF InLine
  <2>2. k + i \in 1 .. Len(line) /\ line[k + i] = r
    BY <1>1, <1>2, <2>1
  <2>3. ASSUME NEW j \in 1 .. k, line[j] = r
        PROVE  FALSE
    BY <1>1, <2>2, <2>3 DEF IsLine
  <2> QED
    BY <2>2, <2>3 DEF InLine, First
<1>5. ASSUME NEW r, InLine(line, r), r \notin First(line, k)
      PROVE  InLine(rest, r)
  <2>1. PICK i \in 1 .. Len(line) : line[i] = r
    BY <1>5 DEF InLine
  <2>2. ~(i <= k)
    BY <1>1, <1>5, <2>1 DEF First
  <2>3. i - k \in 1 .. Len(rest) /\ rest[i - k] = line[i]
    BY <1>1, <1>2, <2>2
  <2> QED
    BY <2>1, <2>3 DEF InLine
<1> QED
  BY <1>2, <1>3, <1>4, <1>5 DEF rest

\* Whoever joins a line is the last of it.
LEMMA JoinsLine ==
  ASSUME NEW line, IsLine(line), NEW r \in Requests, ~InLine(line, r)
  PROVE  /\ IsLine(Append(line, r))
         /\ \A q : InLine(Append(line, r), q) <=> InLine(line, q) \/ q = r
<1> DEFINE longer == Append(line, r)
<1>1. /\ Len(line) \in Nat
      /\ longer \in Seq(Requests) /\ Len(longer) = Len(line) + 1
      /\ \A i \in 1 .. Len(line) : longer[i] = line[i]
      /\ longer[Len(line) + 1] = r
  BY AppendProperties, LenProperties DEF IsLine
<1> HIDE DEF longer
<1>2. \A i \in 1 .. Len(longer) : i \in 1 .. Len(line) \/ i = Len(line) + 1
  BY <1>1
<1>3. IsLine(longer)
  BY <1>1, <1>2 DEF IsLine, InLine
<1>4. \A q : InLine(longer, q) <=> InLine(line, q) \/ q = r
  <2>1. Len(line) + 1 \in 1 .. Len(longer) /\ 1 .. Len(line) \subseteq 1 .. Len(longer)
    BY <1>1
  <2> QED
    BY <1>1, <1>2, <2>1 DEF InLine
<1> QED
  BY <1>3, <1>4 DEF longer

\* Whoever leaves it leaves the others as they were.
LEMMA LeavesLine ==
  ASSUME NEW line, IsLine(line), NEW i \in 1 .. Len(line)
  PROVE  /\ IsLine(RemoveAt(line, i))
         /\ \A q : InLine(RemoveAt(line, i), q) <=> InLine(line, q) /\ q # line[i]
<1> DEFINE front == SubSeq(line, 1, i - 1)
           back == SubSeq(line, i + 1, Len(line))
           shorter == RemoveAt(line, i)
<1>1. Len(line) \in Nat /\ \A j \in 1 .. Len(line) : line[j] \in Requests
  BY LenProperties, ElementOfSeq DEF IsLine
<1>2. /\ front \in Seq(Requests) /\ Len(front) = i - 1
      /\ \A j \in 1 .. i - 1 : front[j] = line[j]
  <2>1. \A j \in 1 .. i - 1 : line[j] \in Requests
    BY <1>1
  <2>2. /\ front \in Seq(Requests)
        /\ Len(front) = IF 1 <= i - 1 THEN (i - 1) - 1 + 1 ELSE 0
        /\ \A j \in 1 .. (i - 1) - 1 + 1 : front[j] = line[1 + j - 1]
    BY <1>1, <2>1, SubSeqProperties
  <2> QED
    BY <1>1, <2>2
<1>3. /\ back \in Seq(Requests) /\ Len(back) = Len(line) - i
      /\ \A j \in 1 .. Len(line) - i : back[j] = line[i + j]
  <2>1. \A j \in i + 1 .. Len(line) : line[j] \in Requests
    BY <1>1
  <2>2. /\ back \in Seq(Requests)
        /\ Len(back) = IF i + 1 <= Len(line) THEN Len(line) - (i + 1) + 1 ELSE 0
        /\ \A j \in 1 .. Len(line) - (i + 1) + 1 : back[j] = line[i + 1 + j - 1]
    BY <1>1, <2>1, SubSeqProperties
  <2> QED
    BY <1>1, <2>2
<1>4. /\ shorter \in Seq(Requests)
      /\ Len(shorter) = Len(line) - 1
      /\ \A j \in 1 .. Len(line) - 1 : shorter[j] = IF j < i THEN line[j] ELSE line[j + 1]
  <2>1. shorter = front \o back
    BY DEF RemoveAt
  <2> HIDE DEF front, back, shorter
  <2>2. /\ shorter \in Seq(Requests)
        /\ Len(shorter) = Len(front) + Len(back)
        /\ \A j \in 1 .. Len(front) + Len(back) :
             shorter[j] = IF j <= Len(front) THEN front[j] ELSE back[j - Len(front)]
    BY <1>2, <1>3, <2>1, ConcatProperties
  <2>3. ASSUME NEW j \in 1 .. Len(line) - 1
        PROVE  shorter[j] = IF j < i THEN line[j] ELSE line[j + 1]
    <3>1. CASE j < i
      <4>1. j \in 1 .. i - 1 /\ j \in 1 .. Len(front) + Len(back) /\ j <= Len(front)
        BY <1>1, <1>2, <1>3, <3>1
      <4> QED
        BY <1>2, <2>2, <3>1, <4>1
    <3>2. CASE ~(j < i)
      <4>1. j - (i - 1) \in 1 .. Len(line) - i /\ i + (j - (i - 1)) = j + 1
        BY <1>1, <3>2
      <4>2. j \in 1 .. Len(front) + Len(back) /\ ~(j <= Len(front)) /\ Len(front) = i - 1
        BY <1>1, <1>2, <1>3, <3>2
      <4>3. shorter[j] = back[j - (i - 1)]
        BY <2>2, <4>2
      <4> QED
        BY <1>3, <3>2, <4>1, <4>3
    <3> QED
      BY <3>1, <3>2
  <2> QED
    BY <1>1, <1>2, <1>3, <2>2, <2>3
<1> HIDE DEF shorter
<1> DEFINE place(j) == IF j < i THEN j ELSE j + 1
<1>5. \A j \in 1 .. Len(shorter) :
        place(j) \in 1 .. Len(line) /\ place(j) # i /\ shorter[j] = line[place(j)]
  BY <1>1, <1>4
<1>6. \A j \in 1 .. Len(line) : j # i => \E l \in 1 .. Len(shorter) : place(l) = j
  <2> SUFFICES ASSUME NEW j \in 1 .. Len(line), j # i
               PROVE  \E l \in 1 .. Len(shorter) : place(l) = j
    OBVIOUS
  <2>1. CASE j < i
    BY <1>1, <1>4, <2>1
  <2>2. CASE ~(j < i)
    <3>1. j - 1 \in 1 .. Len(shorter) /\ place(j - 1) = j
      BY <1>1, <1>4, <2>2
    <3> QED
      BY <3>1
  <2> QED
    BY <2>1, <2>2
<1>7. \A j, l \in 1 .. Len(shorter) : place(j) = place(l) => j = l
  BY <1>1, <1>4
<1> HIDE DEF place
<1>8. IsLine(shorter)
  BY <1>4, <1>5, <1>7 DEF IsLine
<1>9. \A q : InLine(shorter, q) <=> InLine(line, q) /\ q # line[i]
  <2>1. ASSUME NEW q, InLine(shorter, q)
        PROVE  InLine(line, q) /\ q # line[i]
    <3>1. PICK j \in 1 .. Len(shorter) : shorter[j] = q
      BY <2>1 DEF InLine
    <3>2. place(j) \in 1 .. Len(line) /\ place(j) # i /\ line[place(j)] = q
      BY <1>5, <3>1
    <3> QED
      BY <3>2 DEF InLine, IsLine
  <2>2. ASSUME NEW q, InLine(line, q), q # line[i]
        PROVE  InLine(shorter, q)
    <3>1. PICK j \in 1 .. Len(line) : line[j] = q
      BY <2>2 DEF InLine
    <3>2. PICK l \in 1 .. Len(shorter) : place(l) = j
      BY <1>6, <2>2, <3>1
    <3>3. shorter[l] = q
      BY <1>5, <3>1, <3>2
    <3> QED
      BY <3>3 DEF InLine
  <2> QED
    BY <2>1, <2>2
<1> QED
  BY <1>8, <1>9 DEF shorter
-------------------------------------------------------------------------------
PhaseTypeOK == phase \in [Requests -> Phases]

\* Those in line are the requests that wait, each once: a request is woken once, and the
\* conservation of the permits is not inductive without it.
LineInv ==
  /\ IsLine(waiters)
  /\ \A r \in Requests : phase[r] = "waiting" <=> InLine(waiters, r)

\* The permits can be counted, and are all there.
PermitInv ==
  /\ value \in Nat
  /\ IsFiniteSet(InPhase("granted")) /\ IsFiniteSet(InPhase("publish"))
  /\ PermitsConserved

SemaphoreInv == PhaseTypeOK /\ LineInv /\ PermitInv /\ NoLostWakeup

\* One request moves on, and the line is left alone.
LEMMA GoesEffect ==
  ASSUME PhaseTypeOK, NEW r \in Requests, NEW to \in Phases, Goes(r, to)
  PROVE  /\ PhaseTypeOK'
         /\ \A q \in Requests : phase'[q] = IF q = r THEN to ELSE phase[q]
         /\ \A p : InPhase(p)' = IF p = to THEN InPhase(p) \union {r} ELSE InPhase(p) \ {r}
<1>1. PhaseTypeOK' /\ \A q \in Requests : phase'[q] = IF q = r THEN to ELSE phase[q]
  BY DEF Goes, PhaseTypeOK
<1> QED
  BY <1>1 DEF InPhase

\* One request moves on and the k oldest of the line are woken.
LEMMA WakesEffect ==
  ASSUME PhaseTypeOK, NEW r \in Requests, NEW to \in Phases \ {"waiting", "granted"},
         NEW v, NEW line, IsLine(line), NEW k \in 0 .. Len(line),
         \A q \in Requests : InLine(line, q) <=> phase[q] = "waiting" /\ q # r,
         Wakes(r, to, v, line, k)
  PROVE  /\ PhaseTypeOK' /\ LineInv'
         /\ value' = v - k
         /\ Len(waiters') = Len(line) - k
         /\ InPhase("granted")' = (InPhase("granted") \ {r}) \union First(line, k)
         /\ InPhase("granted") \intersect First(line, k) = {}
         /\ InPhase("publish")' = IF to = "publish" THEN InPhase("publish") \union {r}
                                                    ELSE InPhase("publish") \ {r}
<1>1. \A q \in First(line, k) : q \in Requests /\ phase[q] = "waiting" /\ q # r
  <2>1. First(line, k) \subseteq Requests
    BY FirstCount
  <2>2. \A q \in First(line, k) : InLine(line, q)
    BY LenProperties DEF IsLine, First, InLine
  <2> QED
    BY <2>1, <2>2
<1>2. \A q \in Requests : phase'[q] =
        IF q = r THEN to ELSE IF q \in First(line, k) THEN "granted" ELSE phase[q]
  BY DEF Wakes, First
<1>3. PhaseTypeOK'
  BY DEF Wakes, PhaseTypeOK, Phases
<1>4. /\ IsLine(waiters')
      /\ Len(waiters') = Len(line) - k
      /\ \A q : InLine(waiters', q) <=> InLine(line, q) /\ q \notin First(line, k)
  BY RestOfLine DEF Wakes
<1>5. LineInv'
  BY <1>1, <1>2, <1>4 DEF LineInv, IsLine, InLine
<1>6. InPhase("granted")' = (InPhase("granted") \ {r}) \union First(line, k)
  BY <1>1, <1>2 DEF InPhase
<1>7. InPhase("granted") \intersect First(line, k) = {}
  BY <1>1 DEF InPhase
<1>8. InPhase("publish")' = IF to = "publish" THEN InPhase("publish") \union {r}
                                             ELSE InPhase("publish") \ {r}
  BY <1>1, <1>2 DEF InPhase
<1> QED
  BY <1>3, <1>4, <1>5, <1>6, <1>7, <1>8 DEF Wakes

\* Those that were woken hold a permit each.
LEMMA GrantedCount ==
  ASSUME PermitInv, NEW r \in Requests, NEW line, IsLine(line), NEW k \in 0 .. Len(line),
         InPhase("granted") \intersect First(line, k) = {}
  PROVE  LET granted == (InPhase("granted") \ {r}) \union First(line, k)
         IN /\ IsFiniteSet(granted)
            /\ Cardinality(granted) =
                 Cardinality(InPhase("granted")) + k - (IF r \in InPhase("granted") THEN 1 ELSE 0)
<1> DEFINE others == InPhase("granted") \ {r}
<1>1. IsFiniteSet(InPhase("granted")) /\ Cardinality(InPhase("granted")) \in Nat
  BY FS_CardinalityType DEF PermitInv
<1>2. /\ IsFiniteSet(others)
      /\ Cardinality(others) =
           Cardinality(InPhase("granted")) - (IF r \in InPhase("granted") THEN 1 ELSE 0)
  <2>1. /\ IsFiniteSet(others)
        /\ Cardinality(others) = IF r \in InPhase("granted") THEN Cardinality(InPhase("granted")) - 1
                                                            ELSE Cardinality(InPhase("granted"))
    BY <1>1, FS_RemoveElement
  <2> QED
    BY <1>1, <2>1
<1>3. IsFiniteSet(First(line, k)) /\ Cardinality(First(line, k)) = k
  BY FirstCount
<1>4. others \intersect First(line, k) = {}
  OBVIOUS
<1>5. /\ IsFiniteSet(others \union First(line, k))
      /\ Cardinality(others \union First(line, k)) = Cardinality(others) + k - 0
  <2>1. /\ IsFiniteSet(others \union First(line, k))
        /\ Cardinality(others \union First(line, k)) =
             Cardinality(others) + Cardinality(First(line, k)) - Cardinality(others \intersect First(line, k))
    BY <1>2, <1>3, FS_Union
  <2> QED
    BY <1>3, <1>4, <2>1, FS_EmptySet
<1>6. k \in Nat /\ Cardinality(others) \in Nat
  BY <1>2, LenProperties, FS_CardinalityType DEF IsLine
<1> QED
  BY <1>1, <1>2, <1>5, <1>6

LEMMA PublishCount ==
  ASSUME PermitInv, NEW r \in Requests
  PROVE  LET n == Cardinality(InPhase("publish"))
             joined == InPhase("publish") \union {r}
             left == InPhase("publish") \ {r}
         IN /\ n \in Nat
            /\ IsFiniteSet(joined) /\ IsFiniteSet(left)
            /\ Cardinality(joined) = IF r \in InPhase("publish") THEN n ELSE n + 1
            /\ Cardinality(left) = IF r \in InPhase("publish") THEN n - 1 ELSE n
<1>1. IsFiniteSet(InPhase("publish"))
  BY DEF PermitInv
<1> QED
  BY <1>1, FS_CardinalityType, FS_AddElement, FS_RemoveElement

LEMMA SemaphoreTypes ==
  ASSUME PermitInv, LineInv
  PROVE  /\ value \in Nat
         /\ Len(waiters) \in Nat
         /\ Cardinality(InPhase("granted")) \in Nat
         /\ Cardinality(InPhase("publish")) \in Nat
         /\ MaxInFlight \in Nat
         /\ waiters # <<>> <=> Len(waiters) > 0
BY FS_CardinalityType, LenProperties, EmptySeq, AdmissionAssumption DEF PermitInv, LineInv, IsLine

\* Steps that touch neither the permits nor the line.
LEMMA OutsideSemaphore ==
  ASSUME SemaphoreInv, UNCHANGED <<semaphoreVars, inflight>>, PhaseTypeOK',
         \A p \in {"waiting", "granted", "publish"} : InPhase(p)' = InPhase(p)
  PROVE  SemaphoreInv'
<1>1. LineInv'
  <2>1. \A r \in Requests : phase'[r] = "waiting" <=> phase[r] = "waiting"
    BY DEF InPhase
  <2> QED
    BY <2>1 DEF SemaphoreInv, LineInv, semaphoreVars
<1>2. PermitInv'
  BY DEF SemaphoreInv, PermitInv, PermitsConserved, semaphoreVars
<1>3. Granted' = Granted
  BY DEF InPhase, Granted
<1> QED
  BY <1>1, <1>2, <1>3 DEF SemaphoreInv, NoLostWakeup, semaphoreVars

\* Steps that hand permits on: r, in the phase from, goes to the phase to, and k waiters are
\* given one of the v permits there are.
LEMMA HandsOn ==
  ASSUME SemaphoreInv, NEW r \in Requests, NEW to \in Phases \ {"waiting", "granted"},
         NEW v \in Nat, NEW line, IsLine(line), NEW k \in 0 .. Len(line), k <= v,
         \A q \in Requests : InLine(line, q) <=> phase[q] = "waiting" /\ q # r,
         Wakes(r, to, v, line, k),
         v + (IF to = "publish" THEN 1 ELSE 0) =
           value + (IF phase[r] \in {"granted", "publish"} THEN 1 ELSE 0),
         inflight' = inflight + (IF to = "publish" THEN 1 ELSE 0)
                              - (IF phase[r] = "publish" THEN 1 ELSE 0),
         v - k > 0 /\ Len(line) - k > 0 => InPhase("granted")' # {}
  PROVE  SemaphoreInv'
<1> USE DEF SemaphoreInv
<1>1. /\ PhaseTypeOK' /\ LineInv'
      /\ value' = v - k
      /\ Len(waiters') = Len(line) - k
      /\ InPhase("granted")' = (InPhase("granted") \ {r}) \union First(line, k)
      /\ InPhase("granted") \intersect First(line, k) = {}
      /\ InPhase("publish")' = IF to = "publish" THEN InPhase("publish") \union {r}
                                                 ELSE InPhase("publish") \ {r}
  BY WakesEffect
<1>2. value' \in Nat
  <2>1. k \in Nat
    BY LenProperties DEF IsLine
  <2> QED
    BY <1>1, <2>1
<1> DEFINE g == Cardinality(InPhase("granted"))
           n == Cardinality(InPhase("publish"))
<1>3. /\ IsFiniteSet(InPhase("granted")')
      /\ Cardinality(InPhase("granted")') = g + k - (IF phase[r] = "granted" THEN 1 ELSE 0)
  <2>1. r \in InPhase("granted") <=> phase[r] = "granted"
    BY DEF InPhase
  <2>2. LET granted == (InPhase("granted") \ {r}) \union First(line, k)
        IN /\ IsFiniteSet(granted)
           /\ Cardinality(granted) = g + k - (IF r \in InPhase("granted") THEN 1 ELSE 0)
    BY <1>1, GrantedCount
  <2> QED
    BY <1>1, <2>1, <2>2
<1>4. /\ IsFiniteSet(InPhase("publish")')
      /\ Cardinality(InPhase("publish")') = n + (IF to = "publish" THEN 1 ELSE 0)
                                              - (IF phase[r] = "publish" THEN 1 ELSE 0)
  <2>1. r \in InPhase("publish") <=> phase[r] = "publish"
    BY DEF InPhase
  <2> DEFINE joined == InPhase("publish") \union {r}
             left == InPhase("publish") \ {r}
  <2>0. /\ n \in Nat
        /\ IsFiniteSet(joined) /\ IsFiniteSet(left)
        /\ Cardinality(joined) = IF r \in InPhase("publish") THEN n ELSE n + 1
        /\ Cardinality(left) = IF r \in InPhase("publish") THEN n - 1 ELSE n
    BY PublishCount
  <2> HIDE DEF n
  <2>2. CASE to = "publish"
    <3>1. InPhase("publish")' = joined
      BY <1>1, <2>2
    <3>2. phase[r] # "publish" \/ n + 1 - 1 = n
      BY <2>0
    <3> HIDE DEF joined
    <3> QED
      BY <2>0, <2>1, <2>2, <3>1, <3>2
  <2>3. CASE to # "publish"
    <3>1. InPhase("publish")' = left
      BY <1>1, <2>3
    <3> HIDE DEF left
    <3> QED
      BY <2>0, <2>1, <2>3, <3>1
  <2> QED
    BY <2>2, <2>3
<1>5. PermitsConserved'
  <2>1. /\ value + g + n = MaxInFlight /\ inflight = n
        /\ value \in Nat /\ g \in Nat /\ n \in Nat /\ k \in Nat
    BY SemaphoreTypes, LenProperties DEF PermitInv, PermitsConserved, IsLine
  <2> HIDE DEF g, n
  <2>2. value' + Cardinality(InPhase("granted")') + Cardinality(InPhase("publish")') = MaxInFlight
    BY <1>1, <1>3, <1>4, <2>1
  <2>3. inflight' = Cardinality(InPhase("publish")')
    BY <1>4, <2>1
  <2> QED
    BY <2>2, <2>3 DEF PermitsConserved
<1>6. NoLostWakeup'
  <2>1. waiters' # <<>> <=> Len(waiters') > 0
    BY <1>1, EmptySeq DEF LineInv, IsLine
  <2> QED
    BY <1>1, <2>1 DEF NoLostWakeup, Granted, InPhase
<1> QED
  BY <1>1, <1>2, <1>3, <1>4, <1>5, <1>6 DEF PermitInv
-------------------------------------------------------------------------------
LEMMA SemaphoreStep == SemaphoreInv /\ [Next]_vars => SemaphoreInv'
<1> SUFFICES ASSUME SemaphoreInv, [Next]_vars
             PROVE  SemaphoreInv'
  OBVIOUS
<1>1. /\ value \in Nat /\ Len(waiters) \in Nat
      /\ (waiters # <<>> <=> Len(waiters) > 0)
      /\ IsLine(waiters)
      /\ \A q \in Requests : InLine(waiters, q) <=> phase[q] = "waiting"
  BY SemaphoreTypes DEF SemaphoreInv, LineInv
<1>2. ASSUME NEW r \in Requests, RateLimited(r)
      PROVE  SemaphoreInv'
  <2>1. UNCHANGED <<semaphoreVars, inflight>> /\ phase[r] = "idle" /\ Goes(r, "429")
    BY <1>2 DEF RateLimited
  <2> QED
    BY <2>1, GoesEffect, OutsideSemaphore DEF SemaphoreInv, Phases, InPhase
<1>3. ASSUME NEW r \in Requests, TokenAcquired(r)
      PROVE  SemaphoreInv'
  <2>1. UNCHANGED <<semaphoreVars, inflight>> /\ phase[r] = "idle" /\ Goes(r, "permit")
    BY <1>3 DEF TokenAcquired
  <2> QED
    BY <2>1, GoesEffect, OutsideSemaphore DEF SemaphoreInv, Phases, InPhase
<1>4. ASSUME NEW r \in Requests, PermitAcquired(r)
      PROVE  SemaphoreInv'
  <2>1. phase[r] = "permit" /\ value > 0 /\ waiters = <<>> /\ Len(waiters) = 0
    BY <1>1, <1>4 DEF PermitAcquired, Locked
  <2>2. Wakes(r, "publish", value - 1, waiters, 0)
    <3>1. waiters' = SubSeq(waiters, 0 + 1, Len(waiters))
      BY <1>4, <2>1, SubSeqEmpty DEF PermitAcquired
    <3>2. phase' = [q \in Requests |-> IF q = r THEN "publish" ELSE
                      IF \E i \in 1 .. 0 : waiters[i] = q THEN "granted" ELSE phase[q]]
      <4>1. \A q \in Requests : ~ \E i \in 1 .. 0 : waiters[i] = q
        OBVIOUS
      <4>2. phase' = [q \in Requests |-> IF q = r THEN "publish" ELSE phase[q]]
        BY <1>4 DEF PermitAcquired, Goes, SemaphoreInv, PhaseTypeOK
      <4> QED
        BY <4>1, <4>2
    <3> QED
      BY <1>1, <1>4, <3>1, <3>2 DEF PermitAcquired, Wakes
  <2>3. inflight' = inflight + 1 - 0
    BY <1>4, SemaphoreTypes DEF PermitAcquired, SemaphoreInv, PermitInv, PermitsConserved
  <2>4. value - 1 \in Nat /\ 0 \in 0 .. Len(waiters) /\ "publish" \in Phases \ {"waiting", "granted"}
        /\ (value - 1) + 1 = value + 0
    BY <1>1, <2>1 DEF Phases
  <2> QED
    BY <1>1, <2>1, <2>2, <2>3, <2>4, HandsOn
<1>5. ASSUME NEW r \in Requests, PermitAwaited(r)
      PROVE  SemaphoreInv'
  <2>1. /\ phase[r] = "permit" /\ Locked
        /\ waiters' = Append(waiters, r) /\ Goes(r, "waiting")
        /\ UNCHANGED <<value, inflight>>
    BY <1>5 DEF PermitAwaited
  <2>2. /\ PhaseTypeOK'
        /\ \A q \in Requests : phase'[q] = IF q = r THEN "waiting" ELSE phase[q]
        /\ InPhase("granted")' = InPhase("granted") /\ InPhase("publish")' = InPhase("publish")
    BY <2>1, GoesEffect DEF SemaphoreInv, Phases, InPhase
  <2>3. LineInv'
    <3>1. ~InLine(waiters, r)
      BY <1>1, <2>1
    <3>2. IsLine(waiters') /\ \A q : InLine(waiters', q) <=> InLine(waiters, q) \/ q = r
      BY <1>1, <2>1, <3>1, JoinsLine
    <3> QED
      BY <1>1, <2>2, <3>2 DEF LineInv, IsLine, InLine
  <2>4. PermitInv'
    BY <2>1, <2>2 DEF SemaphoreInv, PermitInv, PermitsConserved
  <2>5. NoLostWakeup'
    <3>1. Granted' = Granted
      BY <2>2 DEF Granted, InPhase
    <3>2. value > 0 => Granted # {}
      BY <2>1 DEF Locked, SemaphoreInv, NoLostWakeup
    <3> QED
      BY <2>1, <3>1, <3>2 DEF NoLostWakeup
  <2> QED
    BY <2>2, <2>3, <2>4, <2>5 DEF SemaphoreInv
<1>6. ASSUME NEW r \in Requests, PermitReceived(r)
      PROVE  SemaphoreInv'
  <2> DEFINE k == Lesser(value, Len(waiters))
  <2>1. phase[r] = "granted" /\ Wakes(r, "publish", value, waiters, k) /\ inflight' = inflight + 1 - 0
    BY <1>6, SemaphoreTypes
       DEF PermitReceived, Received, WakesAll, SemaphoreInv, PermitInv, PermitsConserved
  <2>2. k \in 0 .. Len(waiters) /\ k <= value /\ ~(value - k > 0 /\ Len(waiters) - k > 0)
        /\ "publish" \in Phases \ {"waiting", "granted"}
    BY <1>1 DEF Lesser, Phases
  <2> HIDE DEF k
  <2> QED
    BY <1>1, <2>1, <2>2, HandsOn
<1>7. ASSUME NEW r \in Requests, TimesOutWaiting(r)
      PROVE  SemaphoreInv'
  <2>1. PICK i \in 1 .. Len(waiters) :
          waiters[i] = r /\ WakesAll(r, "503", value, RemoveAt(waiters, i))
    BY <1>7 DEF TimesOutWaiting
  <2> DEFINE line == RemoveAt(waiters, i)
             k == Lesser(value, Len(line))
  <2>2. phase[r] = "waiting" /\ Wakes(r, "503", value, line, k) /\ inflight' = inflight + 0 - 0
    BY <1>7, <2>1, SemaphoreTypes
       DEF TimesOutWaiting, WakesAll, SemaphoreInv, PermitInv, PermitsConserved
  <2>3. IsLine(line) /\ \A q \in Requests : InLine(line, q) <=> phase[q] = "waiting" /\ q # r
    BY <1>1, <2>1, LeavesLine
  <2> HIDE DEF line
  <2>4. Len(line) \in Nat
    BY <2>3, LenProperties DEF IsLine
  <2>5. k \in 0 .. Len(line) /\ k <= value /\ ~(value - k > 0 /\ Len(line) - k > 0)
        /\ "503" \in Phases \ {"waiting", "granted"}
    BY <1>1, <2>4 DEF Lesser, Phases
  <2> HIDE DEF k
  <2> QED
    BY <1>1, <2>2, <2>3, <2>5, HandsOn
<1>8. ASSUME NEW r \in Requests, TimesOutGranted(r)
      PROVE  SemaphoreInv'
  <2> DEFINE k == Lesser(value + 1, Len(waiters))
  <2>1. phase[r] = "granted" /\ Wakes(r, "503", value + 1, waiters, k) /\ inflight' = inflight + 0 - 0
    BY <1>8, SemaphoreTypes
       DEF TimesOutGranted, WakesAll, SemaphoreInv, PermitInv, PermitsConserved
  <2>2. value + 1 \in Nat /\ "503" \in Phases \ {"waiting", "granted"}
    BY <1>1 DEF Phases
  <2>3. k \in 0 .. Len(waiters) /\ k <= value + 1 /\ (k = value + 1 \/ k = Len(waiters))
    BY <1>1, <2>2 DEF Lesser
  <2> HIDE DEF k
  <2>4. ~(value + 1 - k > 0 /\ Len(waiters) - k > 0)
    BY <1>1, <2>2, <2>3
  <2> QED
    BY <1>1, <2>1, <2>2, <2>3, <2>4, HandsOn
<1>9. ASSUME NEW r \in Requests, PublishEnds(r)
      PROVE  SemaphoreInv'
  <2> DEFINE k == Lesser(1, Len(waiters))
  <2>1. PICK answer \in {"202", "500"} : Wakes(r, answer, value + 1, waiters, k)
    BY <1>9 DEF PublishEnds
  <2>2. phase[r] = "publish" /\ inflight' = inflight + 0 - 1
    BY <1>9, SemaphoreTypes DEF PublishEnds, SemaphoreInv, PermitInv, PermitsConserved
  <2>3. k \in 0 .. Len(waiters) /\ k <= value + 1
        /\ answer \in Phases \ {"waiting", "granted"} /\ value + 1 \in Nat
        /\ answer # "publish" /\ value + 1 + 0 = value + 1
    BY <1>1 DEF Lesser, Phases
  <2>4. ASSUME value + 1 - k > 0, Len(waiters) - k > 0
        PROVE  InPhase("granted")' # {}
    <3>1. k = 1
      BY <1>1, <2>4 DEF Lesser
    <3>2. value > 0 /\ waiters # <<>>
      BY <1>1, <2>4, <3>1
    <3>3. PICK q \in Requests : phase[q] = "granted"
      BY <3>2 DEF SemaphoreInv, NoLostWakeup, Granted
    <3>4. phase'[q] = "granted"
      BY <2>1, <2>2, <3>3 DEF Wakes
    <3> QED
      BY <3>4 DEF InPhase
  <2> HIDE DEF k
  <2> QED
    BY <1>1, <2>1, <2>2, <2>3, <2>4, HandsOn
<1>10. ASSUME NEW r \in Requests, Respond(r)
      PROVE  SemaphoreInv'
  <2>1. UNCHANGED <<semaphoreVars, inflight>> /\ phase[r] \in {"202", "429", "500", "503"}
        /\ Goes(r, "idle")
    BY <1>10 DEF Respond
  <2> QED
    BY <2>1, GoesEffect, OutsideSemaphore DEF SemaphoreInv, Phases, InPhase
<1>11. CASE Tick \/ Mark \/ UNCHANGED vars
  <2>1. UNCHANGED <<semaphoreVars, inflight, phase>>
    BY <1>11 DEF Tick, Mark, vars, semaphoreVars
  <2> QED
    BY <2>1, OutsideSemaphore DEF SemaphoreInv, PhaseTypeOK, InPhase
<1> QED
  BY <1>2, <1>3, <1>4, <1>5, <1>6, <1>7, <1>8, <1>9, <1>10, <1>11 DEF Next, Proceeds

LEMMA SemaphoreInit == Init => SemaphoreInv
<1> SUFFICES ASSUME Init
             PROVE  SemaphoreInv
  OBVIOUS
<1>1. PhaseTypeOK
  BY DEF Init, PhaseTypeOK, Phases
<1>2. LineInv
  BY EmptySeq DEF Init, LineInv, IsLine, InLine
<1>3. InPhase("granted") = {} /\ InPhase("publish") = {}
  BY DEF Init, InPhase
<1>4. PermitInv
  <2>1. IsFiniteSet({}) /\ Cardinality({}) = 0
    BY FS_EmptySet
  <2>2. value = MaxInFlight /\ inflight = 0 /\ MaxInFlight \in Nat
    BY AdmissionAssumption DEF Init
  <2> QED
    BY <1>3, <2>1, <2>2 DEF PermitInv, PermitsConserved
<1> QED
  BY <1>1, <1>2, <1>4 DEF Init, SemaphoreInv, NoLostWakeup

LEMMA SemaphoreInvariant == Spec => []SemaphoreInv
BY SemaphoreInit, SemaphoreStep, PTL DEF Spec

\* Whatever times out, raises or is woken in whatever order, each permit is free, handed to
\* one waiter that has still to run, or held by one request that publishes; and the gauge
\* counts those that publish.
THEOREM PermitsAreConserved == Spec => []PermitsConserved
BY SemaphoreInvariant, PTL DEF SemaphoreInv, PermitInv

\* Nobody waits beside a free permit, unless a waiter that was woken has still to run.
THEOREM WakeupsAreNotLost == Spec => []NoLostWakeup
BY SemaphoreInvariant, PTL DEF SemaphoreInv

\* The semaphore never has more permits than it began with, and the gauge never falls below
\* zero.
THEOREM AdmissionTypeCorrect == Spec => []TypeOK
<1>1. BucketInv /\ [Next]_vars /\ now <= MaxTime => (now <= MaxTime)'
  BY AdmissionAssumption
     DEF BucketInv, BucketTypeOK, Next, RateLimited, TokenAcquired, Proceeds, PermitAcquired,
         PermitAwaited, PermitReceived, TimesOutWaiting, TimesOutGranted, PublishEnds, Respond,
         Tick, Mark, vars
<1>2. Init => now <= MaxTime
  BY AdmissionAssumption DEF Init
<1>3. BucketInv /\ SemaphoreInv /\ now <= MaxTime => TypeOK
  BY SemaphoreTypes, AdmissionAssumption
     DEF BucketInv, BucketTypeOK, SemaphoreInv, PhaseTypeOK, LineInv, IsLine, PermitInv,
         PermitsConserved, TypeOK
<1> QED
  BY <1>1, <1>2, <1>3, BucketInit, BucketStep, SemaphoreInvariant, PTL DEF Spec
==============================================================================
