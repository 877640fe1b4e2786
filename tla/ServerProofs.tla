---------------------------- MODULE ServerProofs ----------------------------
(* The rate limiter: that its limit holds for every number of addresses,     *)
(* every limit and every window.  The server around it: what it adds to the  *)
(* limiter, how many requests it takes on and when it turns one away, for    *)
(* any number of connections, threads and shed limit.                        *)
EXTENDS Server, FiniteSetTheorems, TLAPS

-----------------------------------------------------------------------------
(* The limiter by itself. *)

\* A set that holds the last n admissions of a log of length m has n of them.
LEMMA SuffixCounts ==
    ASSUME NEW S \in SUBSET Nat, IsFiniteSet(S), NEW m \in Nat, NEW n \in Nat,
           n <= m, \A i \in (m - n + 1)..m : i \in S
    PROVE  Cardinality(S) >= n
<1>1. Cardinality((m - n + 1)..m) = n
  BY FS_Interval
<1>2. (m - n + 1)..m \subseteq S
  OBVIOUS
<1> QED
  BY <1>1, <1>2, FS_Subset, FS_CardinalityType

\* What Append does to a log, position by position.
LEMMA Appended ==
    ASSUME NEW s \in Seq(Nat), NEW t \in Nat
    PROVE  /\ Append(s, t) \in Seq(Nat)
           /\ Len(Append(s, t)) = Len(s) + 1
           /\ Len(s) \in Nat
           /\ \A i \in 1..Len(s) : Append(s, t)[i] = s[i]
           /\ Append(s, t)[Len(s) + 1] = t
  OBVIOUS

\* The vectors are finite and retain only shrinks them.
LEMMA RetainedFacts ==
    ASSUME TypeOK, NEW c \in Clients, NEW time \in Int
    PROVE  /\ IsFiniteSet(entry[c]) /\ IsFiniteSet(Retained(c, time))
           /\ Retained(c, time) \subseteq entry[c]
           /\ Cardinality(Retained(c, time)) \in Nat
           /\ Cardinality(entry[c]) \in Nat
           /\ Cardinality(Retained(c, time)) <= Cardinality(entry[c])
<1>1. Len(log[c]) \in Nat /\ entry[c] \in SUBSET (1..Len(log[c]))
  BY DEF TypeOK
<1>2. IsFiniteSet(1..Len(log[c]))
  BY <1>1, FS_Interval
<1>3. IsFiniteSet(entry[c])
  BY <1>1, <1>2, FS_Subset
<1>4. Retained(c, time) \in SUBSET entry[c]
  BY DEF Retained
<1> QED
  BY <1>3, <1>4, FS_Subset, FS_CardinalityType

\* The clock, the logs, the vectors and the sweep keep their types.
THEOREM TypeCorrect == Spec => []TypeOK
<1>1. Init => TypeOK
  BY ConstantsOK DEF Init, TypeOK
<1>2. TypeOK /\ [Next]_vars => TypeOK'
  <2> SUFFICES ASSUME TypeOK, [Next]_vars PROVE TypeOK'
    OBVIOUS
  <2> USE ConstantsOK DEF TypeOK
  <2>1. ASSUME NEW c \in Clients, Admit(c) PROVE TypeOK'
    <3>1. \A d \in Clients : log[d] \in Seq(Nat) /\ Len(log[d]) \in Nat
      OBVIOUS
    <3>2. log' \in [Clients -> Seq(Nat)]
      BY <2>1 DEF Admit
    <3>3. Len(log'[c]) = Len(log[c]) + 1 /\ \A d \in Clients \ {c} : log'[d] = log[d]
      BY <2>1, <3>1, Appended DEF Admit
    <3>4. entry' \in [Clients -> SUBSET Nat]
      BY <2>1, <3>1 DEF Admit, Retained
    <3>5. \A d \in Clients : entry'[d] \subseteq 1..Len(log'[d])
      BY <2>1, <3>1, <3>3 DEF Admit, Retained
    <3> QED
      BY <2>1, <3>2, <3>4, <3>5 DEF Admit
  <2>2. ASSUME NEW c \in Clients, Refuse(c) PROVE TypeOK'
    BY <2>2 DEF Refuse, Retained
  <2>3. ASSUME BeginCleanup PROVE TypeOK'
    BY <2>3 DEF BeginCleanup
  <2>4. ASSUME NEW s \in Shards, CleanShard(s) PROVE TypeOK'
    BY <2>4 DEF CleanShard, Retained
  <2>5. ASSUME Tick PROVE TypeOK'
    BY <2>5 DEF Tick
  <2>6. ASSUME UNCHANGED vars PROVE TypeOK'
    BY <2>6 DEF vars
  <2> QED
    BY <2>1, <2>2, <2>3, <2>4, <2>5, <2>6 DEF Next
<1> QED
  BY <1>1, <1>2, PTL DEF Spec

\* The inductive invariant: with every admission of the last window in its
\* vector, a vector with room means fewer than MaxRequests admissions.
THEOREM LimitInvariant == Spec => []IInv
<1> USE ConstantsOK
<1>1. Init => IInv
  <2> SUFFICES ASSUME Init PROVE IInv
    OBVIOUS
  <2>1. TypeOK /\ Ordered /\ RemembersWindow /\ WithinLimit /\ SweptClean
    BY DEF Init, TypeOK, Ordered, RemembersWindow, WithinLimit, SweptClean
  <2>2. VectorBounded
    BY FS_EmptySet DEF Init, VectorBounded
  <2> QED
    BY <2>1, <2>2 DEF IInv
<1>2. TypeOK' /\ IInv /\ [Next]_vars => IInv'
  <2> SUFFICES ASSUME TypeOK', IInv, [Next]_vars
               PROVE  (Ordered /\ RemembersWindow /\ WithinLimit
                        /\ VectorBounded /\ SweptClean)'
    BY DEF IInv
  <2> USE DEF IInv
  <2>t. now \in Int /\ started \in Int /\ started <= now
    BY DEF TypeOK
  <2>l. \A c \in Clients : /\ log[c] \in Seq(Nat) /\ Len(log[c]) \in Nat
                           /\ \A i \in 1..Len(log[c]) : log[c][i] \in Nat
                           /\ entry[c] \subseteq 1..Len(log[c])
    BY DEF TypeOK
  <2>1. ASSUME NEW c \in Clients, Admit(c)
        PROVE  (Ordered /\ RemembersWindow /\ WithinLimit
                 /\ VectorBounded /\ SweptClean)'
    <3> DEFINE n == Len(log[c])
               R == Retained(c, now)
    <3>0. n \in Nat /\ R \subseteq 1..n
      BY <2>l DEF Retained
    <3>1. /\ log'[c] = Append(log[c], now) /\ entry'[c] = R \cup {n + 1}
          /\ \A d \in Clients \ {c} : log'[d] = log[d] /\ entry'[d] = entry[d]
          /\ now' = now /\ started' = started /\ todo' = todo
      BY <2>1 DEF Admit, TypeOK
    <3>2. /\ Len(log'[c]) = n + 1 /\ log'[c][n + 1] = now
          /\ \A i \in 1..n : log'[c][i] = log[c][i]
      BY <2>t, <2>l, <3>1, Appended DEF TypeOK
    <3>3. \A i \in 1..(n + 1) : i \in 1..n \/ i = n + 1
      BY <3>0
    <3>4. \A i \in 1..n : log[c][i] + Window >= now => i \in R
      BY DEF RemembersWindow, Retained
    <3>5. Ordered'
      <4> SUFFICES ASSUME NEW d \in Clients,
                          NEW i \in 1..Len(log'[d]), NEW j \in 1..Len(log'[d])
                   PROVE  /\ i <= j => log'[d][i] <= log'[d][j]
                          /\ log'[d][i] <= now'
        BY DEF Ordered
      <4>1. CASE d # c
        BY <3>1, <4>1 DEF Ordered
      <4>2. CASE d = c
        <5>1. \A k \in 1..n : log'[c][k] = log[c][k] /\ log[c][k] <= now
          BY <3>2 DEF Ordered
        <5>2. i \in 1..(n + 1) /\ j \in 1..(n + 1)
          BY <3>2, <4>2
        <5>3. CASE i \in 1..n /\ j \in 1..n
          BY <3>1, <4>2, <5>1, <5>3 DEF Ordered
        <5>4. CASE i \in 1..n /\ j = n + 1
          BY <3>1, <3>2, <4>2, <5>1, <5>4
        <5>5. CASE i = n + 1
          <6>1. i <= j => j = n + 1
            BY <3>0, <5>2, <5>5
          <6> QED
            BY <2>t, <3>1, <3>2, <4>2, <5>5, <6>1
        <5> QED
          BY <3>3, <5>2, <5>3, <5>4, <5>5
      <4> QED
        BY <4>1, <4>2
    <3>6. RemembersWindow'
      <4> SUFFICES ASSUME NEW d \in Clients, NEW i \in 1..Len(log'[d]),
                          log'[d][i] + Window >= now'
                   PROVE  i \in entry'[d]
        BY DEF RemembersWindow
      <4>1. CASE d # c
        BY <3>1, <4>1 DEF RemembersWindow
      <4>2. CASE d = c
        <5>1. CASE i = n + 1
          BY <3>1, <4>2, <5>1
        <5>2. CASE i \in 1..n
          <6>1. log[c][i] + Window >= now
            BY <3>1, <3>2, <4>2, <5>2
          <6> QED
            BY <3>1, <3>4, <4>2, <5>2, <6>1
        <5> QED
          BY <3>2, <3>3, <4>2, <5>1, <5>2
      <4> QED
        BY <4>1, <4>2
    <3>7. IsFiniteSet(R) /\ Cardinality(R) < MaxRequests
      BY <2>t, <2>1, RetainedFacts DEF Admit
    <3>8. WithinLimit'
      <4> SUFFICES ASSUME NEW d \in Clients, NEW i \in 1..Len(log'[d]),
                          i + MaxRequests <= Len(log'[d])
                   PROVE  log'[d][i + MaxRequests] > log'[d][i] + Window
        BY DEF WithinLimit
      <4>1. CASE d # c
        BY <3>1, <4>1 DEF WithinLimit
      <4>2. CASE d = c /\ i + MaxRequests <= n
        <5>1. i \in 1..n /\ i + MaxRequests \in 1..n
          BY <3>0, <3>2, <4>2
        <5>2. log[c][i + MaxRequests] > log[c][i] + Window
          BY <4>2, <5>1 DEF WithinLimit
        <5> QED
          BY <3>2, <4>2, <5>1, <5>2
      <4>3. CASE d = c /\ i + MaxRequests = n + 1
        <5>1. i \in 1..n /\ i = n - MaxRequests + 1
          BY <3>0, <3>2, <4>3
        <5>2. ASSUME log[c][i] + Window >= now PROVE FALSE
          <6>1. \A j \in (n - MaxRequests + 1)..n : j \in R
            <7> SUFFICES ASSUME NEW j \in i..n PROVE j \in R
              BY <5>1
            <7>1. j \in 1..n /\ i <= j
              BY <3>0, <5>1
            <7>2. log[c][i] <= log[c][j]
              BY <5>1, <7>1 DEF Ordered
            <7>3. log[c][i] \in Nat /\ log[c][j] \in Nat
              BY <2>l, <5>1, <7>1
            <7>4. log[c][j] + Window >= now
              BY <2>t, <5>2, <7>2, <7>3
            <7> QED
              BY <3>4, <7>1, <7>4
          <6>2. MaxRequests <= n
            BY <3>0, <5>1
          <6>3. R \in SUBSET Nat
            BY <3>0
          <6>4. Cardinality(R) >= MaxRequests
            BY <3>0, <3>7, <6>1, <6>2, <6>3, SuffixCounts
          <6> QED
            BY <3>7, <6>3, <6>4, FS_CardinalityType
        <5>3. log[c][i] \in Nat
          BY <2>l, <5>1
        <5>4. log'[c][i + MaxRequests] = now /\ log'[c][i] = log[c][i]
          BY <3>2, <4>3, <5>1
        <5> QED
          BY <2>t, <4>3, <5>2, <5>3, <5>4
      <4>4. d = c => i + MaxRequests <= n \/ i + MaxRequests = n + 1
        <5> SUFFICES ASSUME d = c
                     PROVE  i + MaxRequests <= n \/ i + MaxRequests = n + 1
          OBVIOUS
        <5>1. Len(log'[d]) = n + 1
          BY <3>2
        <5>2. i \in Nat /\ MaxRequests \in Nat /\ i + MaxRequests <= n + 1
          BY <5>1
        <5> HIDE DEF n
        <5> QED
          BY <3>0, <5>2
      <4> QED
        BY <4>1, <4>2, <4>3, <4>4
    <3>9. VectorBounded'
      <4>1. n + 1 \notin R
        BY <3>0
      <4>2. Cardinality(R \cup {n + 1}) = Cardinality(R) + 1
        <5> HIDE DEF R, n
        <5> QED
          BY <3>7, <4>1, FS_AddElement
      <4>3. Cardinality(R) \in Nat
        BY <3>7, FS_CardinalityType
      <4>4. Cardinality(entry'[c]) <= MaxRequests
        <5> HIDE DEF R, n
        <5> QED
          BY <3>1, <3>7, <4>2, <4>3
      <4>5. \A d \in Clients \ {c} : Cardinality(entry'[d]) <= MaxRequests
        BY <3>1 DEF VectorBounded
      <4> QED
        BY <4>4, <4>5 DEF VectorBounded
    <3>10. SweptClean'
      <4> SUFFICES ASSUME NEW d \in Clients, ShardOf[d] \notin todo', entry'[d] # {}
                   PROVE  \E i \in entry'[d] : log'[d][i] + Window >= started'
        BY DEF SweptClean
      <4>1. CASE d # c
        BY <3>1, <4>1 DEF SweptClean
      <4>2. CASE d = c
        <5>1. n + 1 \in entry'[d] /\ log'[d][n + 1] + Window >= started'
          BY <2>t, <3>1, <3>2, <4>2
        <5> QED
          BY <5>1
      <4> QED
        BY <4>1, <4>2
    <3> QED
      BY <3>5, <3>6, <3>8, <3>9, <3>10
  <2>2. ASSUME NEW c \in Clients, Refuse(c)
        PROVE  (Ordered /\ RemembersWindow /\ WithinLimit
                 /\ VectorBounded /\ SweptClean)'
    <3>1. /\ entry'[c] = Retained(c, now)
          /\ \A d \in Clients \ {c} : entry'[d] = entry[d]
          /\ UNCHANGED <<now, log, started, todo>>
      BY <2>2 DEF Refuse, TypeOK
    <3>2. (Ordered /\ WithinLimit)'
      BY <3>1 DEF Ordered, WithinLimit
    <3>3. RemembersWindow'
      BY <3>1 DEF RemembersWindow, Retained
    <3>4. VectorBounded'
      BY <2>t, <3>1, RetainedFacts DEF VectorBounded
    <3>5. Retained(c, now) # {} => \E i \in Retained(c, now) : log[c][i] + Window >= started
      BY <2>t, <2>l DEF Retained
    <3>6. SweptClean'
      BY <3>1, <3>5 DEF SweptClean
    <3> QED
      BY <3>2, <3>3, <3>4, <3>6
  <2>3. ASSUME BeginCleanup
        PROVE  (Ordered /\ RemembersWindow /\ WithinLimit
                 /\ VectorBounded /\ SweptClean)'
    BY <2>3 DEF BeginCleanup, Ordered, RemembersWindow, WithinLimit,
       VectorBounded, SweptClean
  <2>4. ASSUME NEW s \in Shards, CleanShard(s)
        PROVE  (Ordered /\ RemembersWindow /\ WithinLimit
                 /\ VectorBounded /\ SweptClean)'
    <3>1. /\ \A c \in Clients : entry'[c] = Retained(c, started) \/ entry'[c] = entry[c]
          /\ UNCHANGED <<now, log, started>>
      BY <2>4 DEF CleanShard
    <3>2. (Ordered /\ WithinLimit)'
      BY <3>1 DEF Ordered, WithinLimit
    <3>3. RemembersWindow'
      <4> SUFFICES ASSUME NEW c \in Clients, NEW i \in 1..Len(log[c]),
                          log[c][i] + Window >= now
                   PROVE  i \in entry'[c]
        BY <3>1 DEF RemembersWindow
      <4>1. i \in entry[c] /\ log[c][i] + Window >= started
        BY <2>t, <2>l DEF RemembersWindow
      <4> QED
        BY <3>1, <4>1 DEF Retained
    <3>4. VectorBounded'
      <4> SUFFICES ASSUME NEW c \in Clients
                   PROVE  Cardinality(entry'[c]) <= MaxRequests
        BY DEF VectorBounded
      <4> QED
        BY <2>t, <3>1, RetainedFacts DEF VectorBounded
    <3>5. SweptClean'
      <4> SUFFICES ASSUME NEW c \in Clients, ShardOf[c] \notin todo', entry'[c] # {}
                   PROVE  \E i \in entry'[c] : log[c][i] + Window >= started
        BY <3>1 DEF SweptClean
      <4>1. CASE ShardOf[c] = s
        BY <2>4, <4>1 DEF CleanShard, Retained
      <4>2. CASE ShardOf[c] # s
        BY <2>4, <4>2 DEF CleanShard, SweptClean
      <4> QED
        BY <4>1, <4>2
    <3> QED
      BY <3>2, <3>3, <3>4, <3>5
  <2>5. ASSUME Tick
        PROVE  (Ordered /\ RemembersWindow /\ WithinLimit
                 /\ VectorBounded /\ SweptClean)'
    <3>1. now' = now + 1 /\ UNCHANGED <<log, entry, started, todo>>
      BY <2>5 DEF Tick
    <3>2. (WithinLimit /\ VectorBounded /\ SweptClean)'
      BY <3>1 DEF WithinLimit, VectorBounded, SweptClean
    <3>3. Ordered'
      BY <2>t, <2>l, <3>1 DEF Ordered
    <3>4. RemembersWindow'
      BY <2>t, <2>l, <3>1 DEF RemembersWindow
    <3> QED
      BY <3>2, <3>3, <3>4
  <2>6. CASE UNCHANGED vars
    BY <2>6 DEF vars, Ordered, RemembersWindow, WithinLimit, VectorBounded,
       SweptClean
  <2> QED
    BY <2>1, <2>2, <2>3, <2>4, <2>5, <2>6 DEF Next
<1> QED
  BY <1>1, <1>2, TypeCorrect, PTL DEF Spec

\* No address is admitted more than MaxRequests times within any window.
THEOREM LimitHolds == Spec => []WithinLimit
<1>1. IInv => WithinLimit
  BY DEF IInv
<1> QED
  BY <1>1, LimitInvariant, PTL

\* No admission that still counts is forgotten, whatever a sweep that began
\* long ago does between the checks.
THEOREM WindowRemembered == Spec => []RemembersWindow
<1>1. IInv => RemembersWindow
  BY DEF IInv
<1> QED
  BY <1>1, LimitInvariant, PTL

\* No vector outgrows the limit.
THEOREM VectorsBounded == Spec => []VectorBounded
<1>1. IInv => VectorBounded
  BY DEF IInv
<1> QED
  BY <1>1, LimitInvariant, PTL

\* A finished part of a sweep leaves no address that had expired when it began.
THEOREM SweepComplete == Spec => []SweptClean
<1>1. IInv => SweptClean
  BY DEF IInv
<1> QED
  BY <1>1, LimitInvariant, PTL

-----------------------------------------------------------------------------
(* Counting requests. *)

\* What a request's move does to the two sets the shedder depends on.
LEMMA Finite ==
    /\ IsFiniteSet(CountedRequests) /\ IsFiniteSet(Between)
    /\ Cardinality(CountedRequests) \in Nat /\ Cardinality(Between) \in Nat
<1>1. CountedRequests \in SUBSET Requests /\ Between \in SUBSET Requests
  BY DEF CountedRequests, Between
<1>2. IsFiniteSet(CountedRequests) /\ IsFiniteSet(Between)
  BY <1>1, ServerConstantsOK, FS_Subset
<1> QED
  BY <1>2, FS_CardinalityType

LEMMA MoveCounted ==
    ASSUME NEW r \in Requests, NEW place, ServerTypeOK, Goto(r, place)
    PROVE  /\ (pc[r] \in Counted) = (place \in Counted) =>
                  Cardinality(CountedRequests)' = Cardinality(CountedRequests)
           /\ ~(pc[r] \in Counted) /\ place \in Counted =>
                  Cardinality(CountedRequests)' = Cardinality(CountedRequests) + 1
           /\ pc[r] \in Counted /\ ~(place \in Counted) =>
                  Cardinality(CountedRequests)' = Cardinality(CountedRequests) - 1
<1> DEFINE S == CountedRequests
<1>1. pc' = [pc EXCEPT ![r] = place] /\ pc \in [Requests -> Waiting \cup Over]
  BY DEF Goto, ServerTypeOK
<1>2. r \in S <=> pc[r] \in Counted
  BY DEF CountedRequests
<1>3. CASE place \in Counted
  <2>1. S' = S \cup {r}
    BY <1>1, <1>3 DEF CountedRequests
  <2> HIDE DEF S
  <2>2. Cardinality(S') = IF r \in S THEN Cardinality(S) ELSE Cardinality(S) + 1
    BY <2>1, Finite, FS_AddElement DEF S
  <2> QED
    BY <2>2, <1>2, <1>3 DEF S
<1>4. CASE ~(place \in Counted)
  <2>1. S' = S \ {r}
    BY <1>1, <1>4 DEF CountedRequests
  <2> HIDE DEF S
  <2>2. Cardinality(S') = IF r \in S THEN Cardinality(S) - 1 ELSE Cardinality(S)
    BY <2>1, Finite, FS_RemoveElement DEF S
  <2> QED
    BY <2>2, <1>2, <1>4 DEF S
<1> QED
  BY <1>3, <1>4

LEMMA MoveBetween ==
    ASSUME NEW r \in Requests, NEW place, ServerTypeOK, Goto(r, place)
    PROVE  /\ (pc[r] = "counting") = (place = "counting") =>
                  Cardinality(Between)' = Cardinality(Between)
           /\ ~(pc[r] = "counting") /\ place = "counting" =>
                  Cardinality(Between)' = Cardinality(Between) + 1
           /\ pc[r] = "counting" /\ ~(place = "counting") =>
                  Cardinality(Between)' = Cardinality(Between) - 1
<1> DEFINE S == Between
<1>1. pc' = [pc EXCEPT ![r] = place] /\ pc \in [Requests -> Waiting \cup Over]
  BY DEF Goto, ServerTypeOK
<1>2. r \in S <=> pc[r] = "counting"
  BY DEF Between
<1>3. CASE place = "counting"
  <2>1. S' = S \cup {r}
    BY <1>1, <1>3 DEF Between
  <2> HIDE DEF S
  <2>2. Cardinality(S') = IF r \in S THEN Cardinality(S) ELSE Cardinality(S) + 1
    BY <2>1, Finite, FS_AddElement DEF S
  <2> QED
    BY <2>2, <1>2, <1>3 DEF S
<1>4. CASE ~(place = "counting")
  <2>1. S' = S \ {r}
    BY <1>1, <1>4 DEF Between
  <2> HIDE DEF S
  <2>2. Cardinality(S') = IF r \in S THEN Cardinality(S) - 1 ELSE Cardinality(S)
    BY <2>1, Finite, FS_RemoveElement DEF S
  <2> QED
    BY <2>2, <1>2, <1>4 DEF S
<1> QED
  BY <1>3, <1>4

-----------------------------------------------------------------------------
(* What the counter says. *)

\* The inductive invariant.
Inv == ServerTypeOK /\ Accounted /\ OvershootBounded /\ NothingAfterExit

LEMMA InitInv == ServerInit => Inv
<1> SUFFICES ASSUME ServerInit PROVE Inv
  OBVIOUS
<1>1. CountedRequests = {} /\ Between = {}
  BY DEF ServerInit, CountedRequests, Between, Counted
<1>2. Cardinality(CountedRequests) = 0 /\ Cardinality(Between) = 0
  BY <1>1, FS_EmptySet
<1>3. ServerTypeOK
  BY DEF ServerInit, ServerTypeOK, Over
<1>4. 0 <= MaxActive + Threads - 1
  BY ServerConstantsOK
<1> QED
  BY <1>2, <1>3, <1>4
  DEF ServerInit, Inv, Accounted, OvershootBounded, NothingAfterExit

LEMMA Typed ==
    ASSUME Inv
    PROVE  /\ active \in Nat /\ leaked \in Nat /\ MaxActive \in Nat
           /\ Threads \in Nat \ {0}
           /\ Cardinality(CountedRequests) \in Nat
           /\ Cardinality(Between) \in Nat
  BY Finite, ServerConstantsOK DEF Inv, ServerTypeOK

\* A request that moves stays within the places there are, and only while the
\* process runs does it wait anywhere.
LEMMA MoveTyped ==
    ASSUME NEW r \in Requests, NEW place \in Waiting \cup Over, Inv,
           Goto(r, place), UNCHANGED <<content, process>>,
           active' \in Nat, leaked' \in Nat,
           place \in Over \/ phase # "exited"
    PROVE  ServerTypeOK' /\ NothingAfterExit'
<1>1. pc' \in [Requests -> Waiting \cup Over]
  BY DEF Inv, ServerTypeOK, Goto
<1>2. ServerTypeOK'
  BY <1>1 DEF Inv, ServerTypeOK, content, process
<1>3. place \in Over => place \notin Waiting
  BY DEF Over, Waiting, Answers
<1>4. NothingAfterExit'
  BY <1>3 DEF Inv, ServerTypeOK, NothingAfterExit, Goto, process
<1> QED
  BY <1>2, <1>4

LEMMA NextInv == Inv /\ [ServerNext]_serverVars => Inv'
<1> SUFFICES ASSUME Inv, [ServerNext]_serverVars PROVE Inv'
  OBVIOUS
<1>t. ServerTypeOK /\ Accounted /\ OvershootBounded /\ NothingAfterExit
  BY DEF Inv
<1> DEFINE C == Cardinality(CountedRequests)
           B == Cardinality(Between)
<1>1. ASSUME NEW r \in Requests, Accept(r) PROVE Inv'
  <2>0. UNCHANGED <<content, process>>
    BY <1>1 DEF Accept
  <2>1. phase # "exited"
    BY <1>1, <1>t DEF Accept, NothingAfterExit, Waiting
  <2>2. CASE Goto(r, "limiter") /\ active' = active /\ leaked' = leaked
    <3>0. pc[r] \in Over
      BY <1>1, <2>2 DEF Accept
    <3>1. Cardinality(CountedRequests)' = C
      BY <2>2, <3>0, <1>t, MoveCounted DEF Counted, Over, Answers
    <3>2. Cardinality(Between)' = B
      BY <2>2, <3>0, <1>t, MoveBetween DEF Over, Answers
    <3>3. active = C + leaked
      BY <2>1, <1>t DEF Accounted
    <3> HIDE DEF C, B
    <3>5. active' \in Nat /\ leaked' \in Nat
      BY <2>2, <3>3, Typed DEF C
    <3>6. ServerTypeOK' /\ NothingAfterExit'
      <4>1. "limiter" \in Waiting \cup Over
        BY DEF Waiting, Over, Answers
      <4> QED
        BY <4>1, <2>2, <2>0, <2>1, <3>5, MoveTyped
    <3>7. Accounted'
      BY <2>2, <3>1, <3>3, Typed DEF Accounted, C
    <3>8. OvershootBounded'
      BY <2>2, <3>2, <1>t, Typed DEF OvershootBounded, B
    <3> QED
      BY <3>6, <3>7, <3>8 DEF Inv
  <2> QED
    BY <1>1, <2>2 DEF Accept
<1>2. ASSUME NEW r \in Requests, NoPeer(r) PROVE Inv'
  <2>0. UNCHANGED <<content, process>>
    BY <1>2 DEF NoPeer
  <2>1. phase # "exited"
    BY <1>2, <1>t DEF NoPeer, NothingAfterExit, Waiting
  <2>2. CASE Goto(r, "500") /\ active' = active /\ leaked' = leaked
    <3>0. pc[r] = "limiter"
      BY <1>2, <2>2 DEF NoPeer
    <3>1. Cardinality(CountedRequests)' = C
      BY <2>2, <3>0, <1>t, MoveCounted DEF Counted, Over, Answers
    <3>2. Cardinality(Between)' = B
      BY <2>2, <3>0, <1>t, MoveBetween DEF Over, Answers
    <3>3. active = C + leaked
      BY <2>1, <1>t DEF Accounted
    <3> HIDE DEF C, B
    <3>5. active' \in Nat /\ leaked' \in Nat
      BY <2>2, <3>3, Typed DEF C
    <3>6. ServerTypeOK' /\ NothingAfterExit'
      <4>1. "500" \in Waiting \cup Over
        BY DEF Waiting, Over, Answers
      <4> QED
        BY <4>1, <2>2, <2>0, <2>1, <3>5, MoveTyped
    <3>7. Accounted'
      BY <2>2, <3>1, <3>3, Typed DEF Accounted, C
    <3>8. OvershootBounded'
      BY <2>2, <3>2, <1>t, Typed DEF OvershootBounded, B
    <3> QED
      BY <3>6, <3>7, <3>8 DEF Inv
  <2> QED
    BY <1>2, <2>2 DEF NoPeer
<1>3. ASSUME NEW r \in Requests, Pass(r) PROVE Inv'
  <2>0. UNCHANGED <<content, process>>
    BY <1>3 DEF Pass
  <2>1. phase # "exited"
    BY <1>3, <1>t DEF Pass, NothingAfterExit, Waiting
  <2>2. CASE Goto(r, "shedder") /\ active' = active /\ leaked' = leaked
    <3>0. pc[r] = "limiter"
      BY <1>3, <2>2 DEF Pass
    <3>1. Cardinality(CountedRequests)' = C
      BY <2>2, <3>0, <1>t, MoveCounted DEF Counted, Over, Answers
    <3>2. Cardinality(Between)' = B
      BY <2>2, <3>0, <1>t, MoveBetween DEF Over, Answers
    <3>3. active = C + leaked
      BY <2>1, <1>t DEF Accounted
    <3> HIDE DEF C, B
    <3>5. active' \in Nat /\ leaked' \in Nat
      BY <2>2, <3>3, Typed DEF C
    <3>6. ServerTypeOK' /\ NothingAfterExit'
      <4>1. "shedder" \in Waiting \cup Over
        BY DEF Waiting, Over, Answers
      <4> QED
        BY <4>1, <2>2, <2>0, <2>1, <3>5, MoveTyped
    <3>7. Accounted'
      BY <2>2, <3>1, <3>3, Typed DEF Accounted, C
    <3>8. OvershootBounded'
      BY <2>2, <3>2, <1>t, Typed DEF OvershootBounded, B
    <3> QED
      BY <3>6, <3>7, <3>8 DEF Inv
  <2>3. CASE Goto(r, "429") /\ active' = active /\ leaked' = leaked
    <3>0. pc[r] = "limiter"
      BY <1>3, <2>3 DEF Pass
    <3>1. Cardinality(CountedRequests)' = C
      BY <2>3, <3>0, <1>t, MoveCounted DEF Counted, Over, Answers
    <3>2. Cardinality(Between)' = B
      BY <2>3, <3>0, <1>t, MoveBetween DEF Over, Answers
    <3>3. active = C + leaked
      BY <2>1, <1>t DEF Accounted
    <3> HIDE DEF C, B
    <3>5. active' \in Nat /\ leaked' \in Nat
      BY <2>3, <3>3, Typed DEF C
    <3>6. ServerTypeOK' /\ NothingAfterExit'
      <4>1. "429" \in Waiting \cup Over
        BY DEF Waiting, Over, Answers
      <4> QED
        BY <4>1, <2>3, <2>0, <2>1, <3>5, MoveTyped
    <3>7. Accounted'
      BY <2>3, <3>1, <3>3, Typed DEF Accounted, C
    <3>8. OvershootBounded'
      BY <2>3, <3>2, <1>t, Typed DEF OvershootBounded, B
    <3> QED
      BY <3>6, <3>7, <3>8 DEF Inv
  <2> QED
    BY <1>3, <2>2, <2>3 DEF Pass
<1>4. ASSUME NEW r \in Requests, ShouldShed(r) PROVE Inv'
  <2>0. UNCHANGED <<content, process>>
    BY <1>4 DEF ShouldShed
  <2>1. phase # "exited"
    BY <1>4, <1>t DEF ShouldShed, NothingAfterExit, Waiting
  <2>2. CASE Goto(r, "shed") /\ active' = active /\ leaked' = leaked
    <3>0. pc[r] = "shedder"
      BY <1>4, <2>2 DEF ShouldShed
    <3>1. Cardinality(CountedRequests)' = C
      BY <2>2, <3>0, <1>t, MoveCounted DEF Counted, Over, Answers
    <3>2. Cardinality(Between)' = B
      BY <2>2, <3>0, <1>t, MoveBetween DEF Over, Answers
    <3>3. active = C + leaked
      BY <2>1, <1>t DEF Accounted
    <3> HIDE DEF C, B
    <3>5. active' \in Nat /\ leaked' \in Nat
      BY <2>2, <3>3, Typed DEF C
    <3>6. ServerTypeOK' /\ NothingAfterExit'
      <4>1. "shed" \in Waiting \cup Over
        BY DEF Waiting, Over, Answers
      <4> QED
        BY <4>1, <2>2, <2>0, <2>1, <3>5, MoveTyped
    <3>7. Accounted'
      BY <2>2, <3>1, <3>3, Typed DEF Accounted, C
    <3>8. OvershootBounded'
      BY <2>2, <3>2, <1>t, Typed DEF OvershootBounded, B
    <3> QED
      BY <3>6, <3>7, <3>8 DEF Inv
  <2>3. CASE Goto(r, "counting") /\ B < Threads /\ active < MaxActive /\ active' = active /\ leaked' = leaked
    <3>0. pc[r] = "shedder"
      BY <1>4, <2>3 DEF ShouldShed
    <3>1. Cardinality(CountedRequests)' = C
      BY <2>3, <3>0, <1>t, MoveCounted DEF Counted, Over, Answers
    <3>2. Cardinality(Between)' = B + 1
      BY <2>3, <3>0, <1>t, MoveBetween DEF Over, Answers
    <3>3. active = C + leaked
      BY <2>1, <1>t DEF Accounted
    <3> HIDE DEF C, B
    <3>5. active' \in Nat /\ leaked' \in Nat
      BY <2>3, <3>3, Typed DEF C
    <3>6. ServerTypeOK' /\ NothingAfterExit'
      <4>1. "counting" \in Waiting \cup Over
        BY DEF Waiting, Over, Answers
      <4> QED
        BY <4>1, <2>3, <2>0, <2>1, <3>5, MoveTyped
    <3>7. Accounted'
      BY <2>3, <3>1, <3>3, Typed DEF Accounted, C
    <3>8. OvershootBounded'
      BY <2>3, <3>2, <1>t, Typed DEF OvershootBounded, B
    <3> QED
      BY <3>6, <3>7, <3>8 DEF Inv
  <2> QED
    BY <1>4, <2>2, <2>3 DEF ShouldShed
<1>5. ASSUME NEW r \in Requests, Increment(r) PROVE Inv'
  <2>0. UNCHANGED <<content, process>>
    BY <1>5 DEF Increment
  <2>1. phase # "exited"
    BY <1>5, <1>t DEF Increment, NothingAfterExit, Waiting
  <2>2. CASE Goto(r, "inner") /\ active' = active + 1 /\ leaked' = leaked
    <3>0. pc[r] = "counting"
      BY <1>5, <2>2 DEF Increment
    <3>1. Cardinality(CountedRequests)' = C + 1
      BY <2>2, <3>0, <1>t, MoveCounted DEF Counted, Over, Answers
    <3>2. Cardinality(Between)' = B - 1
      BY <2>2, <3>0, <1>t, MoveBetween DEF Over, Answers
    <3>3. active = C + leaked
      BY <2>1, <1>t DEF Accounted
    <3> HIDE DEF C, B
    <3>5. active' \in Nat /\ leaked' \in Nat
      BY <2>2, <3>3, Typed DEF C
    <3>6. ServerTypeOK' /\ NothingAfterExit'
      <4>1. "inner" \in Waiting \cup Over
        BY DEF Waiting, Over, Answers
      <4> QED
        BY <4>1, <2>2, <2>0, <2>1, <3>5, MoveTyped
    <3>7. Accounted'
      BY <2>2, <3>1, <3>3, Typed DEF Accounted, C
    <3>8. OvershootBounded'
      BY <2>2, <3>2, <1>t, Typed DEF OvershootBounded, B
    <3> QED
      BY <3>6, <3>7, <3>8 DEF Inv
  <2> QED
    BY <1>5, <2>2 DEF Increment
<1>6. ASSUME NEW r \in Requests, Inner(r) PROVE Inv'
  <2>0. UNCHANGED <<content, process>>
    BY <1>6 DEF Inner
  <2>1. phase # "exited"
    BY <1>6, <1>t DEF Inner, NothingAfterExit, Waiting
  <2>2. CASE Goto(r, "4xx") /\ active' = active - 1 /\ leaked' = leaked
    <3>0. pc[r] = "inner"
      BY <1>6, <2>2 DEF Inner
    <3>1. Cardinality(CountedRequests)' = C - 1
      BY <2>2, <3>0, <1>t, MoveCounted DEF Counted, Over, Answers
    <3>2. Cardinality(Between)' = B
      BY <2>2, <3>0, <1>t, MoveBetween DEF Over, Answers
    <3>3. active = C + leaked
      BY <2>1, <1>t DEF Accounted
    <3>4. C # 0
      <4>1. r \in CountedRequests
        BY <3>0 DEF CountedRequests, Counted
      <4> QED
        BY <4>1, Finite, FS_EmptySet
    <3> HIDE DEF C, B
    <3>5. active' \in Nat /\ leaked' \in Nat
      BY <2>2, <3>3, <3>4, Typed DEF C
    <3>6. ServerTypeOK' /\ NothingAfterExit'
      <4>1. "4xx" \in Waiting \cup Over
        BY DEF Waiting, Over, Answers
      <4> QED
        BY <4>1, <2>2, <2>0, <2>1, <3>5, MoveTyped
    <3>7. Accounted'
      BY <2>2, <3>1, <3>3, Typed DEF Accounted, C
    <3>8. OvershootBounded'
      BY <2>2, <3>2, <1>t, Typed DEF OvershootBounded, B
    <3> QED
      BY <3>6, <3>7, <3>8 DEF Inv
  <2>3. CASE Goto(r, "handling") /\ active' = active /\ leaked' = leaked
    <3>0. pc[r] = "inner"
      BY <1>6, <2>3 DEF Inner
    <3>1. Cardinality(CountedRequests)' = C
      BY <2>3, <3>0, <1>t, MoveCounted DEF Counted, Over, Answers
    <3>2. Cardinality(Between)' = B
      BY <2>3, <3>0, <1>t, MoveBetween DEF Over, Answers
    <3>3. active = C + leaked
      BY <2>1, <1>t DEF Accounted
    <3> HIDE DEF C, B
    <3>5. active' \in Nat /\ leaked' \in Nat
      BY <2>3, <3>3, Typed DEF C
    <3>6. ServerTypeOK' /\ NothingAfterExit'
      <4>1. "handling" \in Waiting \cup Over
        BY DEF Waiting, Over, Answers
      <4> QED
        BY <4>1, <2>3, <2>0, <2>1, <3>5, MoveTyped
    <3>7. Accounted'
      BY <2>3, <3>1, <3>3, Typed DEF Accounted, C
    <3>8. OvershootBounded'
      BY <2>3, <3>2, <1>t, Typed DEF OvershootBounded, B
    <3> QED
      BY <3>6, <3>7, <3>8 DEF Inv
  <2> QED
    BY <1>6, <2>2, <2>3 DEF Inner
<1>7. ASSUME NEW r \in Requests, Handle(r) PROVE Inv'
  <2>0. UNCHANGED <<content, process>>
    BY <1>7 DEF Handle
  <2>1. phase # "exited"
    BY <1>7, <1>t DEF Handle, NothingAfterExit, Waiting
  <2>2. CASE Goto(r, "200") /\ active' = active - 1 /\ leaked' = leaked
    <3>0. pc[r] = "handling"
      BY <1>7, <2>2 DEF Handle
    <3>1. Cardinality(CountedRequests)' = C - 1
      BY <2>2, <3>0, <1>t, MoveCounted DEF Counted, Over, Answers
    <3>2. Cardinality(Between)' = B
      BY <2>2, <3>0, <1>t, MoveBetween DEF Over, Answers
    <3>3. active = C + leaked
      BY <2>1, <1>t DEF Accounted
    <3>4. C # 0
      <4>1. r \in CountedRequests
        BY <3>0 DEF CountedRequests, Counted
      <4> QED
        BY <4>1, Finite, FS_EmptySet
    <3> HIDE DEF C, B
    <3>5. active' \in Nat /\ leaked' \in Nat
      BY <2>2, <3>3, <3>4, Typed DEF C
    <3>6. ServerTypeOK' /\ NothingAfterExit'
      <4>1. "200" \in Waiting \cup Over
        BY DEF Waiting, Over, Answers
      <4> QED
        BY <4>1, <2>2, <2>0, <2>1, <3>5, MoveTyped
    <3>7. Accounted'
      BY <2>2, <3>1, <3>3, Typed DEF Accounted, C
    <3>8. OvershootBounded'
      BY <2>2, <3>2, <1>t, Typed DEF OvershootBounded, B
    <3> QED
      BY <3>6, <3>7, <3>8 DEF Inv
  <2>3. CASE Goto(r, "unready") /\ active' = active - 1 /\ leaked' = leaked
    <3>0. pc[r] = "handling"
      BY <1>7, <2>3 DEF Handle
    <3>1. Cardinality(CountedRequests)' = C - 1
      BY <2>3, <3>0, <1>t, MoveCounted DEF Counted, Over, Answers
    <3>2. Cardinality(Between)' = B
      BY <2>3, <3>0, <1>t, MoveBetween DEF Over, Answers
    <3>3. active = C + leaked
      BY <2>1, <1>t DEF Accounted
    <3>4. C # 0
      <4>1. r \in CountedRequests
        BY <3>0 DEF CountedRequests, Counted
      <4> QED
        BY <4>1, Finite, FS_EmptySet
    <3> HIDE DEF C, B
    <3>5. active' \in Nat /\ leaked' \in Nat
      BY <2>3, <3>3, <3>4, Typed DEF C
    <3>6. ServerTypeOK' /\ NothingAfterExit'
      <4>1. "unready" \in Waiting \cup Over
        BY DEF Waiting, Over, Answers
      <4> QED
        BY <4>1, <2>3, <2>0, <2>1, <3>5, MoveTyped
    <3>7. Accounted'
      BY <2>3, <3>1, <3>3, Typed DEF Accounted, C
    <3>8. OvershootBounded'
      BY <2>3, <3>2, <1>t, Typed DEF OvershootBounded, B
    <3> QED
      BY <3>6, <3>7, <3>8 DEF Inv
  <2> QED
    BY <1>7, <2>2, <2>3 DEF Handle
<1>8. ASSUME NEW r \in Requests, Drop(r) PROVE Inv'
  <2>0. UNCHANGED <<content, process>>
    BY <1>8 DEF Drop
  <2>1. phase # "exited"
    BY <1>8, <1>t DEF Drop, NothingAfterExit, Waiting
  <2>2. CASE Goto(r, "gone") /\ pc[r] = "limiter" /\ active' = active /\ leaked' = leaked
    <3>0. pc[r] = "limiter"
      BY <1>8, <2>2 DEF Drop
    <3>1. Cardinality(CountedRequests)' = C
      BY <2>2, <3>0, <1>t, MoveCounted DEF Counted, Over, Answers
    <3>2. Cardinality(Between)' = B
      BY <2>2, <3>0, <1>t, MoveBetween DEF Over, Answers
    <3>3. active = C + leaked
      BY <2>1, <1>t DEF Accounted
    <3> HIDE DEF C, B
    <3>5. active' \in Nat /\ leaked' \in Nat
      BY <2>2, <3>3, Typed DEF C
    <3>6. ServerTypeOK' /\ NothingAfterExit'
      <4>1. "gone" \in Waiting \cup Over
        BY DEF Waiting, Over, Answers
      <4> QED
        BY <4>1, <2>2, <2>0, <2>1, <3>5, MoveTyped
    <3>7. Accounted'
      BY <2>2, <3>1, <3>3, Typed DEF Accounted, C
    <3>8. OvershootBounded'
      BY <2>2, <3>2, <1>t, Typed DEF OvershootBounded, B
    <3> QED
      BY <3>6, <3>7, <3>8 DEF Inv
  <2>3. CASE Goto(r, "gone") /\ pc[r] = "handling" /\ active' = active /\ leaked' = leaked + 1
    <3>0. pc[r] = "handling"
      BY <1>8, <2>3 DEF Drop
    <3>1. Cardinality(CountedRequests)' = C - 1
      BY <2>3, <3>0, <1>t, MoveCounted DEF Counted, Over, Answers
    <3>2. Cardinality(Between)' = B
      BY <2>3, <3>0, <1>t, MoveBetween DEF Over, Answers
    <3>3. active = C + leaked
      BY <2>1, <1>t DEF Accounted
    <3> HIDE DEF C, B
    <3>5. active' \in Nat /\ leaked' \in Nat
      BY <2>3, <3>3, Typed DEF C
    <3>6. ServerTypeOK' /\ NothingAfterExit'
      <4>1. "gone" \in Waiting \cup Over
        BY DEF Waiting, Over, Answers
      <4> QED
        BY <4>1, <2>3, <2>0, <2>1, <3>5, MoveTyped
    <3>7. Accounted'
      BY <2>3, <3>1, <3>3, Typed DEF Accounted, C
    <3>8. OvershootBounded'
      BY <2>3, <3>2, <1>t, Typed DEF OvershootBounded, B
    <3> QED
      BY <3>6, <3>7, <3>8 DEF Inv
  <2> QED
    BY <1>8, <2>2, <2>3, Typed DEF Drop
<1>9. CASE UNCHANGED <<pc, active, leaked, mode, phase, content>> /\ ServerTypeOK'
  <2>1. CountedRequests' = CountedRequests /\ Between' = Between
    BY <1>9 DEF CountedRequests, Between
  <2> QED
    BY <1>9, <2>1, <1>t DEF Inv, Accounted, OvershootBounded, NothingAfterExit
<1>10. CASE AskBackend \/ SetReady \/ Background \/ UNCHANGED serverVars
  <2>1. UNCHANGED <<pc, active, leaked, mode, phase, content>>
    BY <1>10 DEF AskBackend, SetReady, Background, serverVars, process
  <2>2. probe' \in {"asleep", "asking", "done"} /\ ready' \in BOOLEAN
    BY <1>10, <1>t
    DEF AskBackend, SetReady, Background, serverVars, process, ServerTypeOK
  <2>3. ServerTypeOK'
    BY <2>1, <2>2, <1>t DEF ServerTypeOK, content
  <2> QED
    BY <2>1, <2>3, <1>9
<1>11. CASE Terminate /\ phase' = "draining"
  <2>1. UNCHANGED <<pc, active, leaked, mode, content, probe, ready>>
    BY <1>11 DEF Terminate, Exit
  <2>2. CountedRequests' = CountedRequests /\ Between' = Between
    BY <2>1 DEF CountedRequests, Between
  <2>3. ServerTypeOK'
    BY <2>1, <1>11, <1>t DEF ServerTypeOK, content
  <2>4. phase # "exited"
    BY <1>11 DEF Terminate
  <2> QED
    BY <2>1, <2>2, <2>3, <2>4, <1>11, <1>t
    DEF Inv, Accounted, OvershootBounded, NothingAfterExit
<1>12. CASE Exit
  <2>1. UNCHANGED <<active, leaked, mode, content, probe, ready>>
    BY <1>12 DEF Exit
  <2>2. \A r \in Requests : pc'[r] \in Over
    BY <1>12, <1>t DEF Exit, ServerTypeOK, Over
  <2>3. pc' \in [Requests -> Waiting \cup Over]
    BY <1>12, <2>2 DEF Exit
  <2>4. ServerTypeOK'
    BY <2>1, <2>3, <1>12, <1>t DEF Exit, ServerTypeOK, content
  <2>5. Between' = {}
    BY <2>2 DEF Between, Over, Answers
  <2>6. Cardinality(Between)' = 0
    BY <2>5, FS_EmptySet
  <2>7. OvershootBounded'
    BY <2>1, <2>6, <1>t, Typed DEF OvershootBounded
  <2>8. Accounted' /\ NothingAfterExit'
    BY <2>2, <1>12 DEF Exit, Accounted, NothingAfterExit, Over, Answers, Waiting
  <2> QED
    BY <2>4, <2>7, <2>8 DEF Inv
<1>13. CASE Terminate
  BY <1>13, <1>11, <1>12 DEF Terminate
<1>14. CASE Drained
  BY <1>14, <1>12 DEF Drained
<1> QED
  BY <1>1, <1>2, <1>3, <1>4, <1>5, <1>6, <1>7, <1>8, <1>10, <1>13, <1>14
  DEF ServerNext

LEMMA Invariant == ServerSpec => []Inv
<1>1. Inv /\ [ServerNext]_serverVars => Inv'
  BY NextInv
<1> QED
  BY <1>1, InitInv, PTL DEF ServerSpec

\* Every variable of the server keeps its type.
THEOREM ServerTypeCorrect == ServerSpec => []ServerTypeOK
<1>1. Inv => ServerTypeOK
  BY DEF Inv
<1> QED
  BY <1>1, Invariant, PTL

\* The shedder's counter (loadshedding) is exactly the requests being worked on
\* and those dropped while they were.
THEOREM CounterAccounted == ServerSpec => []Accounted
<1>1. Inv => Accounted
  BY DEF Inv
<1> QED
  BY <1>1, Invariant, PTL

\* The check-then-increment of load_shedding_middleware overshoots the limit by
\* fewer requests than there are worker threads.
THEOREM OvershootIsBounded == ServerSpec => []OvershootBounded
<1>1. Inv => OvershootBounded
  BY DEF Inv
<1> QED
  BY <1>1, Invariant, PTL

\* Nobody is shed below the limit, leaks counted.
THEOREM ShedsOnlyWhenFull == ServerSpec => ShedOnlyWhenFull
<1> DEFINE Shed == \A r \in Requests : pc[r] # "shed" /\ pc'[r] = "shed" =>
                      Cardinality(CountedRequests) + leaked >= MaxActive
<1>1. ASSUME Inv, [ServerNext]_serverVars
      PROVE  Shed
  <2> SUFFICES ASSUME NEW q \in Requests, pc[q] # "shed", pc'[q] = "shed"
               PROVE  Cardinality(CountedRequests) + leaked >= MaxActive
    OBVIOUS
  <2>t. pc \in [Requests -> Waiting \cup Over] /\ Accounted /\ NothingAfterExit
    BY <1>1 DEF Inv, ServerTypeOK
  <2>1. ShouldShed(q) /\ active >= MaxActive
    <3>1. ASSUME NEW r \in Requests, NEW place, Goto(r, place)
          PROVE  r = q /\ place = "shed"
      BY <3>1, <2>t DEF Goto
    <3>2. ~UNCHANGED pc
      OBVIOUS
    <3>3. ~Exit
      BY <2>t DEF Exit, Waiting
    <3>4. ASSUME NEW r \in Requests, ShouldShed(r)
          PROVE  ShouldShed(q) /\ active >= MaxActive
      BY <3>1, <3>4 DEF ShouldShed
    <3>5. ~Terminate /\ ~Drained /\ ~AskBackend /\ ~SetReady /\ ~Background
      BY <3>2, <3>3 DEF Terminate, Drained, AskBackend, SetReady, Background
    <3>6. ~UNCHANGED serverVars
      BY <3>2 DEF serverVars
    <3>7. ASSUME NEW r \in Requests,
                 Accept(r) \/ NoPeer(r) \/ Pass(r) \/ Increment(r) \/ Inner(r)
                 \/ Handle(r) \/ Drop(r)
          PROVE  FALSE
      BY <3>1, <3>7
      DEF Accept, NoPeer, Pass, Increment, Inner, Handle, Drop
    <3> QED
      BY <1>1, <3>4, <3>5, <3>6, <3>7 DEF ServerNext
  <2>2. phase # "exited"
    BY <2>1, <2>t DEF ShouldShed, NothingAfterExit, Waiting
  <2>3. active = Cardinality(CountedRequests) + leaked
    BY <2>2, <2>t DEF Accounted
  <2> QED
    BY <2>1, <2>3
<1>2. Inv /\ [ServerNext]_serverVars => [Shed]_serverVars
  BY <1>1
<1> QED
  BY <1>2, Invariant, PTL DEF ServerSpec, ShedOnlyWhenFull

-----------------------------------------------------------------------------
(* The limiter inside the server. *)

\* Inside the server the limiter takes no step RateLimit does not take, so the
\* limit proved for RateLimit holds of the server's requests.
THEOREM ServerLimitsRate == ServerSpec => LimitsRate
<1>1. ServerInit => Init
  BY DEF ServerInit
<1>2. ASSUME ServerTypeOK, [ServerNext]_serverVars
      PROVE  [Next]_vars
  <2>1. ASSUME NEW r \in Requests, Pass(r)
        PROVE  [Next]_vars
    <3>1. from[r] \in Clients
      BY <1>2 DEF ServerTypeOK
    <3> QED
      BY <2>1, <3>1 DEF Pass, Next
  <2>2. CASE Background
    BY <2>2 DEF Background, Next
  <2>3. CASE UNCHANGED limiter
    BY <2>3 DEF limiter, vars
  <2>4. ASSUME NEW r \in Requests,
               Accept(r) \/ NoPeer(r) \/ ShouldShed(r) \/ Increment(r)
               \/ Inner(r) \/ Handle(r) \/ Drop(r)
        PROVE  UNCHANGED limiter
    BY <2>4 DEF Accept, NoPeer, ShouldShed, Increment, Inner, Handle, Drop
  <2>5. CASE AskBackend \/ SetReady \/ Terminate \/ Drained
    BY <2>5, <2>3 DEF AskBackend, SetReady, Terminate, Drained, Exit
  <2>6. CASE UNCHANGED serverVars
    BY <2>6, <2>3 DEF serverVars
  <2> QED
    BY <1>2, <2>1, <2>2, <2>3, <2>4, <2>5, <2>6 DEF ServerNext
<1> QED
  BY <1>1, <1>2, ServerTypeCorrect, PTL DEF ServerSpec, LimitsRate, Spec

\* For every listener's clients together: no address is admitted more often than
\* the limit in any window, nothing is forgotten, and no vector outgrows it,
\* with connections dropped, the process shutting down and sweeps at any time.
THEOREM ServerKeepsLimit ==
    ServerSpec => [](WithinLimit /\ RemembersWindow /\ VectorBounded)
<1>1. ServerSpec => Spec
  BY ServerLimitsRate DEF LimitsRate
<1> QED
  BY <1>1, LimitHolds, WindowRemembered, VectorsBounded, PTL
=============================================================================
