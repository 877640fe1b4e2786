--------------------------- MODULE HotTraceProofs ---------------------------
(* Ranges, and what a client that polls a job's log is sent, for logs of any *)
(* length, any number of failures and any readers.                           *)
EXTENDS HotTrace, TLAPS

-----------------------------------------------------------------------------
(* Ranges. *)

\* A resolved range lies within the file.
Within(x, len) ==
    /\ x \in Span
    /\ x.total = len
    /\ x.start + x.len <= len

LEMMA PartWithin ==
    ASSUME NEW first \in Nat, NEW last \in Nat, NEW len \in Nat,
           first <= last, last < len
    PROVE  /\ Within(Part(first, last, len), len)
           /\ Part(first, last, len).start = first
           /\ Part(first, last, len).len = last - first + 1
<1>1. last - first + 1 \in Nat
  OBVIOUS
<1> QED
  BY <1>1 DEF Part, Within, Span

LEMMA OthersWithin ==
    ASSUME NEW len \in Nat
    PROVE  /\ Within(All(len), len) /\ Within(Unsatisfiable(len), len)
           /\ All(len).start = 0
           /\ Unsatisfiable(len).start = 0 /\ Unsatisfiable(len).len = 0
  BY DEF All, Unsatisfiable, Within, Span

\* A parsable header: which range it is read as.
LEMMA HeaderCases ==
    ASSUME NEW len \in Nat, NEW h \in RangeHeader, Parsable(h)
    PROVE  LET x == ParseRangeHeader(h, len) IN
           \/ /\ x = Unsatisfiable(len)
              /\ \/ h.first = None /\ (h.last = 0 \/ len = 0)
                 \/ h.first \in Nat /\ h.first >= len
                 \/ h.first \in Nat /\ h.last \in Nat /\ h.last < h.first
           \/ /\ h.first = None /\ h.last \in Nat /\ h.last # 0 /\ len # 0
              /\ h.last <= len
              /\ x = Part(len - h.last, len - 1, len)
           \/ /\ h.first = None /\ h.last \in Nat /\ h.last > len /\ len # 0
              /\ x = Part(0, len - 1, len)
           \/ /\ h.first \in Nat /\ h.first < len
              /\ \/ h.last = None
                 \/ h.last \in Nat /\ h.last >= len - 1
              /\ x = Part(h.first, len - 1, len)
           \/ /\ h.first \in Nat /\ h.first < len
              /\ h.last \in Nat /\ h.first <= h.last /\ h.last < len - 1
              /\ x = Part(h.first, h.last, len)
<1>1. None \notin Nat
  BY ConstantsOK
<1>2. h.first \in Nat \cup {None} /\ h.last \in Nat \cup {None}
  BY DEF RangeHeader
<1>3. CASE h.first = None
  <2>1. h.last \in Nat
    BY <1>2, <1>3 DEF Parsable
  <2> QED
    BY <1>3, <2>1 DEF ParseRangeHeader, Smaller
<1>4. CASE h.first \in Nat /\ h.last = None
  BY <1>1, <1>4 DEF ParseRangeHeader
<1>5. CASE h.first \in Nat /\ h.last \in Nat
  BY <1>1, <1>5 DEF ParseRangeHeader, Smaller
<1> QED
  BY <1>2, <1>3, <1>4, <1>5

\* What a Range header asks for: the last bytes, or the bytes from one position
\* to another or to the end.
Wanted(h, i, len) ==
    IF h.first = None
    THEN i + h.last >= len
    ELSE h.first <= i /\ (h.last # None => i <= h.last)

\* Reading a Range header: exactly the bytes of the file it asks for are sent,
\* whatever its positions; parse_range_header against the meaning of the header.
THEOREM RangeMeaning ==
    ASSUME NEW len \in Nat, NEW h \in RangeHeader, Parsable(h),
           NEW i \in Nat, i < len
    PROVE  LET x == ParseRangeHeader(h, len)
           IN  Wanted(h, i, len) <=> (x.start <= i /\ i < x.start + x.len)
<1> DEFINE x == ParseRangeHeader(h, len)
<1>1. None \notin Nat
  BY ConstantsOK
<1>2. CASE x = Unsatisfiable(len) /\ h.first = None /\ (h.last = 0 \/ len = 0)
  BY <1>2, OthersWithin DEF Wanted
<1>3. CASE x = Unsatisfiable(len) /\ h.first \in Nat /\ h.first >= len
  BY <1>1, <1>3, OthersWithin DEF Wanted
<1>4. CASE /\ x = Unsatisfiable(len)
           /\ h.first \in Nat /\ h.last \in Nat /\ h.last < h.first
  BY <1>1, <1>4, OthersWithin DEF Wanted
<1>5. CASE /\ h.first = None /\ h.last \in Nat /\ h.last # 0 /\ h.last <= len
           /\ x = Part(len - h.last, len - 1, len)
  <2>1. len - h.last \in Nat /\ len - 1 \in Nat
    BY <1>5
  <2>2. x.start = len - h.last /\ x.len = len - 1 - (len - h.last) + 1
    BY <1>5, <2>1, PartWithin
  <2> QED
    BY <1>5, <2>2 DEF Wanted
<1>6. CASE /\ h.first = None /\ h.last \in Nat /\ h.last > len
           /\ x = Part(0, len - 1, len)
  <2>1. x.start = 0 /\ x.len = len - 1 - 0 + 1
    BY <1>6, PartWithin
  <2> QED
    BY <1>6, <2>1 DEF Wanted
<1>7. CASE /\ h.first \in Nat /\ h.first < len
           /\ (h.last = None \/ (h.last \in Nat /\ h.last >= len - 1))
           /\ x = Part(h.first, len - 1, len)
  <2>1. x.start = h.first /\ x.len = len - 1 - h.first + 1
    BY <1>7, PartWithin
  <2> QED
    BY <1>1, <1>7, <2>1 DEF Wanted
<1>8. CASE /\ h.first \in Nat /\ h.first < len
           /\ h.last \in Nat /\ h.first <= h.last /\ h.last < len - 1
           /\ x = Part(h.first, h.last, len)
  <2>1. x.start = h.first /\ x.len = h.last - h.first + 1
    BY <1>8, PartWithin
  <2> QED
    BY <1>1, <1>8, <2>1 DEF Wanted
<1> HIDE DEF x
<1>9. \/ x = Unsatisfiable(len) /\ h.first = None /\ (h.last = 0 \/ len = 0)
      \/ x = Unsatisfiable(len) /\ h.first \in Nat /\ h.first >= len
      \/ /\ x = Unsatisfiable(len)
         /\ h.first \in Nat /\ h.last \in Nat /\ h.last < h.first
      \/ /\ h.first = None /\ h.last \in Nat /\ h.last # 0 /\ h.last <= len
         /\ x = Part(len - h.last, len - 1, len)
      \/ /\ h.first = None /\ h.last \in Nat /\ h.last > len
         /\ x = Part(0, len - 1, len)
      \/ /\ h.first \in Nat /\ h.first < len
         /\ (h.last = None \/ (h.last \in Nat /\ h.last >= len - 1))
         /\ x = Part(h.first, len - 1, len)
      \/ /\ h.first \in Nat /\ h.first < len
         /\ h.last \in Nat /\ h.first <= h.last /\ h.last < len - 1
         /\ x = Part(h.first, h.last, len)
  BY HeaderCases, Zenon DEF x
<1> QED
  BY <1>2, <1>3, <1>4, <1>5, <1>6, <1>7, <1>8, <1>9, Zenon DEF x

LEMMA HeaderWithin ==
    ASSUME NEW len \in Nat, NEW h \in RangeHeader, Parsable(h)
    PROVE  /\ Within(ParseRangeHeader(h, len), len)
           /\ h.first # None => ParseRangeHeader(h, len).start <= h.first
<1> DEFINE x == ParseRangeHeader(h, len)
<1>1. None \notin Nat
  BY ConstantsOK
<1>2. CASE x = Unsatisfiable(len) /\ h.first \in Nat \cup {None}
  BY <1>2, OthersWithin
<1>3. CASE /\ h.first = None /\ h.last \in Nat /\ h.last # 0 /\ h.last <= len
           /\ x = Part(len - h.last, len - 1, len)
  <2>1. /\ len - h.last \in Nat /\ len - 1 \in Nat
        /\ len - h.last <= len - 1 /\ len - 1 < len
    BY <1>3
  <2> QED
    BY <1>3, <2>1, PartWithin
<1>4. CASE /\ h.first = None /\ len # 0 /\ x = Part(0, len - 1, len)
  BY <1>4, PartWithin
<1>5. CASE h.first \in Nat /\ h.first < len /\ x = Part(h.first, len - 1, len)
  <2>1. len - 1 \in Nat /\ h.first <= len - 1 /\ len - 1 < len
    BY <1>5
  <2> QED
    BY <1>5, <2>1, PartWithin
<1>6. CASE /\ h.first \in Nat /\ h.first < len
           /\ h.last \in Nat /\ h.first <= h.last /\ h.last < len - 1
           /\ x = Part(h.first, h.last, len)
  BY <1>6, PartWithin
<1>7. h.first \in Nat \cup {None}
  BY DEF RangeHeader
<1> QED
  BY <1>2, <1>3, <1>4, <1>5, <1>6, <1>7, HeaderCases

LEMMA OffsetWithin ==
    ASSUME NEW len \in Nat, NEW off \in Nat
    PROVE  Within(FromOffset(off, len), len) /\ FromOffset(off, len).start <= off
<1>1. CASE off >= len
  BY <1>1, OthersWithin DEF FromOffset
<1>2. CASE off < len
  <2>1. len - 1 \in Nat /\ off <= len - 1
    BY <1>2
  <2>2. FromOffset(off, len) = Part(off, len - 1, len)
    BY <1>2 DEF FromOffset
  <2> QED
    BY <2>1, <2>2, PartWithin
<1> QED
  BY <1>1, <1>2

LEMMA HeaderRecord ==
    ASSUME NEW f \in Nat \cup {None}, NEW l \in Nat \cup {None},
           f # None \/ l # None
    PROVE  /\ [first |-> f, last |-> l] \in RangeHeader
           /\ Parsable([first |-> f, last |-> l])
           /\ [first |-> f, last |-> l].first = f
<1>1. [first |-> f, last |-> l] \in RangeHeader
  BY DEF RangeHeader
<1>2. [first |-> f, last |-> l] # None
  BY <1>1, ConstantsOK
<1> QED
  BY <1>1, <1>2 DEF Parsable

\* Whatever the client asks for lies in the file, and a follower is never sent
\* a range that starts behind what it has.
LEMMA RangeSound ==
    ASSUME NEW a \in PollKinds, NEW had \in Nat, NEW len \in Nat
    PROVE  /\ Within(ResolveRange(Header(a, had), Offset(a, had), len), len)
           /\ a # "tail" =>
                ResolveRange(Header(a, had), Offset(a, had), len).start <= had
<1> DEFINE x == ResolveRange(Header(a, had), Offset(a, had), len)
<1>1. None \notin Nat
  BY ConstantsOK
<1>2. CASE a \in {"range", "both"}
  <2>1. Header(a, had) = [first |-> had, last |-> None]
    BY <1>2 DEF Header
  <2>2. Parsable(Header(a, had)) /\ Header(a, had) \in RangeHeader
        /\ Header(a, had).first = had /\ had # None
    BY <1>1, <2>1, HeaderRecord
  <2>3. x = ParseRangeHeader(Header(a, had), len)
    BY <2>2 DEF ResolveRange
  <2> QED
    BY <2>2, <2>3, HeaderWithin
<1>3. CASE a = "first"
  <2>1. Header(a, had) = [first |-> 0, last |-> 0]
    BY <1>3 DEF Header
  <2>2. Parsable(Header(a, had)) /\ Header(a, had) \in RangeHeader
        /\ Header(a, had).first = 0 /\ 0 # None
    BY <1>1, <2>1, HeaderRecord
  <2>3. x = ParseRangeHeader(Header(a, had), len)
    BY <2>2 DEF ResolveRange
  <2>4. Within(x, len) /\ x.start <= 0
    BY <2>2, <2>3, HeaderWithin
  <2> QED
    BY <2>4 DEF Within, Span
<1>4. CASE a = "tail"
  <2>1. Header(a, had) = [first |-> None, last |-> 2] /\ 2 # None
    BY <1>1, <1>4 DEF Header
  <2>2. Parsable(Header(a, had)) /\ Header(a, had) \in RangeHeader
    BY <2>1, HeaderRecord
  <2>3. x = ParseRangeHeader(Header(a, had), len)
    BY <2>2 DEF ResolveRange
  <2> QED
    BY <1>4, <2>2, <2>3, HeaderWithin
<1>5. CASE a \in {"junk", "offset"}
  <2>1. ~Parsable(Header(a, had)) /\ Offset(a, had) = had
    BY <1>5 DEF Header, Offset, Parsable
  <2>2. x = FromOffset(had, len)
    BY <1>1, <2>1 DEF ResolveRange
  <2> QED
    BY <2>2, OffsetWithin
<1>6. CASE a \in {"plain", "head"}
  <2>1. ~Parsable(Header(a, had)) /\ Offset(a, had) = None
    BY <1>6 DEF Header, Offset, Parsable
  <2>2. x = All(len)
    BY <2>1 DEF ResolveRange
  <2> QED
    BY <2>2, OthersWithin
<1> QED
  BY <1>2, <1>3, <1>4, <1>5, <1>6 DEF PollKinds

-----------------------------------------------------------------------------
(* The request and the client. *)

\* The types, of the request and of what surrounds it.
RequestTyped ==
    /\ found \in Projects \cup {None} /\ entitled \in BOOLEAN
    /\ pc \in Locations /\ ask \in Polls \cup {"plain"}
    /\ after \in 0..LogLen
    /\ path \in {"none", "archive", "live"}
    /\ span \in Span
    /\ sent \in Nat

ContextTyped ==
    /\ log \in 0..LogLen
    /\ job \in {"running", "finished", "deleted"}
    /\ live \in BOOLEAN /\ archived \in BOOLEAN
    /\ row \in {"none", "local", "remote"}
    /\ reader \in Reader
    /\ cache \in [Urls -> (0..LogLen) \cup {None}]
    /\ got \in 0..LogLen /\ told \in Nat
    /\ mishaps \in 0..MaxMishaps

\* Every variable keeps its type.
THEOREM TypeCorrect == Spec => []TypeOK
<1>0. /\ LogLen \in Nat /\ MaxMishaps \in Nat /\ Polls \subseteq PollKinds
      /\ Unsatisfiable(0) \in Span
  BY ConstantsOK, OthersWithin DEF Within
<1>1. Init => TypeOK
  <2> SUFFICES ASSUME Init PROVE TypeOK
    OBVIOUS
  <2>1. ask \in Polls \cup {"plain"}
    BY DEF Init
  <2>2. pc \in Locations
    BY DEF Init, Locations
  <2>3. /\ log \in 0..LogLen /\ after \in 0..LogLen /\ got \in 0..LogLen
        /\ told \in Nat /\ sent \in Nat /\ mishaps \in 0..MaxMishaps
    BY <1>0 DEF Init
  <2>4. span \in Span
    BY <1>0 DEF Init
  <2> QED
    BY <2>1, <2>2, <2>3, <2>4 DEF Init, TypeOK
<1>2. TypeOK /\ [Next]_vars => TypeOK'
  <2> SUFFICES ASSUME TypeOK, [Next]_vars PROVE TypeOK'
    OBVIOUS
  <2>k. Url \in Urls /\ cache[Url] \in (0..LogLen) \cup {None}
    BY <1>0 DEF TypeOK, Url, Urls, Offset
  <2>n. ASSUME NEW url \in Urls, NEW n \in (0..LogLen) \cup {None}
        PROVE  [cache EXCEPT ![url] = n] \in [Urls -> (0..LogLen) \cup {None}]
    BY DEF TypeOK
  <2>d. ASSUME Done PROVE RequestTyped'
    <3>1. entitled' \in BOOLEAN /\ found' \in Projects \cup {None}
      BY <2>d, Zenon DEF Done
    <3>2. after' \in 0..LogLen /\ sent' \in Nat /\ span' \in Span
      BY <2>d, <1>0 DEF Done
    <3> QED
      BY <2>d, <3>1, <3>2, Zenon DEF Done, RequestTyped, Locations
  <2>u. UNCHANGED <<rights, pc, asking>> => RequestTyped'
    BY DEF TypeOK, RequestTyped, rights, asking
  <2>g. ASSUME NEW l \in Locations, Goto(l) PROVE RequestTyped'
    BY <2>g DEF TypeOK, RequestTyped, Goto, rights, asking
  <2>c. UNCHANGED <<trace, context, follower, mishaps>> => ContextTyped'
    BY DEF TypeOK, ContextTyped, trace, context, follower
  <2>m. UNCHANGED <<trace, context, follower>> /\ Mishap => ContextTyped'
    BY <1>0 DEF TypeOK, ContextTyped, trace, context, follower, Mishap
  <2>s. RequestTyped' /\ ContextTyped' => TypeOK'
    BY DEF TypeOK, RequestTyped, ContextTyped
  <2>l. Inner \cup {"idle", "puma", "stream"} \subseteq Locations
    BY DEF Locations
  <2>1. ASSUME NEW a \in Polls, Poll(a) PROVE TypeOK'
    <3>1. entitled' \in BOOLEAN
      BY <2>1, Zenon DEF Poll, CanRead, MayRead
    <3>2. RequestTyped'
      BY <2>1, <3>1, <2>l DEF Poll, TypeOK, RequestTyped, Inner
    <3> QED
      BY <2>1, <2>c, <2>s, <3>2 DEF Poll
  <2>2. CASE Session
    BY <2>2, <2>g, <2>c, <2>s, <2>l DEF Session, Inner
  <2>3. CASE Project
    <3>1. reader.project \in Projects \cup {None}
      BY DEF TypeOK, Reader
    <3>2. RequestTyped'
      BY <2>3, <3>1, <2>d, <2>l DEF Project, TypeOK, RequestTyped, asking, Inner
    <3> QED
      BY <2>3, <2>c, <2>s, <3>2 DEF Project
  <2>4. CASE Access
    <3>1. RequestTyped'
      BY <2>4, <2>d, <2>l DEF Access, TypeOK, RequestTyped, asking, Inner
    <3> QED
      BY <2>4, <2>c, <2>s, <3>1 DEF Access
  <2>5. CASE LoadJob
    BY <2>5, <2>d, <2>g, <2>c, <2>s, <2>l DEF LoadJob, Inner
  <2>t. ASSUME NEW file \in {"archive", "live"}, Take(file) PROVE RequestTyped'
    BY <2>t, <2>l DEF Take, TypeOK, RequestTyped, rights, Inner
  <2>6. CASE ProbeArchive
    BY <2>6, <2>t, <2>g, <2>c, <2>s, <2>l DEF ProbeArchive, Inner
  <2>7. CASE ProbeLive
    BY <2>7, <2>t, <2>g, <2>c, <2>s, <2>l DEF ProbeLive, Inner
  <2>8. CASE Stat
    <3> DEFINE range == ResolveRange(Header(ask, after), Offset(ask, after), log)
    <3>1. range \in Span
      BY <1>0, RangeSound DEF TypeOK, Within, PollKinds
    <3> HIDE DEF range
    <3>2. CASE Done /\ told' = log /\ UNCHANGED <<trace, context, got, mishaps>>
      <4>1. ContextTyped'
        BY <1>0, <3>2 DEF TypeOK, ContextTyped, trace, context
      <4> QED
        BY <3>2, <4>1, <2>d, <2>s
    <3>3. CASE /\ span' = range /\ pc' = "open"
               /\ UNCHANGED <<ask, after, path, sent, told, rights>>
               /\ UNCHANGED <<trace, context, got, mishaps>>
      <4>1. RequestTyped'
        BY <3>1, <3>3, <2>l DEF TypeOK, RequestTyped, rights, Inner
      <4> QED
        BY <3>3, <4>1, <2>c, <2>s DEF follower
    <3>4. CASE Goto("puma") /\ UNCHANGED told
               /\ UNCHANGED <<trace, context, got, mishaps>>
      BY <3>4, <2>g, <2>c, <2>s, <2>l DEF follower
    <3> QED
      BY <2>8, <3>2, <3>3, <3>4 DEF Stat, range
  <2>9. CASE Open
    <3>1. span.total \in Nat
      BY DEF TypeOK, Span
    <3>2. ContextTyped'
      BY <2>9, <3>1 DEF Open, TypeOK, ContextTyped, trace, context
    <3> QED
      BY <2>9, <2>g, <2>s, <2>l, <3>2 DEF Open
  <2>10. CASE Send
    <3>1. got' \in 0..LogLen
      BY <2>10, <1>0 DEF Send, TypeOK
    <3>2. ContextTyped'
      BY <2>10, <3>1 DEF Send, TypeOK, ContextTyped, trace, context
    <3>3. RequestTyped'
      BY <2>10, <2>d DEF Send, TypeOK, RequestTyped, rights
    <3> QED
      BY <3>2, <3>3, <2>s
  <2>11. CASE Puma
    <3>1. cache' \in [Urls -> (0..LogLen) \cup {None}]
      BY <2>11, <2>k, <2>n DEF Puma, Remember, TypeOK
    <3>2. got' \in 0..LogLen /\ mishaps' \in 0..MaxMishaps
      BY <2>11, <1>0 DEF Puma, Mishap, TypeOK
    <3>3. ContextTyped'
      BY <2>11, <3>1, <3>2 DEF Puma, TypeOK, ContextTyped, trace
    <3> QED
      BY <2>11, <3>3, <2>d, <2>s DEF Puma
  <2>12. CASE FallBack
    BY <2>12, <2>g, <2>m, <2>s, <2>l DEF FallBack
  <2>13. CASE Leave
    BY <2>13, <2>d, <2>m, <2>s DEF Leave
  <2>14. CASE Write
    BY <2>14, <1>0, <2>u, <2>s DEF Write, TypeOK, ContextTyped, request, context,
                                   follower
  <2>15. CASE Finish \/ InsertRow \/ StoreArchive \/ RemoveLive
    BY <2>15, <2>u, <2>s DEF Finish, InsertRow, StoreArchive, RemoveLive, TypeOK,
                             ContextTyped, request, context, follower
  <2>16. CASE MoveToObjectStorage \/ RemoveArchive \/ Delete
    BY <2>16, <2>u, <2>s DEF MoveToObjectStorage, RemoveArchive, Delete, TypeOK,
                             ContextTyped, request, context, follower
  <2>17. CASE CacheHit
    <3>1. got' \in 0..LogLen
      BY <2>17, <2>k DEF CacheHit, TypeOK
    <3>2. ContextTyped'
      BY <2>17, <3>1 DEF CacheHit, TypeOK, ContextTyped, trace, context
    <3> QED
      BY <2>17, <3>2, <2>d, <2>s DEF CacheHit
  <2>18. ASSUME NEW url \in Urls, Expire(url) \/ OtherReader(url) PROVE TypeOK'
    <3>1. cache' \in [Urls -> (0..LogLen) \cup {None}]
      BY <2>18, <2>n DEF Expire, OtherReader, TypeOK
    <3>2. ContextTyped'
      BY <2>18, <3>1 DEF Expire, OtherReader, TypeOK, ContextTyped, trace, follower
    <3> QED
      BY <2>18, <3>2, <2>u, <2>s DEF Expire, OtherReader
  <2>19. CASE ChangeRights
    <3>1. entitled' \in BOOLEAN
      BY <2>19, Zenon DEF ChangeRights
    <3>2. RequestTyped'
      BY <2>19, <3>1 DEF ChangeRights, TypeOK, RequestTyped, asking
    <3>3. ContextTyped'
      BY <2>19 DEF ChangeRights, TypeOK, ContextTyped, trace, follower
    <3> QED
      BY <3>2, <3>3, <2>s
  <2>20. CASE UNCHANGED vars
    BY <2>20, <2>u, <2>c, <2>s DEF vars
  <2> QED
    BY <2>1, <2>2, <2>3, <2>4, <2>5, <2>6, <2>7, <2>8, <2>9, <2>10, <2>11, <2>12,
       <2>13, <2>14, <2>15, <2>16, <2>17, <2>18, <2>19, <2>20 DEF Next, Step
<1> QED
  BY <1>1, <1>2, PTL DEF Spec

-----------------------------------------------------------------------------
(* What the fast path has established when it gets to a place. *)

\* The client never knows more than there is, and a request never more than its
\* client.
Known ==
    /\ after <= got
    /\ told <= log

\* The range of an answer about to be sent.
Ranged ==
    /\ pc # "stream" => sent = 0
    /\ pc \in {"open", "stream"} =>
         /\ span.start + span.len <= span.total
         /\ span.total <= log
         /\ sent < span.len
         /\ ask # "tail" => span.start <= after
    /\ pc = "open" => told <= span.total

\* Who has been let in could read the log since he asked, or was entitled to.
\* Between the two queries, unless he could, whom the row lets in could read.
Admitted ==
    /\ pc \in {"job", "archived", "live", "stat", "open", "stream"} => entitled
    /\ pc # "idle" /\ CanRead => entitled
    /\ pc = "access" => entitled \/ ~Shuts(found, reader.project)

\* A row shuts out nobody it lets in; and whom nothing shuts out can read.
LEMMA RowsAgree ==
    ASSUME TypeOK
    PROVE  /\ reader.project # None => ~Shuts(reader.project, reader.project)
           /\ ~Shuts(found, reader.project) /\ CanReadBuild(found, reader.level)
                => CanRead
<1>1. reader.level \in Levels
  BY DEF TypeOK, Reader
<1> QED
  BY <1>1 DEF Shuts, MayRead, CanRead

IInv == TypeOK /\ Known /\ Ranged /\ Admitted

\* The invariant everything below follows from is kept by every step.
LEMMA Invariance == Spec => []IInv
<1>0. LogLen \in Nat /\ Polls \subseteq PollKinds
  BY ConstantsOK
<1>1. Init => Known /\ Ranged /\ Admitted
  BY DEF Init, Known, Ranged, Admitted
<1>2. IInv /\ [Next]_vars => (Known /\ Ranged /\ Admitted)'
  <2> SUFFICES ASSUME IInv, [Next]_vars PROVE (Known /\ Ranged /\ Admitted)'
    OBVIOUS
  <2>t. /\ log \in Nat /\ after \in Nat /\ got \in Nat /\ told \in Nat
        /\ sent \in Nat /\ span.start \in Nat /\ span.len \in Nat
        /\ span.total \in Nat /\ ask \in PollKinds
    BY <1>0 DEF IInv, TypeOK, Span, PollKinds
  <2>i. Known /\ Ranged /\ Admitted
    BY DEF IInv
  <2> USE <2>t, <2>i DEF Known, Ranged, Admitted, CanRead, Goto, asking, trace,
                         context, rights, follower, request
  <2>1. ASSUME NEW a \in Polls, Poll(a) PROVE (Known /\ Ranged /\ Admitted)'
    BY <2>1 DEF Poll
  <2>2. CASE Session
    BY <2>2 DEF Session
  <2>3. CASE Project
    BY <2>3, RowsAgree DEF Project, Done, IInv
  <2>4. CASE Access
    BY <2>4, RowsAgree DEF Access, Done, IInv
  <2>5. CASE LoadJob
    <3>1. CASE Done /\ UNCHANGED <<trace, context, follower, mishaps>>
      BY <3>1 DEF Done
    <3>2. CASE \E l \in {"puma", "archived", "live"} :
                    Goto(l) /\ UNCHANGED <<trace, context, follower, mishaps>>
      BY <2>5, <3>2 DEF LoadJob
    <3> QED
      BY <2>5, <3>1, <3>2, Zenon DEF LoadJob
  <2>6. CASE ProbeArchive
    BY <2>6 DEF ProbeArchive, Take
  <2>7. CASE ProbeLive
    BY <2>7 DEF ProbeLive, Take
  <2>8. CASE Stat
    <3> DEFINE range == ResolveRange(Header(ask, after), Offset(ask, after), log)
    <3>1. /\ range \in Span /\ range.total = log
          /\ range.start + range.len <= range.total
          /\ ask # "tail" => range.start <= after
      BY RangeSound DEF Within
    <3>2. range.len \in Nat
      BY <3>1 DEF Span
    <3> HIDE DEF range
    <3>3. CASE Done /\ told' = log /\ UNCHANGED <<trace, context, got, mishaps>>
      BY <3>3 DEF Done
    <3>4. CASE /\ pc = "stat" /\ range.len # 0 /\ span' = range /\ pc' = "open"
               /\ UNCHANGED <<ask, after, path, sent, told, rights>>
               /\ UNCHANGED <<trace, context, got, mishaps>>
      BY <3>1, <3>2, <3>4
    <3>5. CASE /\ pc = "stat" /\ Goto("puma") /\ UNCHANGED told
               /\ UNCHANGED <<trace, context, got, mishaps>>
      BY <3>5
    <3> QED
      BY <2>8, <3>3, <3>4, <3>5 DEF Stat, range
  <2>9. CASE Open
    BY <2>9 DEF Open
  <2>10. CASE Send
    <3>1. got' \in Nat /\ got' >= got
      BY <2>10 DEF Send
    <3>2. CASE Done /\ UNCHANGED <<trace, context, told, mishaps>>
      BY <3>1, <3>2 DEF Done
    <3>3. CASE /\ sent + 1 < span.len /\ sent' = sent + 1
               /\ UNCHANGED <<pc, ask, after, path, span, rights>>
               /\ UNCHANGED <<trace, context, told, mishaps>>
      BY <2>10, <3>1, <3>3 DEF Send
    <3> QED
      BY <2>10, <3>2, <3>3 DEF Send
  <2>11. CASE Puma
    BY <2>11 DEF Puma, Done, Mishap, IInv, TypeOK
  <2>12. CASE FallBack
    BY <2>12 DEF FallBack, Inner
  <2>13. CASE Leave
    BY <2>13 DEF Leave, Done
  <2>14. CASE Write
    BY <2>14 DEF Write
  <2>15. CASE Finish \/ InsertRow \/ StoreArchive \/ RemoveLive
    BY <2>15 DEF Finish, InsertRow, StoreArchive, RemoveLive
  <2>16. CASE MoveToObjectStorage \/ RemoveArchive \/ Delete
    BY <2>16 DEF MoveToObjectStorage, RemoveArchive, Delete
  <2>17. CASE CacheHit
    <3>1. got' \in Nat
      <4>1. cache[Url] \in (0..LogLen) \cup {None}
        BY <1>0 DEF IInv, TypeOK, Url, Urls, Offset
      <4> QED
        BY <2>17, <4>1 DEF CacheHit
    <3> QED
      BY <2>17, <3>1 DEF CacheHit, Done
  <2>18. ASSUME NEW url \in Urls, Expire(url)
         PROVE  (Known /\ Ranged /\ Admitted)'
    BY <2>18 DEF Expire
  <2>19. CASE UNCHANGED vars
    BY <2>19 DEF vars
  <2>20. ASSUME NEW url \in Urls, OtherReader(url)
         PROVE  (Known /\ Ranged /\ Admitted)'
    BY <2>20 DEF OtherReader
  <2>21. CASE ChangeRights
    <3>1. UNCHANGED <<trace, cache, found, pc, asking, follower, mishaps>>
      BY <2>21 DEF ChangeRights
    <3>2. pc # "idle" /\ MayRead(reader') => entitled'
      BY <2>21 DEF ChangeRights
    <3>3. pc = "access" => entitled' \/ ~Shuts(found, reader'.project)
      BY <2>21 DEF ChangeRights
    <3>4. pc \notin {"job", "archived", "live", "stat", "open", "stream"}
      BY <2>21 DEF ChangeRights
    <3> QED
      BY <3>1, <3>2, <3>3, <3>4 DEF Shuts
  <2> QED
    BY <2>1, <2>2, <2>3, <2>4, <2>5, <2>6, <2>7, <2>8, <2>9, <2>10, <2>11, <2>12,
       <2>13, <2>14, <2>15, <2>16, <2>17, <2>18, <2>19, <2>20, <2>21 DEF Next, Step
<1> QED
  BY <1>1, <1>2, TypeCorrect, PTL DEF Spec, IInv

\* Every byte a response announces is there to be sent: the file the fast path
\* opened never has fewer bytes than when its length was read.
THEOREM AnnouncedHolds == Spec => []Announced
<1>1. IInv => Announced
  <2> SUFFICES ASSUME IInv PROVE Announced
    OBVIOUS
  <2>1. /\ log \in Nat /\ span.start \in Nat /\ span.len \in Nat
        /\ span.total \in Nat
    BY DEF IInv, TypeOK, Span
  <2> QED
    BY <2>1 DEF IInv, Ranged, Announced
<1> QED
  BY <1>1, Invariance, PTL

\* A client that asks for what follows what it has is never sent a range that
\* starts behind it, whichever file or server the bytes came from before.
THEOREM NoHoles == Spec => []NoHole
<1>1. IInv => NoHole
  <2> SUFFICES ASSUME IInv PROVE NoHole
    OBVIOUS
  <2>1. span.start \in Nat /\ after \in Nat /\ got \in Nat
    BY DEF IInv, TypeOK, Span
  <2> QED
    BY <2>1 DEF IInv, Known, Ranged, NoHole
<1> QED
  BY <1>1, Invariance, PTL

\* Whatever fails on the way and however rights change, the fast path sends a
\* log only to a user who could read it at some moment of his request, or whose
\* project shut out users it had let in while the request was between the two
\* queries: the row alone never lets in a user the membership would not.
THEOREM OnlyReaders == Spec => []ReadersOnly
<1>1. IInv => ReadersOnly
  BY DEF IInv, Admitted, ReadersOnly
<1> QED
  BY <1>1, Invariance, PTL

\* The total length reported to a client never goes down.
THEOREM TotalsOnlyGrow == Spec => TotalsGrow
<1>1. IInv /\ [Next]_vars => [told' >= told]_told
  <2> SUFFICES ASSUME IInv, [Next]_vars, told' # told PROVE told' >= told
    OBVIOUS
  <2>1. log \in Nat /\ told \in Nat /\ span.total \in Nat
    BY DEF IInv, TypeOK, Span
  <2>2. Stat \/ Open
    BY DEF Next, Step, vars, trace, context, rights, follower, request, Poll, Session, Project,
           Access, LoadJob, ProbeArchive, ProbeLive, Send, CacheHit, Puma, Expire,
           FallBack, Leave, ChangeRights, OtherReader, Write, Finish, InsertRow, StoreArchive, RemoveLive,
           MoveToObjectStorage, RemoveArchive, Delete
  <2>3. CASE Stat
    BY <2>1, <2>3 DEF Stat, IInv, Known
  <2>4. CASE Open
    BY <2>1, <2>4 DEF Open, IInv, Ranged
  <2> QED
    BY <2>2, <2>3, <2>4
<1> QED
  BY <1>1, Invariance, PTL DEF Spec, TotalsGrow
=============================================================================
