---------------------------- MODULE UploadsProofs ----------------------------
(* Theorems about Uploads: what is on disk and what Rails is told of it, for   *)
(* any number of requests, any forms and limits.                              *)
EXTENDS Uploads, SequenceTheorems, TLAPS

-----------------------------------------------------------------------------
(* What the steps do to the disk, and to requests that do not take them. *)

\* Put writes one file, Remove takes files away, both leave the others alone.
LEMMA PutFacts ==
    ASSUME NEW p \in Paths, NEW n \in Nat, Put(p, n)
    PROVE  /\ DOMAIN stored' = DOMAIN stored \cup {p}
           /\ stored'[p] = n
           /\ \A q \in DOMAIN stored : q # p => stored'[q] = stored[q]
  BY DEF Put

LEMMA RemoveFacts ==
    ASSUME NEW S, Remove(S)
    PROVE  /\ DOMAIN stored' = DOMAIN stored \ S
           /\ \A q \in DOMAIN stored' : stored'[q] = stored[q]
  BY DEF Remove

\* The disk's part of the type invariant is kept by either.
Disk == DOMAIN stored \subseteq Paths /\ \A p \in DOMAIN stored : stored[p] \in Nat

LEMMA DiskTyped ==
    ASSUME Disk
    PROVE  /\ \A p \in Paths, n \in Nat : Put(p, n) => Disk'
           /\ \A S : Remove(S) => Disk'
           /\ UNCHANGED stored => Disk'
<1>1. ASSUME NEW p \in Paths, NEW n \in Nat, Put(p, n) PROVE Disk'
  BY <1>1, PutFacts DEF Disk
<1>2. ASSUME NEW S, Remove(S) PROVE Disk'
  BY <1>2, RemoveFacts DEF Disk
<1> QED
  BY <1>1, <1>2 DEF Disk

\* What a request counts.
LEMMA Counters ==
    ASSUME TypeOK, NEW r \in Requests
    PROVE  /\ at[r] \in Nat \ {0} /\ at[r] + 1 \in Nat \ {0}
           /\ size[r] \in Nat /\ size[r] + 1 \in Nat
           /\ read[r] \in Nat /\ read[r] + 1 \in Nat
           /\ files[r] \in Nat /\ files[r] + 1 \in Nat
  BY DEF TypeOK

\* The form, its parts and the path of the one a request is at.
LEMMA PartTyped ==
    ASSUME TypeOK, NEW r \in Requests
    PROVE  /\ form[r].parts \in Seq(Part) /\ form[r] \in Forms
           /\ form[r].kind \in {"artifact", "avatar", "direct"}
           /\ Len(form[r].parts) \in Nat /\ DOMAIN form[r].parts = 1..Len(form[r].parts)
           /\ Path(r) \in Paths /\ <<r, 0>> \in Paths
           /\ at[r] <= Len(form[r].parts) => at[r] \in DOMAIN form[r].parts
           /\ at[r] \in DOMAIN form[r].parts =>
                 Current(r) \in Part /\ Current(r).size \in Nat
<1>1. form[r] \in Form /\ form[r] \in Forms /\ at[r] \in Nat \ {0}
  BY ConstantsOK DEF TypeOK
<1>2. form[r].parts \in Seq(Part) /\ form[r].kind \in {"artifact", "avatar", "direct"}
  BY <1>1 DEF Form
<1>3. /\ Len(form[r].parts) \in Nat
      /\ DOMAIN form[r].parts = 1..Len(form[r].parts)
      /\ form[r].parts \in [1..Len(form[r].parts) -> Part]
  BY <1>2, LenProperties
<1>4. Path(r) \in Paths /\ <<r, 0>> \in Paths
  BY <1>1 DEF Path, Paths
<1>5. at[r] \in DOMAIN form[r].parts => Current(r) \in Part /\ Current(r).size \in Nat
  BY <1>3 DEF Current, Part
<1>6. at[r] <= Len(form[r].parts) => at[r] \in DOMAIN form[r].parts
  BY <1>1, <1>3
<1> QED
  BY <1>1, <1>2, <1>3, <1>4, <1>5, <1>6

\* An avatar is a form of one part, and its handler is at that part.
LEMMA AvatarPart ==
    ASSUME TypeOK, Placed, NEW r \in Requests, pc[r] \in {"collect", "write"}
    PROVE  /\ at[r] = 1 /\ DOMAIN form[r].parts = {1} /\ fields[r] = {}
           /\ Current(r).kind = "file" /\ Current(r).size \in Nat
<1>1. at[r] = 1 /\ form[r].kind = "avatar" /\ fields[r] = {}
  BY DEF Placed
<1>2. Len(form[r].parts) = 1 /\ form[r].parts[1].kind = "file"
  BY <1>1, PartTyped, ConstantsOK
<1>3. DOMAIN form[r].parts = {1}
  BY <1>2, PartTyped
<1> QED
  BY <1>1, <1>2, <1>3, PartTyped DEF Current

\* A request that collects has a buffer.
LEMMA HeldTyped ==
    ASSUME TypeOK, Placed, NEW r \in Requests, pc[r] \in {"bytes", "save"}
    PROVE  held[r] \in Nat
  BY DEF TypeOK, Placed

\* The files on disk keep their type in every step.
LEMMA NextDisk ==
    ASSUME TypeOK, Placed, NEW r \in Requests, Step(r)
    PROVE  Disk'
<1>d. Disk /\ 0 \in Nat
  BY DEF TypeOK, Disk
<1>1. CASE CreateFile(r)
  BY <1>1, <1>d, PartTyped, DiskTyped DEF CreateFile
<1>2. CASE Chunk(r)
  <2>1. size[r] + 1 \in Nat
    BY Counters
  <2> QED
    BY <1>2, <1>d, <2>1, PartTyped, DiskTyped DEF Chunk
<1>3. CASE Collect(r)
  BY <1>3, <1>d, PartTyped, DiskTyped DEF Collect
<1>4. CASE WriteAvatar(r)
  BY <1>4, <1>d, PartTyped, AvatarPart, DiskTyped DEF WriteAvatar
<1>5. CASE Accept(r)
  BY <1>5, <1>d, DiskTyped DEF Accept
<1>6. CASE Acquire(r)
  BY <1>6, <1>d, PartTyped, DiskTyped DEF Acquire
<1>7. CASE WriteAll(r)
  <2>1. held[r] \in Nat
    BY <1>7, HeldTyped DEF WriteAll
  <2> QED
    BY <1>7, <1>d, <2>1, PartTyped, DiskTyped DEF WriteAll
<1>8. ASSUME Start(r) \/ Break(r) \/ LookAtField(r) \/ ReadText(r) \/ LimitReached(r)
             \/ Sign(r) \/ Encode(r) \/ Forward(r) \/ Decline(r) \/ ReadField(r)
             \/ FieldTooLong(r) \/ Save(r)
      PROVE  UNCHANGED stored
  BY <1>8
  DEF Start, Break, LookAtField, ReadText, LimitReached, Sign, Encode, Forward, Decline,
      ReadField, FieldTooLong, Save
<1> QED
  BY <1>d, <1>1, <1>2, <1>3, <1>4, <1>5, <1>6, <1>7, <1>8, DiskTyped DEF Step

-----------------------------------------------------------------------------
(* Types. *)

Typed == TypeOK /\ Placed

LEMMA InitTyped == Init => Typed
<1> SUFFICES ASSUME Init PROVE Typed
  OBVIOUS
<1>1. pool \in Seq(Nat)
  BY DEF Init
<1>2. \A r \in Requests : fields[r] = {}
  BY DEF Init
<1> QED
  BY <1>1, <1>2 DEF Init, Typed, TypeOK, Placed, Places, Outcomes

\* A step moves its own request to one place, with one outcome.
LEMMA MovesPlace ==
    ASSUME TypeOK, NEW r \in Requests, Step(r)
    PROVE  \E place \in Places, how \in Outcomes :
              pc' = [pc EXCEPT ![r] = place] /\ outcome' = [outcome EXCEPT ![r] = how]
<1> DEFINE Moved == \E place \in Places, how \in Outcomes :
              pc' = [pc EXCEPT ![r] = place] /\ outcome' = [outcome EXCEPT ![r] = how]
<1>t. pc \in [Requests -> Places] /\ outcome \in [Requests -> Outcomes]
  BY DEF TypeOK
<1>1. ASSUME NEW place \in Places, Goto(r, place) PROVE Moved
  <2>1. outcome' = [outcome EXCEPT ![r] = outcome[r]] /\ outcome[r] \in Outcomes
    BY <1>1, <1>t DEF Goto
  <2> QED
    BY <1>1, <2>1 DEF Goto
<1>2. ASSUME NEW how \in Outcomes, End(r, how) PROVE Moved
  <2>1. "idle" \in Places
    BY DEF Places
  <2> QED
    BY <1>2, <2>1 DEF End
<1>3. ASSUME UNCHANGED <<pc, outcome>> PROVE Moved
  <2>1. /\ outcome' = [outcome EXCEPT ![r] = outcome[r]] /\ outcome[r] \in Outcomes
        /\ pc' = [pc EXCEPT ![r] = pc[r]] /\ pc[r] \in Places
    BY <1>3, <1>t
  <2> QED
    BY <2>1
<1>4. CASE UNCHANGED <<pc, outcome>> \/ \E place \in Places : Goto(r, place)
  BY <1>1, <1>3, <1>4
<1>5. CASE \E how \in Outcomes : End(r, how)
  BY <1>2, <1>5
<1> HIDE DEF Moved
<1>6. CASE Start(r)
  <2>1. Goto(r, "parts") \/ Goto(r, "collect") \/ Goto(r, "acquire")
    BY <1>6, PartTyped DEF Start
  <2> QED
    BY <2>1, <1>4 DEF Places
<1>7. CASE Break(r)
  BY <1>7, <1>4, <1>5 DEF Break, Places, Outcomes
<1>8. CASE LookAtField(r)
  BY <1>8, <1>4, <1>5 DEF LookAtField, Places, Outcomes
<1>9. CASE ReadText(r)
  BY <1>9, <1>4, <1>5 DEF ReadText, Places, Outcomes
<1>10. CASE CreateFile(r)
  BY <1>10, <1>4, <1>5 DEF CreateFile, Places, Outcomes
<1>11. CASE LimitReached(r)
  BY <1>11, <1>4, <1>5 DEF LimitReached, Places, Outcomes
<1>12. CASE Chunk(r)
  BY <1>12, <1>4, <1>5 DEF Chunk, Places, Outcomes
<1>13. CASE Sign(r)
  BY <1>13, <1>4, <1>5 DEF Sign, Places, Outcomes
<1>14. CASE Encode(r)
  BY <1>14, <1>4, <1>5 DEF Encode, Places, Outcomes
<1>15. CASE Collect(r)
  BY <1>15, <1>4, <1>5 DEF Collect, Places, Outcomes
<1>16. CASE WriteAvatar(r)
  BY <1>16, <1>4, <1>5 DEF WriteAvatar, Places, Outcomes
<1>17. CASE Forward(r)
  BY <1>17, <1>4, <1>5 DEF Forward, Places, Outcomes
<1>18. CASE Accept(r)
  BY <1>18, <1>4, <1>5 DEF Accept, Places, Outcomes
<1>19. CASE Decline(r)
  BY <1>19, <1>4, <1>5 DEF Decline, Places, Outcomes
<1>20. CASE Acquire(r)
  BY <1>20, <1>4, <1>5 DEF Acquire, Places, Outcomes
<1>21. CASE ReadField(r)
  BY <1>21, <1>4, <1>5 DEF ReadField, Places, Outcomes
<1>22. CASE FieldTooLong(r)
  BY <1>22, <1>4, <1>5 DEF FieldTooLong, Places, Outcomes
<1>23. CASE WriteAll(r)
  BY <1>23, <1>4, <1>5 DEF WriteAll, Places, Outcomes
<1>24. CASE Save(r)
  BY <1>24, <1>4, <1>5 DEF Save, Places, Outcomes
<1> QED
  BY <1>6, <1>7, <1>8, <1>9, <1>10, <1>11, <1>12, <1>13, <1>14, <1>15, <1>16, <1>17,
      <1>18, <1>19, <1>20, <1>21, <1>22, <1>23, <1>24 DEF Step, Moved

\* It counts for itself only: its part, the part's bytes, the body's, its files.
LEMMA MovesCounters ==
    ASSUME Typed, NEW r \in Requests, Step(r)
    PROVE  /\ form' = form
           /\ \E n \in Nat \ {0} : at' = [at EXCEPT ![r] = n]
           /\ \E n \in Nat : size' = [size EXCEPT ![r] = n]
           /\ \E n \in Nat : read' = [read EXCEPT ![r] = n]
           /\ \E n \in Nat : files' = [files EXCEPT ![r] = n]
<1> DEFINE Counted == /\ form' = form
                      /\ \E n \in Nat \ {0} : at' = [at EXCEPT ![r] = n]
                      /\ \E n \in Nat : size' = [size EXCEPT ![r] = n]
                      /\ \E n \in Nat : read' = [read EXCEPT ![r] = n]
                      /\ \E n \in Nat : files' = [files EXCEPT ![r] = n]
<1>t. /\ at \in [Requests -> Nat \ {0}] /\ size \in [Requests -> Nat]
      /\ read \in [Requests -> Nat] /\ files \in [Requests -> Nat]
  BY DEF Typed, TypeOK
<1>k. /\ at' = at => \E n \in Nat \ {0} : at' = [at EXCEPT ![r] = n]
      /\ size' = size => \E n \in Nat : size' = [size EXCEPT ![r] = n]
      /\ read' = read => \E n \in Nat : read' = [read EXCEPT ![r] = n]
      /\ files' = files => \E n \in Nat : files' = [files EXCEPT ![r] = n]
  <2>1. /\ at = [at EXCEPT ![r] = at[r]] /\ size = [size EXCEPT ![r] = size[r]]
        /\ read = [read EXCEPT ![r] = read[r]] /\ files = [files EXCEPT ![r] = files[r]]
    BY <1>t
  <2> QED
    BY <2>1, Counters DEF Typed
<1>n. 0 \in Nat /\ at[r] + 1 \in Nat \ {0} /\ size[r] + 1 \in Nat /\ read[r] + 1 \in Nat
      /\ files[r] + 1 \in Nat
  BY Counters DEF Typed
<1>p. at[r] <= Len(form[r].parts) =>
          Current(r).size \in Nat /\ read[r] + Current(r).size \in Nat
  <2>1. at[r] <= Len(form[r].parts) => Current(r).size \in Nat
    BY PartTyped DEF Typed
  <2> QED
    BY <2>1, Counters DEF Typed
<1>a. pc[r] = "collect" => Current(r).size \in Nat
  BY AvatarPart DEF Typed
<1>x. pc[r] = "text" => read[r] + Current(r).size \in Nat
  <2>1. pc[r] = "text" => Current(r).size \in Nat
    BY PartTyped DEF Typed, Placed
  <2> QED
    BY <2>1, Counters DEF Typed
<1>1. ASSUME NextPart(r)
      PROVE  /\ \E n \in Nat \ {0} : at' = [at EXCEPT ![r] = n]
             /\ \E n \in Nat : size' = [size EXCEPT ![r] = n]
  BY <1>1, <1>n DEF NextPart
<1>2. ASSUME ReadByte(r)
      PROVE  /\ \E n \in Nat : size' = [size EXCEPT ![r] = n]
             /\ \E n \in Nat : read' = [read EXCEPT ![r] = n]
  BY <1>2, <1>n DEF ReadByte
<1>3. ASSUME UNCHANGED handler PROVE Counted
  BY <1>3, <1>k DEF handler
<1>4. CASE Start(r)
  BY <1>4, <1>3 DEF Start
<1>5. CASE Break(r)
  BY <1>5, <1>3 DEF Break
<1>6. CASE LookAtField(r)
  BY <1>6, <1>k, <1>1 DEF LookAtField
<1>7. CASE ReadText(r)
  BY <1>7, <1>k, <1>x, <1>1 DEF ReadText
<1>8. CASE CreateFile(r)
  BY <1>8, <1>k, <1>n DEF CreateFile
<1>9. CASE LimitReached(r)
  BY <1>9, <1>3 DEF LimitReached
<1>10. CASE Chunk(r)
  BY <1>10, <1>k, <1>2 DEF Chunk
<1>11. CASE Sign(r)
  BY <1>11, <1>k, <1>1 DEF Sign
<1>12. CASE Encode(r)
  BY <1>12, <1>3 DEF Encode
<1>13. CASE Collect(r)
  BY <1>13, <1>k, <1>a DEF Collect
<1>14. CASE WriteAvatar(r)
  BY <1>14, <1>k DEF WriteAvatar
<1>15. CASE Forward(r)
  BY <1>15, <1>3 DEF Forward
<1>16. CASE Accept(r)
  BY <1>16, <1>3 DEF Accept
<1>17. CASE Decline(r)
  BY <1>17, <1>3 DEF Decline
<1>18. CASE Acquire(r)
  BY <1>18, <1>3 DEF Acquire
<1>19. CASE ReadField(r)
  BY <1>19, <1>k, <1>p, <1>1 DEF ReadField
<1>20. CASE FieldTooLong(r)
  BY <1>20, <1>3 DEF FieldTooLong
<1>21. CASE WriteAll(r)
  BY <1>21, <1>3 DEF WriteAll
<1>22. CASE Save(r)
  BY <1>22, <1>3 DEF Save
<1> HIDE DEF Counted
<1> QED
  BY <1>4, <1>5, <1>6, <1>7, <1>8, <1>9, <1>10, <1>11, <1>12, <1>13, <1>14, <1>15,
      <1>16, <1>17, <1>18, <1>19, <1>20, <1>21, <1>22 DEF Step, Counted

\* It names no file but its own to Rails.
LEMMA MovesFields ==
    ASSUME Typed, NEW r \in Requests, Step(r)
    PROVE  \E F \in SUBSET [path : {r} \X Nat, size : Nat] :
              fields' = [fields EXCEPT ![r] = F]
<1> DEFINE Named == [path : {r} \X Nat, size : Nat]
<1>t. fields \in [Requests -> SUBSET [path : Paths, size : Nat]]
      /\ \A f \in fields[r] : f.path[1] = r
  BY DEF Typed, TypeOK
<1>f. fields[r] \in SUBSET Named
  BY <1>t DEF Paths
<1>1. CASE fields' = fields
  <2>1. fields' = [fields EXCEPT ![r] = fields[r]]
    BY <1>1, <1>t
  <2> QED
    BY <2>1, <1>f
<1>2. CASE Sign(r)
  <2>1. [path |-> Path(r), size |-> size[r]] \in Named
    BY Counters DEF Typed, Path
  <2> QED
    BY <1>2, <1>f, <2>1 DEF Sign
<1>3. CASE WriteAvatar(r)
  <2>1. Current(r).size \in Nat
    BY <1>3, AvatarPart DEF Typed, WriteAvatar
  <2>2. {[path |-> Path(r), size |-> Current(r).size]} \in SUBSET Named
    BY <2>1, Counters DEF Typed, Path
  <2> HIDE DEF Named
  <2> QED
    BY <1>3, <2>2 DEF WriteAvatar, Named
<1> HIDE DEF Named
<1> QED
  BY <1>1, <1>2, <1>3 DEF Named, Step, handler, Start, Break, LookAtField, ReadText,
      CreateFile, LimitReached, Chunk, Encode, Collect, Forward, Accept, Decline,
      Acquire, ReadField, FieldTooLong, WriteAll, Save

\* It takes its buffer from the pool or makes one, and gives it back at the end.
LEMMA MovesMemory ==
    ASSUME Typed, NEW r \in Requests, Step(r)
    PROVE  /\ \E b \in Nat \cup {None} : held' = [held EXCEPT ![r] = b]
           /\ pool' \in Seq(Nat)
<1> DEFINE Moved == /\ \E b \in Nat \cup {None} : held' = [held EXCEPT ![r] = b]
                    /\ pool' \in Seq(Nat)
<1>t. held \in [Requests -> Nat \cup {None}] /\ pool \in Seq(Nat)
  BY DEF Typed, TypeOK
<1>1. CASE UNCHANGED memory
  <2>1. held' = [held EXCEPT ![r] = held[r]]
    BY <1>1, <1>t DEF memory
  <2> QED
    BY <2>1, <1>1, <1>t DEF memory
<1>2. CASE Acquire(r)
  <2>1. pool # <<>> => Tail(pool) \in Seq(Nat)
    BY <1>t, HeadTailProperties
  <2> QED
    BY <1>2, <2>1, <1>t DEF Acquire
<1>3. ASSUME Release(r), held[r] \in Nat PROVE Moved
  <2>1. Append(pool, held[r]) \in Seq(Nat)
    BY <1>3, <1>t, AppendProperties
  <2> QED
    BY <1>3, <2>1, <1>t DEF Release
<1>4. CASE ReadField(r)
  <2>1. held[r] \in Nat
    BY <1>4, HeldTyped DEF Typed, ReadField
  <2>2. CASE held' = [held EXCEPT ![r] = @ + Current(r).size] /\ pool' = pool
    <3>1. Current(r).size \in Nat
      BY <1>4, PartTyped DEF Typed, ReadField
    <3>2. held[r] + Current(r).size \in Nat
      BY <2>1, <3>1
    <3> QED
      BY <2>2, <3>2, <1>t
  <2> QED
    BY <1>4, <2>1, <2>2, <1>3 DEF ReadField
<1>5. CASE Save(r)
  <2>1. held[r] \in Nat
    BY <1>5, HeldTyped DEF Typed, Save
  <2> QED
    BY <1>5, <2>1, <1>3 DEF Save
<1>6. CASE Break(r) \/ FieldTooLong(r)
  BY <1>6, <1>t DEF Break, FieldTooLong
<1>7. ASSUME Start(r) \/ LookAtField(r) \/ ReadText(r) \/ CreateFile(r) \/ LimitReached(r)
             \/ Chunk(r) \/ Sign(r) \/ Encode(r) \/ Collect(r) \/ WriteAvatar(r)
             \/ Forward(r) \/ Accept(r) \/ Decline(r) \/ WriteAll(r)
      PROVE  UNCHANGED memory
  BY <1>7 DEF Start, LookAtField, ReadText, CreateFile, LimitReached, Chunk, Sign,
      Encode, Collect, WriteAvatar, Forward, Accept, Decline, WriteAll
<1> HIDE DEF Moved
<1> QED
  BY <1>1, <1>2, <1>4, <1>5, <1>6, <1>7 DEF Step, Moved

\* All of it together: a step leaves every other request as it is.
LEMMA Others ==
    ASSUME Typed, NEW r \in Requests, Step(r), NEW s \in Requests \ {r}
    PROVE  /\ pc'[s] = pc[s] /\ outcome'[s] = outcome[s]
           /\ at'[s] = at[s] /\ size'[s] = size[s] /\ read'[s] = read[s]
           /\ files'[s] = files[s] /\ fields'[s] = fields[s] /\ held'[s] = held[s]
<1>1. pc'[s] = pc[s] /\ outcome'[s] = outcome[s]
  BY MovesPlace DEF Typed, TypeOK
<1>2. /\ at'[s] = at[s] /\ size'[s] = size[s]
      /\ read'[s] = read[s] /\ files'[s] = files[s]
  BY MovesCounters DEF Typed, TypeOK
<1>3. fields'[s] = fields[s]
  BY MovesFields DEF Typed, TypeOK
<1>4. held'[s] = held[s]
  BY MovesMemory DEF Typed, TypeOK
<1> QED
  BY <1>1, <1>2, <1>3, <1>4

LEMMA NextTypeOK ==
    ASSUME Typed, NEW r \in Requests, Step(r)
    PROVE  TypeOK'
<1>1. form' \in [Requests -> Forms]
  BY MovesCounters DEF Typed, TypeOK
<1>2. pc' \in [Requests -> Places] /\ outcome' \in [Requests -> Outcomes]
  <2>1. TypeOK
    BY DEF Typed
  <2>2. pc \in [Requests -> Places] /\ outcome \in [Requests -> Outcomes]
    BY <2>1 DEF TypeOK
  <2> QED
    BY <2>1, <2>2, MovesPlace
<1>3. at' \in [Requests -> Nat \ {0}]
  BY MovesCounters DEF Typed, TypeOK
<1>4. size' \in [Requests -> Nat] /\ read' \in [Requests -> Nat]
      /\ files' \in [Requests -> Nat]
  <2>1. /\ size \in [Requests -> Nat] /\ read \in [Requests -> Nat]
        /\ files \in [Requests -> Nat]
    BY DEF Typed, TypeOK
  <2> QED
    BY <2>1, MovesCounters
<1>5. /\ fields' \in [Requests -> SUBSET [path : Paths, size : Nat]]
      /\ \A s \in Requests : \A f \in fields'[s] : f.path[1] = s
  <2>1. PICK F \in SUBSET [path : {r} \X Nat, size : Nat] :
                fields' = [fields EXCEPT ![r] = F]
    BY MovesFields
  <2>2. F \in SUBSET [path : Paths, size : Nat] /\ \A f \in F : f.path[1] = r
    BY DEF Paths
  <2> QED
    BY <2>1, <2>2 DEF Typed, TypeOK
<1>6. pool' \in Seq(Nat) /\ held' \in [Requests -> Nat \cup {None}]
  BY MovesMemory DEF Typed, TypeOK
<1>7. Disk'
  BY NextDisk DEF Typed
<1> QED
  BY <1>1, <1>2, <1>3, <1>4, <1>5, <1>6, <1>7 DEF TypeOK, Disk

\* What the place of the request that moves says of it afterwards.
LEMMA NextPlaced ==
    ASSUME Typed, NEW r \in Requests, Step(r)
    PROVE  Placed'
<1> DEFINE P == /\ pc[r] # "idle" => outcome[r] = "none"
                /\ pc[r] \in {"idle", "collect", "write", "acquire"}
                      /\ outcome[r] = "none" => at[r] = 1 /\ fields[r] = {}
                /\ pc[r] \in {"idle", "acquire"} /\ outcome[r] = "none" => read[r] = 0
                /\ pc[r] \in {"idle", "parts", "text"} /\ outcome[r] = "none" => size[r] = 0
                /\ pc[r] \in {"collect", "write"} => form[r].kind = "avatar"
                /\ pc[r] = "text" =>
                      at[r] \in DOMAIN form[r].parts /\ Current(r).kind = "text"
                /\ held[r] # None <=> pc[r] \in {"bytes", "save"}
<1>p. P
  BY DEF Typed, Placed
<1>t. /\ pc \in [Requests -> Places] /\ outcome \in [Requests -> Outcomes]
      /\ at \in [Requests -> Nat \ {0}] /\ held \in [Requests -> Nat \cup {None}]
      /\ size \in [Requests -> Nat]
      /\ fields \in [Requests -> SUBSET [path : Paths, size : Nat]]
      /\ None \notin Nat /\ 0 \in Nat /\ pool \in Seq(Nat)
  BY ConstantsOK DEF Typed, TypeOK
<1>f. form' = form
  BY MovesCounters
<1>1. P'
  <2> USE <1>p, <1>t, <1>f DEF Goto, End, NextPart, handler, memory
  <2>1. CASE Start(r)
    <3>1. CASE form[r].kind = "artifact" /\ Goto(r, "parts")
      BY <2>1, <3>1 DEF Start
    <3>2. CASE form[r].kind = "avatar" /\ Goto(r, "collect")
      BY <2>1, <3>2 DEF Start
    <3>3. CASE form[r].kind = "direct" /\ Goto(r, "acquire")
      BY <2>1, <3>3 DEF Start
    <3>4. form[r].kind \in {"artifact", "avatar", "direct"}
      BY PartTyped DEF Typed
    <3> HIDE DEF P
    <3> QED
      BY <2>1, <3>1, <3>2, <3>3, <3>4 DEF Start
  <2>2. CASE Break(r)
    BY <2>2 DEF Break
  <2>3. CASE LookAtField(r)
    <3>1. at[r] \in DOMAIN form[r].parts
      BY <2>3, PartTyped DEF Typed, LookAtField
    <3>2. CASE Goto(r, "text") /\ Current(r).kind = "text" /\ UNCHANGED at
      <4>1. Current(r)' = Current(r) /\ at'[r] \in DOMAIN form'[r].parts
        BY <3>1, <3>2 DEF Current
      <4> QED
        BY <2>3, <3>2, <4>1 DEF LookAtField
    <3>3. CASE UNCHANGED <<pc, outcome>>
      BY <2>3, <3>3 DEF LookAtField
    <3>4. CASE End(r, "400")
      BY <2>3, <3>4 DEF LookAtField
    <3> HIDE DEF P
    <3> QED
      BY <2>3, <3>2, <3>3, <3>4 DEF LookAtField
  <2>4. CASE ReadText(r)
    BY <2>4 DEF ReadText
  <2>5. CASE CreateFile(r)
    BY <2>5 DEF CreateFile
  <2>6. CASE LimitReached(r)
    BY <2>6 DEF LimitReached
  <2>7. CASE Chunk(r)
    BY <2>7 DEF Chunk
  <2>8. CASE Sign(r)
    BY <2>8 DEF Sign
  <2>9. CASE Encode(r)
    BY <2>9 DEF Encode
  <2>10. CASE Collect(r)
    BY <2>10 DEF Collect
  <2>11. CASE WriteAvatar(r)
    BY <2>11 DEF WriteAvatar
  <2>12. CASE Forward(r)
    BY <2>12 DEF Forward
  <2>13. CASE Accept(r)
    BY <2>13 DEF Accept
  <2>14. CASE Decline(r)
    BY <2>14 DEF Decline
  <2>15. CASE Acquire(r)
    BY <2>15 DEF Acquire
  <2>16. CASE ReadField(r)
    <3>1. CASE UNCHANGED <<pc, outcome>> /\ held' = [held EXCEPT ![r] = @ + Current(r).size]
      <4>1. held[r] \in Nat /\ Current(r).size \in Nat
        BY <2>16, HeldTyped, PartTyped DEF Typed, ReadField
      <4>2. held'[r] \in Nat /\ held'[r] # None
        BY <3>1, <4>1
      <4> QED
        BY <2>16, <3>1, <4>2 DEF ReadField
    <3>2. CASE End(r, "413") /\ Release(r)
      BY <2>16, <3>2 DEF ReadField, Release
    <3> HIDE DEF P
    <3> QED
      BY <2>16, <3>1, <3>2 DEF ReadField
  <2>17. CASE FieldTooLong(r)
    BY <2>17 DEF FieldTooLong
  <2>18. CASE WriteAll(r)
    BY <2>18 DEF WriteAll
  <2>19. CASE Save(r)
    BY <2>19 DEF Save, Release
  <2> HIDE DEF P
  <2> QED
    BY <2>1, <2>2, <2>3, <2>4, <2>5, <2>6, <2>7, <2>8, <2>9, <2>10, <2>11, <2>12, <2>13,
        <2>14, <2>15, <2>16, <2>17, <2>18, <2>19 DEF Step
<1>2. ASSUME NEW s \in Requests \ {r} PROVE Current(s)' = Current(s)
  BY <1>f, Others DEF Current
<1> QED
  BY <1>1, <1>2, <1>f, Others DEF Typed, Placed

LEMMA NextTyped == Typed /\ [Next]_vars => Typed'
<1> SUFFICES ASSUME Typed, [Next]_vars PROVE Typed'
  OBVIOUS
<1>1. CASE UNCHANGED vars
  BY <1>1 DEF vars, handler, memory, Typed, TypeOK, Placed, Current
<1> QED
  BY <1>1, NextTypeOK, NextPlaced DEF Next, Typed

LEMMA AlwaysTyped == Spec => []Typed
  BY InitTyped, NextTyped, PTL DEF Spec

\* Every variable of the uploads keeps its type.
THEOREM TypeCorrect == Spec => []TypeOK
  BY AlwaysTyped, PTL DEF Typed

-----------------------------------------------------------------------------
(* The disk. *)

\* A step writes or removes only files of its own request.
LEMMA OthersFiles ==
    ASSUME Typed, NEW r \in Requests, Step(r), NEW p \in Paths, p[1] # r
    PROVE  /\ p \in DOMAIN stored' <=> p \in DOMAIN stored
           /\ stored'[p] = stored[p] \/ p \notin DOMAIN stored
<1> DEFINE Same == /\ p \in DOMAIN stored' <=> p \in DOMAIN stored
                   /\ stored'[p] = stored[p] \/ p \notin DOMAIN stored
<1>p. p # Path(r) /\ p # <<r, 0>> /\ Path(r) \in Paths /\ <<r, 0>> \in Paths
  BY PartTyped DEF Typed, Path
<1>1. ASSUME NEW n \in Nat, Put(Path(r), n) \/ Put(<<r, 0>>, n) PROVE Same
  BY <1>1, <1>p DEF Put
<1>2. CASE UNCHANGED stored
  BY <1>2
<1>3. CASE CreateFile(r)
  BY <1>3, <1>1, <1>2 DEF CreateFile
<1>4. CASE Chunk(r)
  <2>1. size[r] + 1 \in Nat
    BY Counters DEF Typed
  <2>2. ASSUME Remove({Path(r)}) PROVE Same
    BY <2>2, <1>p DEF Remove
  <2> QED
    BY <1>4, <2>1, <2>2, <1>1 DEF Chunk
<1>5. CASE Collect(r)
  BY <1>5, <1>1, <1>2 DEF Collect
<1>6. CASE WriteAvatar(r)
  <2>1. Current(r).size \in Nat
    BY <1>6, AvatarPart DEF Typed, WriteAvatar
  <2> QED
    BY <1>6, <2>1, <1>1 DEF WriteAvatar
<1>7. CASE Accept(r)
  <2>1. \A f \in fields[r] : f.path # p
    BY DEF Typed, TypeOK
  <2> QED
    BY <1>7, <2>1 DEF Accept, Remove
<1>8. CASE Acquire(r)
  BY <1>8, <1>1 DEF Acquire
<1>9. CASE WriteAll(r)
  <2>1. held[r] \in Nat
    BY <1>9, HeldTyped DEF Typed, WriteAll
  <2> QED
    BY <1>9, <2>1, <1>1 DEF WriteAll
<1> HIDE DEF Same
<1>10. ASSUME Start(r) \/ Break(r) \/ LookAtField(r) \/ ReadText(r) \/ LimitReached(r) \/ Sign(r) \/
              Encode(r) \/ Forward(r) \/ Decline(r) \/ ReadField(r) \/ FieldTooLong(r)
              \/ Save(r)
       PROVE  UNCHANGED stored
  BY <1>10 DEF Start, Break, LookAtField, ReadText, LimitReached, Sign, Encode, Forward,
      Decline, ReadField, FieldTooLong, Save
<1> QED
  BY <1>2, <1>3, <1>4, <1>5, <1>6, <1>7, <1>8, <1>9, <1>10 DEF Step, Same

\* What is known to fit before it is written, after a step of r.
LEMMA NextFits ==
    ASSUME Typed, Fits, NEW r \in Requests, Step(r)
    PROVE  Fits'
<1> DEFINE P == /\ pc[r] = "write" => Current(r).size <= MaxSize
                /\ pc[r] \in {"bytes", "save"} => held[r] = read[r] /\ read[r] <= MaxSize
<1>p. P
  BY DEF Fits
<1>t. /\ pc \in [Requests -> Places] /\ outcome \in [Requests -> Outcomes]
      /\ read \in [Requests -> Nat] /\ held \in [Requests -> Nat \cup {None}]
  BY DEF Typed, TypeOK
<1>f. form' = form
  BY MovesCounters
<1>0. /\ pc[r] = "acquire" => read[r] = 0
      /\ 0 <= MaxSize
  BY ConstantsOK DEF Typed, Placed
<1>1. P'
  <2> USE <1>p, <1>t, <1>f DEF Goto, End, handler, memory
  <2>1. CASE Start(r)
    <3>1. Goto(r, "parts") \/ Goto(r, "collect") \/ Goto(r, "acquire")
      BY <2>1, PartTyped DEF Start, Typed
    <3> QED
      BY <3>1
  <2>2. CASE Break(r)
    BY <2>2 DEF Break
  <2>3. CASE LookAtField(r)
    BY <2>3 DEF LookAtField
  <2>4. CASE ReadText(r)
    BY <2>4 DEF ReadText
  <2>5. CASE CreateFile(r)
    BY <2>5 DEF CreateFile
  <2>6. CASE LimitReached(r)
    BY <2>6 DEF LimitReached
  <2>7. CASE Chunk(r)
    BY <2>7 DEF Chunk
  <2>8. CASE Sign(r)
    BY <2>8 DEF Sign
  <2>9. CASE Encode(r)
    BY <2>9 DEF Encode
  <2>10. CASE Collect(r)
    <3>1. Current(r)' = Current(r)
      BY <2>10, <1>f DEF Collect, Current
    <3> QED
      BY <2>10, <3>1 DEF Collect
  <2>11. CASE WriteAvatar(r)
    BY <2>11 DEF WriteAvatar
  <2>12. CASE Forward(r)
    BY <2>12 DEF Forward
  <2>13. CASE Accept(r)
    BY <2>13 DEF Accept
  <2>14. CASE Decline(r)
    BY <2>14 DEF Decline
  <2>15. CASE Acquire(r)
    BY <2>15, <1>0 DEF Acquire
  <2>16. CASE ReadField(r)
    <3>1. CASE /\ UNCHANGED <<pc, outcome>> /\ read'[r] <= MaxSize
               /\ held' = [held EXCEPT ![r] = @ + Current(r).size]
      BY <2>16, <3>1 DEF ReadField
    <3>2. CASE End(r, "413")
      BY <2>16, <3>2 DEF ReadField
    <3> HIDE DEF P
    <3> QED
      BY <2>16, <3>1, <3>2 DEF ReadField
  <2>17. CASE FieldTooLong(r)
    BY <2>17 DEF FieldTooLong
  <2>18. CASE WriteAll(r)
    BY <2>18 DEF WriteAll
  <2>19. CASE Save(r)
    BY <2>19 DEF Save
  <2> HIDE DEF P
  <2> QED
    BY <2>1, <2>2, <2>3, <2>4, <2>5, <2>6, <2>7, <2>8, <2>9, <2>10, <2>11, <2>12, <2>13,
        <2>14, <2>15, <2>16, <2>17, <2>18, <2>19 DEF Step
<1>2. ASSUME NEW s \in Requests \ {r} PROVE Current(s)' = Current(s)
  BY <1>f, Others DEF Current
<1> QED
  BY <1>1, <1>2, Others DEF Fits

\* Neither Chunk nor WriteAvatar nor WriteAll can make a file too large.
LEMMA NextWithinSize ==
    ASSUME Typed, Fits, WithinSize, NEW r \in Requests, Step(r)
    PROVE  WithinSize'
<1>0. 0 \in Nat /\ 0 <= MaxSize /\ MaxSize \in Nat /\ Path(r) \in Paths /\ <<r, 0>> \in Paths
  BY ConstantsOK, PartTyped DEF Typed
<1>1. ASSUME NEW p \in Paths, NEW n \in Nat, n <= MaxSize, Put(p, n) PROVE WithinSize'
  BY <1>1 DEF Put, WithinSize
<1>2. ASSUME NEW S, Remove(S) PROVE WithinSize'
  BY <1>2 DEF Remove, WithinSize
<1>3. CASE UNCHANGED stored
  BY <1>3 DEF WithinSize
<1>4. CASE CreateFile(r)
  BY <1>4, <1>0, <1>1, <1>3 DEF CreateFile
<1>5. CASE Chunk(r)
  <2>1. size[r] \in Nat /\ size[r] + 1 \in Nat
    BY Counters DEF Typed
  <2>2. size[r] < MaxSize => size[r] + 1 <= MaxSize
    BY <2>1, <1>0
  <2>3. \/ size[r] < MaxSize /\ Put(Path(r), size[r] + 1)
        \/ Remove({Path(r)})
        \/ UNCHANGED stored
    BY <1>5 DEF Chunk
  <2> QED
    BY <2>1, <2>2, <2>3, <1>0, <1>1, <1>2, <1>3
<1>6. CASE Collect(r)
  BY <1>6, <1>0, <1>1, <1>3 DEF Collect
<1>7. CASE WriteAvatar(r)
  <2>1. Current(r).size \in Nat /\ Current(r).size <= MaxSize
    BY <1>7, AvatarPart DEF Typed, WriteAvatar, Fits
  <2> QED
    BY <1>7, <2>1, <1>0, <1>1 DEF WriteAvatar
<1>8. CASE Accept(r)
  BY <1>8, <1>2 DEF Accept
<1>9. CASE Acquire(r)
  BY <1>9, <1>0, <1>1 DEF Acquire
<1>10. CASE WriteAll(r)
  <2>1. held[r] \in Nat /\ held[r] <= MaxSize
    BY <1>10, HeldTyped DEF Typed, WriteAll, Fits
  <2> QED
    BY <1>10, <2>1, <1>0, <1>1 DEF WriteAll
<1>11. ASSUME Start(r) \/ Break(r) \/ LookAtField(r) \/ ReadText(r) \/ LimitReached(r) \/ Sign(r) \/
              Encode(r) \/ Forward(r) \/ Decline(r) \/ ReadField(r) \/ FieldTooLong(r)
              \/ Save(r)
       PROVE  UNCHANGED stored
  BY <1>11 DEF Start, Break, LookAtField, ReadText, LimitReached, Sign, Encode, Forward,
      Decline, ReadField, FieldTooLong, Save
<1> QED
  BY <1>3, <1>4, <1>5, <1>6, <1>7, <1>8, <1>9, <1>10, <1>11 DEF Step

LEMMA AlwaysFits == Spec => [](Fits /\ WithinSize)
<1>1. Init => Fits /\ WithinSize
  BY DEF Init, Fits, WithinSize
<1>2. Typed /\ Fits /\ WithinSize /\ [Next]_vars => (Fits /\ WithinSize)'
  <2>1. ASSUME Fits, WithinSize, UNCHANGED vars PROVE (Fits /\ WithinSize)'
    BY <2>1 DEF vars, handler, memory, Fits, WithinSize, Current
  <2> QED
    BY <2>1, NextFits, NextWithinSize DEF Next
<1> QED
  BY <1>1, <1>2, AlwaysTyped, PTL DEF Spec

\* No file on disk is larger than the limit at any time (persist_file_field,
\* handle_avatar_upload and handle_upload), whatever breaks off where.
THEOREM NeverTooLarge == Spec => []WithinSize
  BY AlwaysFits, PTL

-----------------------------------------------------------------------------
(* Which files are short. *)

LEMMA NextWriting ==
    ASSUME Typed, Writing, NEW r \in Requests, Step(r)
    PROVE  Writing'
<1> DEFINE W(s) == pc[s] = "chunks" =>
                      /\ at[s] \in DOMAIN form[s].parts /\ Current(s).kind = "file"
                      /\ Path(s) \in DOMAIN stored /\ stored[Path(s)] = size[s]
<1>f. form' = form
  BY MovesCounters
<1>1. ASSUME NEW s \in Requests \ {r} PROVE W(s)'
  <2>1. /\ Path(s)' = Path(s) /\ Current(s)' = Current(s)
        /\ pc'[s] = pc[s] /\ at'[s] = at[s] /\ size'[s] = size[s]
    BY <1>f, Others DEF Path, Current
  <2>2. Path(s) \in Paths /\ Path(s)[1] # r
    BY PartTyped DEF Typed, Path
  <2>3. W(s)
    BY DEF Writing
  <2> QED
    BY <1>f, <2>1, <2>2, <2>3, OthersFiles
<1>2. W(r)'
  <2>t. pc \in [Requests -> Places] /\ at[r] \in Nat \ {0} /\ Path(r) \in Paths
        /\ size \in [Requests -> Nat] /\ W(r)
    BY PartTyped DEF Typed, TypeOK, Writing
  <2>0. CASE pc'[r] # "chunks"
    BY <2>0
  <2>1. CASE CreateFile(r) /\ pc'[r] = "chunks"
    <3>1. Goto(r, "chunks") /\ Put(Path(r), 0) /\ UNCHANGED <<at, size>>
          /\ Current(r).kind = "file"
      BY <2>1, <2>t DEF CreateFile, End
    <3>2. at[r] \in DOMAIN form[r].parts /\ size[r] = 0
      BY <2>1, PartTyped DEF Typed, Placed, CreateFile
    <3>3. Current(r)' = Current(r) /\ Path(r)' = Path(r)
      BY <3>1, <1>f DEF Current, Path
    <3> QED
      BY <3>1, <3>2, <3>3, <1>f DEF Put
  <2>2. CASE Chunk(r) /\ pc'[r] = "chunks"
    <3>1. /\ pc[r] = "chunks" /\ Put(Path(r), size[r] + 1) /\ at' = at
          /\ size'[r] = size[r] + 1
      BY <2>2, <2>t DEF Chunk, End, ReadByte
    <3>2. Current(r)' = Current(r) /\ Path(r)' = Path(r)
      BY <3>1, <1>f DEF Current, Path
    <3> QED
      BY <3>1, <3>2, <2>t, <1>f DEF Put
  <2>3. ASSUME pc'[r] = "chunks", ~CreateFile(r), ~Chunk(r) PROVE FALSE
    <3> USE <2>3, <2>t DEF Goto, End
    <3>1. CASE Start(r)
      <4>1. Goto(r, "parts") \/ Goto(r, "collect") \/ Goto(r, "acquire")
        BY <3>1, PartTyped DEF Start, Typed
      <4> QED
        BY <4>1
    <3>2. CASE Break(r)
      BY <3>2 DEF Break
    <3>3. CASE LookAtField(r)
      BY <3>3 DEF LookAtField
    <3>4. CASE ReadText(r)
      BY <3>4 DEF ReadText
    <3>6. CASE LimitReached(r)
      BY <3>6 DEF LimitReached
    <3>8. CASE Sign(r)
      BY <3>8 DEF Sign
    <3>9. CASE Encode(r)
      BY <3>9 DEF Encode
    <3>10. CASE Collect(r)
      BY <3>10 DEF Collect
    <3>11. CASE WriteAvatar(r)
      BY <3>11 DEF WriteAvatar
    <3>12. CASE Forward(r)
      BY <3>12 DEF Forward
    <3>13. CASE Accept(r)
      BY <3>13 DEF Accept
    <3>14. CASE Decline(r)
      BY <3>14 DEF Decline
    <3>15. CASE Acquire(r)
      BY <3>15 DEF Acquire
    <3>16. CASE ReadField(r)
      BY <3>16 DEF ReadField
    <3>17. CASE FieldTooLong(r)
      BY <3>17 DEF FieldTooLong
    <3>18. CASE WriteAll(r)
      BY <3>18 DEF WriteAll
    <3>19. CASE Save(r)
      BY <3>19 DEF Save
    <3> QED
      BY <3>1, <3>2, <3>3, <3>4, <3>6, <3>8, <3>9, <3>10, <3>11, <3>12, <3>13, <3>14,
          <3>15, <3>16, <3>17, <3>18, <3>19 DEF Step
  <2> QED
    BY <2>0, <2>1, <2>2, <2>3
<1> QED
  BY <1>1, <1>2 DEF Writing

LEMMA NextWhole ==
    ASSUME Typed, Writing, Whole, NEW r \in Requests, Step(r)
    PROVE  Whole'
<1> DEFINE Full(p) == stored[p] = form[p[1]].parts[p[2]].size
           Failed(s) == outcome[s] \in {"broken", "400", "413"}
           Short(p) == pc[p[1]] \in {"chunks", "write"} /\ p = Path(p[1])
<1>f. form' = form
  BY MovesCounters
<1>d. DOMAIN stored' \subseteq Paths
  BY NextDisk DEF Typed, Disk
<1> SUFFICES ASSUME NEW p \in DOMAIN stored', p[2] # 0
             PROVE  (Full(p) \/ Failed(p[1]) \/ Short(p))'
  BY DEF Whole
<1>p. p \in Paths /\ p[1] \in Requests /\ p[2] \in Nat /\ p = <<p[1], p[2]>>
  BY <1>d DEF Paths
<1>w. p \in DOMAIN stored => Full(p) \/ Failed(p[1]) \/ Short(p)
  BY DEF Whole
<1>1. CASE p[1] # r
  <2>1. p \in DOMAIN stored /\ stored'[p] = stored[p]
    BY <1>1, <1>p, OthersFiles
  <2>2. Path(p[1])' = Path(p[1]) /\ pc'[p[1]] = pc[p[1]] /\ outcome'[p[1]] = outcome[p[1]]
    BY <1>1, <1>p, Others DEF Path
  <2> QED
    BY <2>1, <2>2, <1>w, <1>f
<1>2. CASE p[1] = r
  <2>t. /\ pc \in [Requests -> Places] /\ outcome \in [Requests -> Outcomes]
        /\ at[r] \in Nat \ {0} /\ at \in [Requests -> Nat \ {0}]
        /\ Path(r) \in Paths /\ Path(r)[2] = at[r] /\ Path(r)[1] = r
        /\ pc[r] # "idle" => outcome[r] = "none"
    BY PartTyped DEF Typed, TypeOK, Path, Placed
  <2> USE <2>t, <1>2, <1>p, <1>f
  <2>2. CASE Start(r)
    BY <2>2, <1>w DEF Start, handler
  <2>3. CASE Break(r) \/ LimitReached(r)
    BY <2>3 DEF Break, LimitReached, End
  <2>4. CASE LookAtField(r) \/ ReadText(r) \/ Encode(r) \/ Forward(r) \/ Decline(r)
             \/ ReadField(r) \/ FieldTooLong(r) \/ Save(r)
    <3>1. UNCHANGED stored /\ pc[r] \notin {"chunks", "write", "idle"}
      BY <2>4
      DEF LookAtField, ReadText, Encode, Forward, Decline, ReadField, FieldTooLong, Save
    <3> QED
      BY <3>1, <1>w
  <2>5. CASE CreateFile(r)
    <3>1. CASE End(r, "400")
      BY <3>1 DEF End
    <3>2. CASE Goto(r, "chunks") /\ Put(Path(r), 0)
      <4>1. Path(r)' = Path(r) /\ pc[r] = "parts"
        BY <2>5 DEF CreateFile, Path
      <4>2. CASE p = Path(r)
        BY <3>2, <4>1, <4>2 DEF Goto
      <4>3. CASE p # Path(r)
        BY <3>2, <4>1, <4>3, <1>w DEF Put
      <4> QED
        BY <4>2, <4>3
    <3> QED
      BY <2>5, <3>1, <3>2 DEF CreateFile
  <2>6. CASE Chunk(r)
    <3>1. Path(r)' = Path(r) /\ pc[r] = "chunks"
      BY <2>6 DEF Chunk, Path
    <3>2. CASE Put(Path(r), size[r] + 1) /\ UNCHANGED <<pc, outcome>>
      <4>1. CASE p = Path(r)
        BY <3>1, <3>2, <4>1
      <4>2. CASE p # Path(r)
        BY <3>1, <3>2, <4>2, <1>w DEF Put
      <4> QED
        BY <4>1, <4>2
    <3>3. CASE End(r, "413")
      BY <3>3 DEF End
    <3> QED
      BY <2>6, <3>2, <3>3 DEF Chunk
  <2>7. CASE Sign(r)
    <3>1. UNCHANGED stored /\ pc[r] = "chunks" /\ size[r] = Current(r).size
      BY <2>7 DEF Sign
    <3>2. CASE p = Path(r)
      BY <3>1, <3>2 DEF Writing, Current
    <3>3. CASE p # Path(r)
      BY <3>1, <3>3, <1>w
    <3> QED
      BY <3>2, <3>3
  <2>8. CASE Collect(r)
    <3>1. Path(r)' = Path(r) /\ pc[r] = "collect"
      BY <2>8 DEF Collect, Path
    <3>2. CASE UNCHANGED stored
      BY <3>1, <3>2, <1>w
    <3>3. CASE Goto(r, "write") /\ Put(Path(r), 0)
      <4>1. CASE p = Path(r)
        BY <3>1, <3>3, <4>1 DEF Goto
      <4>2. CASE p # Path(r)
        BY <3>1, <3>3, <4>2, <1>w DEF Put
      <4> QED
        BY <4>1, <4>2
    <3> QED
      BY <2>8, <3>2, <3>3 DEF Collect
  <2>9. CASE WriteAvatar(r)
    <3>1. Put(Path(r), Current(r).size) /\ pc[r] = "write"
      BY <2>9 DEF WriteAvatar
    <3>2. CASE p = Path(r)
      BY <3>1, <3>2 DEF Put, Current
    <3>3. CASE p # Path(r)
      BY <3>1, <3>3, <1>w DEF Put
    <3> QED
      BY <3>2, <3>3
  <2>10. CASE Accept(r)
    <3>1. p \in DOMAIN stored /\ stored'[p] = stored[p] /\ pc[r] = "rails"
      BY <2>10 DEF Accept, Remove
    <3> QED
      BY <3>1, <1>w
  <2>11. CASE Acquire(r)
    <3>1. pc[r] = "acquire" /\ p # <<r, 0>> /\ Put(<<r, 0>>, 0)
      BY <2>11 DEF Acquire
    <3> QED
      BY <3>1, <1>w DEF Put
  <2>12. CASE WriteAll(r)
    <3>1. pc[r] = "bytes" /\ p # <<r, 0>> /\ Put(<<r, 0>>, held[r])
      BY <2>12 DEF WriteAll
    <3> QED
      BY <3>1, <1>w DEF Put
  <2> HIDE DEF Full, Failed, Short
  <2> QED
    BY <2>2, <2>3, <2>4, <2>5, <2>6, <2>7, <2>8, <2>9, <2>10, <2>11, <2>12 DEF Step
<1> QED
  BY <1>1, <1>2

LEMMA AlwaysWhole == Spec => [](Writing /\ Whole)
<1>1. Init => Writing /\ Whole
  BY DEF Init, Writing, Whole
<1>2. Typed /\ Writing /\ Whole /\ [Next]_vars => (Writing /\ Whole)'
  <2>1. ASSUME Writing, Whole, UNCHANGED vars PROVE (Writing /\ Whole)'
    BY <2>1 DEF vars, handler, Writing, Whole, Current, Path
  <2> QED
    BY <2>1, NextWriting, NextWhole DEF Next
<1> QED
  BY <1>1, <1>2, AlwaysTyped, PTL DEF Spec

\* A file that holds less than its part (persist_file_field, handle_avatar_upload)
\* is being written, or its request was told that it failed, even when the file of a
\* refused one could not be removed.
THEOREM CutFilesHaveCause == Spec => []CutOnlyByFailure
<1>1. Whole => CutOnlyByFailure
  BY DEF Whole, CutOnlyByFailure
<1> QED
  BY <1>1, AlwaysWhole, PTL

-----------------------------------------------------------------------------
(* What Rails is told. *)

Telling == {"parts", "text", "chunks", "forward", "rails"}

ToldOf(r) ==
    /\ {f.path[2] : f \in fields[r]} = {i \in Passed(r) : form[r].parts[i].kind = "file"}
    /\ \A f \in fields[r] : /\ f.path[1] = r
                            /\ f.path \in DOMAIN stored
                            /\ stored[f.path] = f.size
                            /\ f.size = form[r].parts[f.path[2]].size
    /\ \A i \in Passed(r) : form[r].parts[i].kind # "reserved"

LEMMA ToldByEach == Told <=> \A r \in Requests : pc[r] \in Telling => ToldOf(r)
  BY DEF Told, ToldOf, Telling

\* What one request told stays true in every other request's steps.
LEMMA OthersTold ==
    ASSUME Typed, NEW r \in Requests, Step(r), NEW s \in Requests \ {r}, ToldOf(s)
    PROVE  ToldOf(s)'
<1>1. form' = form /\ pc'[s] = pc[s] /\ at'[s] = at[s] /\ fields'[s] = fields[s]
  BY MovesCounters, Others
<1>2. Passed(s)' = Passed(s)
  BY <1>1 DEF Passed
<1>3. ASSUME NEW f \in fields[s]
      PROVE  f.path \in DOMAIN stored' /\ stored'[f.path] = f.size
  <2>1. f.path \in Paths /\ f.path[1] # r
    BY DEF Typed, TypeOK
  <2>2. f.path \in DOMAIN stored /\ stored[f.path] = f.size
    BY DEF ToldOf
  <2> QED
    BY <2>1, <2>2, OthersFiles
<1> QED
  BY <1>1, <1>2, <1>3 DEF ToldOf

\* Going on to the next part leaves what was told true of one part more, when that
\* part is no file and not refused.
LEMMA SkippedTold ==
    ASSUME Typed, NEW r \in Requests, ToldOf(r), at[r] \in DOMAIN form[r].parts,
           Current(r).kind \notin {"file", "reserved"},
           pc[r] \notin {"forward", "rails"}, pc'[r] \notin {"forward", "rails"},
           NextPart(r), UNCHANGED <<form, fields, stored>>
    PROVE  ToldOf(r)'
<1>1. at[r] \in Nat /\ at'[r] = at[r] + 1 /\ DOMAIN form[r].parts = 1..Len(form[r].parts)
      /\ Len(form[r].parts) \in Nat
  BY PartTyped DEF Typed, TypeOK, NextPart
<1>2. Passed(r)' = Passed(r) \cup {at[r]}
  BY <1>1 DEF Passed
<1> QED
  BY <1>2 DEF ToldOf, Current

\* Writing the file of the part a request is at touches no file it has told of.
LEMMA WrittenTold ==
    ASSUME Typed, NEW r \in Requests, ToldOf(r), NEW n \in Nat, Put(Path(r), n),
           pc[r] \notin {"forward", "rails"}, pc'[r] \notin {"forward", "rails"},
           UNCHANGED <<form, fields, at>>
    PROVE  ToldOf(r)'
<1>1. Passed(r)' = Passed(r)
  BY DEF Passed
<1>2. ASSUME NEW f \in fields[r]
      PROVE  f.path \in DOMAIN stored' /\ stored'[f.path] = f.size
  <2>1. f.path \in DOMAIN stored /\ stored[f.path] = f.size /\ f.path[2] \in Passed(r)
    BY DEF ToldOf
  <2>2. f.path[2] # at[r]
    <3>1. f.path[2] \in DOMAIN form[r].parts /\ f.path[2] < at[r]
      BY <2>1 DEF Passed
    <3>2. DOMAIN form[r].parts = 1..Len(form[r].parts) /\ Len(form[r].parts) \in Nat
      BY PartTyped DEF Typed
    <3>3. f.path[2] \in Nat
      BY <3>1, <3>2
    <3> QED
      BY <3>1, <3>3, Counters DEF Typed
  <2>3. f.path # Path(r)
    BY <2>2 DEF Path
  <2> QED
    BY <2>1, <2>3 DEF Put
<1> QED
  BY <1>1, <1>2 DEF ToldOf

LEMMA NextTold ==
    ASSUME Typed, Writing, Told, NEW r \in Requests, Step(r)
    PROVE  Told'
<1>f. form' = form
  BY MovesCounters
<1>t. /\ pc \in [Requests -> Places] /\ fields \in [Requests -> SUBSET [path : Paths, size : Nat]]
      /\ at[r] \in Nat \ {0} /\ at \in [Requests -> Nat \ {0}]
      /\ DOMAIN form[r].parts = 1..Len(form[r].parts) /\ Len(form[r].parts) \in Nat
  BY PartTyped DEF Typed, TypeOK
<1>w. pc[r] \in Telling => ToldOf(r)
  BY ToldByEach
<1>1. ASSUME NEW s \in Requests \ {r}, pc'[s] \in Telling PROVE ToldOf(s)'
  <2>1. pc[s] \in Telling
    BY <1>1, Others
  <2> QED
    BY <2>1, OthersTold, ToldByEach
<1>2. ASSUME pc'[r] \in Telling PROVE ToldOf(r)'
  <2> USE <1>2, <1>t
  <2>1. ASSUME NEW how, End(r, how) PROVE FALSE
    BY <2>1 DEF End, Telling
  <2>2. CASE Start(r)
    <3>1. Goto(r, "parts") /\ UNCHANGED <<fields, at>>
      <4>1. Goto(r, "parts") \/ Goto(r, "collect") \/ Goto(r, "acquire")
        BY <2>2, PartTyped DEF Start, Typed
      <4>2. ~Goto(r, "collect") /\ ~Goto(r, "acquire")
        BY DEF Goto, Telling
      <4>3. UNCHANGED <<fields, at>>
        BY <2>2 DEF Start, handler
      <4> QED
        BY <4>1, <4>2, <4>3
    <3>2. at[r] = 1 /\ fields[r] = {}
      BY <2>2 DEF Typed, Placed, Start
    <3>3. Passed(r)' = {}
      BY <3>1, <3>2, <1>f DEF Passed, Goto
    <3> QED
      BY <3>1, <3>2, <3>3 DEF ToldOf
  <2>3. CASE LookAtField(r)
    <3>1. at[r] \in DOMAIN form[r].parts /\ pc[r] = "parts" /\ UNCHANGED <<form, fields, stored>>
      BY <2>3, PartTyped DEF LookAtField, Typed
    <3>2. CASE Current(r).kind = "nameless" /\ NextPart(r) /\ UNCHANGED pc
      BY <3>1, <3>2, <1>w, SkippedTold DEF Telling
    <3>3. CASE Goto(r, "text") /\ UNCHANGED at
      <4>1. Passed(r)' = Passed(r)
        BY <3>1, <3>3 DEF Passed, Goto
      <4> QED
        BY <3>1, <4>1, <1>w DEF ToldOf, Telling
    <3> QED
      BY <2>3, <2>1, <3>2, <3>3 DEF LookAtField
  <2>4. CASE ReadText(r)
    <3>1. /\ at[r] \in DOMAIN form[r].parts /\ Current(r).kind = "text"
          /\ pc[r] = "text" /\ UNCHANGED <<form, fields, stored>>
      BY <2>4 DEF ReadText, Typed, Placed
    <3>2. NextPart(r) /\ Goto(r, "parts")
      BY <2>4, <2>1 DEF ReadText
    <3>3. pc'[r] = "parts"
      BY <3>2 DEF Goto
    <3> QED
      BY <3>1, <3>2, <3>3, <1>w, SkippedTold DEF Telling
  <2>5. CASE CreateFile(r)
    <3>1. pc[r] = "parts" /\ Goto(r, "chunks") /\ Put(Path(r), 0)
          /\ UNCHANGED <<form, fields, at>>
      BY <2>5, <2>1 DEF CreateFile
    <3>2. pc'[r] = "chunks" /\ 0 \in Nat
      BY <3>1 DEF Goto
    <3> QED
      BY <3>1, <3>2, <1>w, WrittenTold DEF Telling
  <2>6. CASE Chunk(r)
    <3>1. pc[r] = "chunks" /\ UNCHANGED pc /\ Put(Path(r), size[r] + 1)
          /\ UNCHANGED <<form, fields, at>>
      BY <2>6, <2>1 DEF Chunk
    <3>2. size[r] + 1 \in Nat
      BY Counters DEF Typed
    <3> QED
      BY <3>1, <3>2, <1>w, WrittenTold DEF Telling
  <2>7. CASE Sign(r)
    <3> DEFINE new == [path |-> Path(r), size |-> size[r]]
    <3>1. /\ pc[r] = "chunks" /\ size[r] = Current(r).size /\ Goto(r, "parts") /\ NextPart(r)
          /\ fields' = [fields EXCEPT ![r] = @ \cup {new}] /\ UNCHANGED stored
      BY <2>7 DEF Sign
    <3>2. /\ at[r] \in DOMAIN form[r].parts /\ Current(r).kind = "file"
          /\ Path(r) \in DOMAIN stored /\ stored[Path(r)] = size[r]
      BY <3>1 DEF Writing
    <3>3. pc'[r] = "parts" /\ at'[r] = at[r] + 1 /\ fields'[r] = fields[r] \cup {new}
      BY <3>1 DEF Goto, NextPart
    <3>4. Passed(r)' = Passed(r) \cup {at[r]}
      BY <3>1, <3>2, <3>3, <1>f DEF Passed
    <3>5. new.path[1] = r /\ new.path[2] = at[r] /\ new.size = form[r].parts[at[r]].size
          /\ new.path \in DOMAIN stored /\ stored[new.path] = new.size
      BY <3>1, <3>2 DEF Path, Current
    <3>6. ToldOf(r)
      BY <3>1, <1>w DEF Telling
    <3> HIDE DEF new
    <3>7. {f.path[2] : f \in fields[r] \cup {new}} = {f.path[2] : f \in fields[r]} \cup {at[r]}
      BY <3>5
    <3>8. {i \in Passed(r)' : form[r].parts[i].kind = "file"}
            = {i \in Passed(r) : form[r].parts[i].kind = "file"} \cup {at[r]}
      BY <3>2, <3>4 DEF Current
    <3>9. /\ {f.path[2] : f \in fields'[r]} = {i \in Passed(r)' : form'[r].parts[i].kind = "file"}
          /\ \A i \in Passed(r)' : form'[r].parts[i].kind # "reserved"
      BY <3>2, <3>3, <3>4, <3>6, <3>7, <3>8, <1>f DEF ToldOf, Current
    <3>10. \A f \in fields'[r] : /\ f.path[1] = r
                                 /\ f.path \in DOMAIN stored'
                                 /\ stored'[f.path] = f.size
                                 /\ f.size = form'[r].parts[f.path[2]].size
      BY <3>1, <3>3, <3>5, <3>6, <1>f DEF ToldOf
    <3> QED
      BY <3>9, <3>10 DEF ToldOf
  <2>8. CASE Encode(r)
    <3>1. Passed(r)' = DOMAIN form[r].parts /\ Passed(r) = DOMAIN form[r].parts
      BY <2>8, <1>f DEF Encode, Passed, Goto, handler
    <3> QED
      BY <2>8, <3>1, <1>w DEF Encode, ToldOf, Telling, handler
  <2>9. CASE WriteAvatar(r)
    <3> DEFINE new == [path |-> Path(r), size |-> Current(r).size]
    <3>1. /\ DOMAIN form[r].parts = {1} /\ at[r] = 1 /\ Current(r).kind = "file"
          /\ Current(r).size \in Nat
      BY <2>9, AvatarPart DEF WriteAvatar, Typed
    <3>2. Goto(r, "forward") /\ fields'[r] = {new} /\ Put(Path(r), Current(r).size)
      BY <2>9 DEF WriteAvatar
    <3>3. Passed(r)' = {1}
      BY <3>1, <3>2, <1>f DEF Passed, Goto
    <3>4. new.path = Path(r) /\ Path(r)[1] = r /\ Path(r)[2] = 1 /\ new.size = Current(r).size
      BY <3>1 DEF Path
    <3>5. new.path \in DOMAIN stored' /\ stored'[new.path] = new.size
          /\ new.size = form[r].parts[1].size /\ form[r].parts[1].kind = "file"
      BY <3>1, <3>2, <3>4 DEF Put, Current
    <3> HIDE DEF new
    <3> QED
      BY <3>2, <3>3, <3>4, <3>5, <1>f DEF ToldOf
  <2>10. CASE Forward(r)
    <3>1. Passed(r)' = Passed(r) /\ pc[r] = "forward"
      BY <2>10, <1>f DEF Forward, Passed, Goto, handler
    <3> QED
      BY <2>10, <3>1, <1>w DEF Forward, ToldOf, Telling, handler
  <2>11. CASE Break(r) \/ LimitReached(r) \/ Accept(r) \/ Decline(r) \/ FieldTooLong(r)
              \/ Save(r)
    BY <2>11, <2>1 DEF Break, LimitReached, Accept, Decline, FieldTooLong, Save
  <2>12. CASE Collect(r) \/ Acquire(r) \/ ReadField(r) \/ WriteAll(r)
    <3>1. pc'[r] \in {"write", "bytes", "save", "idle"}
      BY <2>12 DEF Collect, Acquire, ReadField, WriteAll, Goto, End
    <3> QED
      BY <3>1 DEF Telling
  <2> QED
    BY <2>2, <2>3, <2>4, <2>5, <2>6, <2>7, <2>8, <2>9, <2>10, <2>11, <2>12 DEF Step
<1> QED
  <2>1. \A s \in Requests : pc'[s] \in Telling => ToldOf(s)'
    BY <1>1, <1>2
  <2> QED
    BY <2>1 DEF Told, ToldOf, Telling

\* While Rails looks, it has been told of every file of the form, whole, under the
\* size it has on disk, and of nothing the client wrote into the form itself
\* (rewrite_multipart, handle_avatar_upload).
THEOREM RailsToldTheTruth == Spec => []ToldOfStoredFiles
<1>1. Init => Told
  BY DEF Init, Told
<1>2. Typed /\ (Writing /\ Whole) /\ Told /\ [Next]_vars => Told'
  <2>1. ASSUME Told, UNCHANGED vars PROVE Told'
    BY <2>1 DEF vars, handler, Told, Passed
  <2> QED
    BY <2>1, NextTold DEF Next
<1>3. Told => ToldOfStoredFiles
  BY DEF Told, ToldOfStoredFiles, Passed
<1> QED
  BY <1>1, <1>2, <1>3, AlwaysTyped, AlwaysWhole, PTL DEF Spec

-----------------------------------------------------------------------------
(* What a direct upload wrote. *)

LEMMA NextKept ==
    ASSUME Typed, Fits, Kept, NEW r \in Requests, Step(r)
    PROVE  Kept'
<1> DEFINE K(s) == pc[s] = "save" \/ outcome[s] = "stored" =>
                      <<s, 0>> \in DOMAIN stored /\ stored[<<s, 0>>] = read[s]
<1>1. ASSUME NEW s \in Requests \ {r} PROVE K(s)'
  <2>1. pc'[s] = pc[s] /\ outcome'[s] = outcome[s] /\ read'[s] = read[s] /\ K(s)
    BY Others DEF Kept
  <2>2. <<s, 0>> \in Paths /\ <<s, 0>>[1] # r
    BY PartTyped DEF Typed
  <2> QED
    BY <2>1, <2>2, OthersFiles
<1>2. K(r)'
  <2>t. /\ pc \in [Requests -> Places] /\ outcome \in [Requests -> Outcomes] /\ K(r)
        /\ pc[r] # "idle" => outcome[r] = "none"
    BY DEF Typed, TypeOK, Placed, Kept
  <2>1. CASE WriteAll(r)
    <3>1. Put(<<r, 0>>, held[r]) /\ held[r] = read[r] /\ read' = read
      BY <2>1 DEF WriteAll, Fits, handler
    <3> QED
      BY <3>1 DEF Put
  <2>2. CASE Save(r)
    BY <2>2, <2>t DEF Save, handler
  <2>3. ASSUME ~WriteAll(r), ~Save(r)
        PROVE  pc'[r] # "save" /\ outcome'[r] # "stored"
    <3> USE <2>t DEF Goto, End
    <3>1. CASE Start(r)
      <4>1. Goto(r, "parts") \/ Goto(r, "collect") \/ Goto(r, "acquire")
        BY <3>1, PartTyped DEF Start, Typed
      <4>2. outcome[r] = "none"
        BY <3>1 DEF Start
      <4> QED
        BY <4>1, <4>2
    <3>2. CASE Break(r)
      BY <3>2 DEF Break
    <3>3. CASE LookAtField(r)
      BY <3>3 DEF LookAtField
    <3>4. CASE ReadText(r)
      BY <3>4 DEF ReadText
    <3>5. CASE CreateFile(r)
      BY <3>5 DEF CreateFile
    <3>6. CASE LimitReached(r)
      BY <3>6 DEF LimitReached
    <3>7. CASE Chunk(r)
      BY <3>7 DEF Chunk
    <3>8. CASE Sign(r)
      BY <3>8 DEF Sign
    <3>9. CASE Encode(r)
      BY <3>9 DEF Encode
    <3>10. CASE Collect(r)
      BY <3>10 DEF Collect
    <3>11. CASE WriteAvatar(r)
      BY <3>11 DEF WriteAvatar
    <3>12. CASE Forward(r)
      BY <3>12 DEF Forward
    <3>13. CASE Accept(r)
      BY <3>13 DEF Accept
    <3>14. CASE Decline(r)
      BY <3>14 DEF Decline
    <3>15. CASE Acquire(r)
      BY <3>15 DEF Acquire
    <3>16. CASE ReadField(r)
      BY <3>16 DEF ReadField
    <3>17. CASE FieldTooLong(r)
      BY <3>17 DEF FieldTooLong
    <3> QED
      BY <3>1, <3>2, <3>3, <3>4, <3>5, <3>6, <3>7, <3>8, <3>9, <3>10, <3>11, <3>12, <3>13,
          <3>14, <3>15, <3>16, <3>17, <2>3 DEF Step
  <2> QED
    BY <2>1, <2>2, <2>3
<1> QED
  BY <1>1, <1>2 DEF Kept

\* The file of a direct upload that succeeded holds exactly the bytes of its own body
\* (handle_upload), whatever an earlier upload left in the buffer it was collected in
\* (MemoryPool::acquire and release).
THEOREM DirectUploadsOwn == Spec => []OwnBytes
<1>1. Init => Kept
  BY DEF Init, Kept
<1>2. Typed /\ (Fits /\ WithinSize) /\ Kept /\ [Next]_vars => Kept'
  <2>1. ASSUME Kept, UNCHANGED vars PROVE Kept'
    BY <2>1 DEF vars, handler, Kept
  <2> QED
    BY <2>1, NextKept DEF Next
<1>3. Kept => OwnBytes
  BY DEF Kept, OwnBytes
<1> QED
  BY <1>1, <1>2, <1>3, AlwaysTyped, AlwaysFits, PTL DEF Spec
=============================================================================
