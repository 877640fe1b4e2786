---------------------------- MODULE HotReadProofs ----------------------------
(* Theorems about HotRead: types, who is given a file, and what the file is,  *)
(* for any tables, any history of the branch and any number of changes.       *)
EXTENDS HotRead, FiniteSetTheorems, SequenceTheorems, TLAPS

LEMMA SelectedProjects ==
    ASSUME NEW rows, NEW external, NEW q
    PROVE  /\ Selected(rows, external, q) \subseteq Projects
           /\ Cardinality(Selected(rows, external, q)) \in Nat
<1>1. Selected(rows, external, q) \subseteq Projects
  BY DEF Selected
<1>2. IsFiniteSet(Selected(rows, external, q))
  BY <1>1, ConstantsOK, FS_Subset
<1> QED
  BY <1>1, <1>2, FS_CardinalityType

LEMMA PageProjects ==
    ASSUME NEW S, S \subseteq Projects, NEW n \in Nat
    PROVE  {<<p, n>> : p \in PageOf(S, n)} \subseteq Projects \X Nat
<1>1. PageOf(S, n) \subseteq Projects
  BY DEF PageOf
<1> QED
  BY <1>1

LEMMA AskTyped ==
    /\ \A p \in Projects : [kind |-> "file", project |-> p, filter |-> NoFilter] \in Asks
    /\ \A f \in Filters : [kind |-> "list", project |-> None, filter |-> f] \in Asks
    /\ [kind |-> "none", project |-> None, filter |-> NoFilter] \in Asks
    /\ \A a \in Asks : a.kind = "file" => a.project \in Projects
  BY DEF Asks

\* An access level is a number, and a row that is there has one.
LEMMA Levels ==
    ASSUME TypeOK, NEW q \in Projects
    PROVE  /\ Level(q) \in Nat
           /\ project[q] # None => /\ project[q].level \in Nat
                                   /\ project[q].visibility \in Nat
  BY ConstantsOK DEF TypeOK, Level, Row

-----------------------------------------------------------------------------
(* Types: the steps of a file's request belong to a request for a file.       *)

Reading == {"project", "access", "commit", "entry", "blob", "last"}
ReadsFile == pc \in Reading => ask.kind = "file"
Typed == TypeOK /\ ReadsFile

LEMMA Watched ==
    ASSUME TypeOK, Watch
    PROVE  stayed' \subseteq Projects /\ entered' \in BOOLEAN /\ left' \in BOOLEAN
<1>1. stayed' \subseteq Projects
  BY DEF Watch, TypeOK
<1>2. entered' \in BOOLEAN /\ left' \in BOOLEAN
  BY Zenon DEF Watch, TypeOK
<1> QED
  BY <1>1, <1>2

LEMMA Observed ==
    ASSUME TypeOK, Observe
    PROVE  /\ changes' \in 0..MaxChanges
           /\ readable' \in BOOLEAN /\ off' \in BOOLEAN /\ stayed' \subseteq Projects
           /\ entered' \in BOOLEAN /\ between' \in BOOLEAN /\ left' \in BOOLEAN
           /\ UNCHANGED <<since, pc, answer, read, client>>
<1>1. changes' \in 0..MaxChanges
  BY ConstantsOK DEF Observe, TypeOK
<1>2. readable' \in BOOLEAN /\ off' \in BOOLEAN
  BY Zenon DEF Observe, TypeOK
<1>3. between' \in BOOLEAN
  BY Zenon DEF Observe, TypeOK
<1>4. stayed' \subseteq Projects /\ entered' \in BOOLEAN /\ left' \in BOOLEAN
  BY Watched DEF Observe
<1> QED
  BY <1>1, <1>2, <1>3, <1>4 DEF Observe

LEMMA InitTyped == Init => Typed
<1> SUFFICES ASSUME Init PROVE Typed
  OBVIOUS
<1>1. ask \in Asks
  BY AskTyped DEF Init
<1>2. 0 \in 0..LastState /\ 0 \in 0..MaxChanges
  BY ConstantsOK
<1>3. shown \subseteq Projects \X Nat /\ stayed \subseteq Projects
  BY DEF Init
<1>4. /\ session \in BOOLEAN /\ user \in Users
      /\ project \in [Projects -> Rows \cup {None}]
      /\ readable \in BOOLEAN /\ off \in BOOLEAN
      /\ entered \in BOOLEAN /\ between \in BOOLEAN /\ left \in BOOLEAN
  BY DEF Init
<1> HIDE DEF Asks
<1> QED
  BY <1>1, <1>2, <1>3, <1>4 DEF Init, Typed, TypeOK, ReadsFile, Reading

LEMMA NextTyped == Typed /\ [Next]_vars => Typed'
<1> SUFFICES ASSUME Typed, [Next]_vars PROVE Typed'
  OBVIOUS
<1> USE DEF Typed, TypeOK, ReadsFile, Reading, Goto, Answer, Inner, world, read, client, history
<1> HIDE DEF Asks
<1>1. CASE Session
  BY <1>1 DEF Session
<1>2. CASE FallBack
  BY <1>2 DEF FallBack
<1>3. CASE Puma
  BY <1>3 DEF Puma
<1>4. CASE LoadProject
  <2>1. ask.project \in Projects
    BY <1>4, AskTyped DEF LoadProject
  <2>2. project[ask.project] \in Rows \cup {None}
    BY <2>1
  <2> QED
    BY <1>4, <2>2 DEF LoadProject
<1>5. CASE LoadAccess
  BY <1>5 DEF LoadAccess
<1>6. CASE FindCommit
  BY <1>6 DEF FindCommit
<1>7. CASE TreeEntry
  BY <1>7 DEF TreeEntry
<1>8. CASE GetBlob
  BY <1>8 DEF GetBlob
<1>9. CASE LastCommit
  BY <1>9 DEF LastCommit
<1>10. CASE LoadUser
  BY <1>10 DEF LoadUser
<1>11. CASE Count
  <2>1. Cardinality(Listed(project, who)) \in Nat
    BY SelectedProjects DEF Listed
  <2> QED
    BY <1>11, <2>1 DEF Count
<1>12. CASE ListPage
  <2>1. {<<q, page>> : q \in PageOf(Listed(project, who), page)} \subseteq Projects \X Nat
    BY SelectedProjects, PageProjects DEF Listed
  <2>2. shown' \subseteq Projects \X Nat
    BY <1>12, <2>1 DEF ListPage
  <2>3. stayed' \subseteq Projects /\ entered' \in BOOLEAN /\ left' \in BOOLEAN
    BY <1>12, Watched DEF ListPage
  <2> QED
    BY <1>12, <2>2, <2>3 DEF ListPage
<1>13. ASSUME NEW q \in Projects, AskFile(q) PROVE Typed'
  <2>1. ask' \in Asks
    BY <1>13, AskTyped DEF AskFile
  <2>2. readable' \in BOOLEAN
    BY <1>13 DEF AskFile, MayRead
  <2>3. shown' \subseteq Projects \X Nat /\ stayed' \subseteq Projects
    BY <1>13 DEF AskFile, Fresh
  <2>4. pc' = "session" /\ answer' = "none" /\ Fresh /\ since' = branch /\ UNCHANGED world
    BY <1>13 DEF AskFile
  <2>5. /\ row' \in Rows \cup {None} /\ who' \in Users \cup {None}
        /\ commit' \in 0..LastState \cup {None} /\ blob' \in 0..LastState \cup {None}
        /\ total' \in Nat /\ page' \in Nat \ {0}
    BY <2>4 DEF Fresh
  <2>6. off' \in BOOLEAN /\ entered' \in BOOLEAN /\ between' \in BOOLEAN /\ left' \in BOOLEAN
    BY <2>4 DEF Fresh
  <2>7. readable' \in BOOLEAN
    BY <2>2, <2>4
  <2> QED
    BY <2>1, <2>2, <2>3, <2>4, <2>5, <2>6, <2>7
<1>14. ASSUME NEW f \in Filters, BeginWalk(f) PROVE Typed'
  <2>1. ask' \in Asks
    BY <1>14, AskTyped DEF BeginWalk
  <2>2. stayed' \subseteq Projects
    BY <1>14, SelectedProjects DEF BeginWalk
  <2>3. shown' \subseteq Projects \X Nat
    BY <1>14 DEF BeginWalk, Fresh
  <2>4. /\ pc' = "session" /\ answer' = "none" /\ Fresh /\ since' = branch
        /\ readable' = FALSE /\ UNCHANGED world
    BY <1>14 DEF BeginWalk
  <2>5. /\ row' \in Rows \cup {None} /\ who' \in Users \cup {None}
        /\ commit' \in 0..LastState \cup {None} /\ blob' \in 0..LastState \cup {None}
        /\ total' \in Nat /\ page' \in Nat \ {0}
    BY <2>4 DEF Fresh
  <2>6. off' \in BOOLEAN /\ entered' \in BOOLEAN /\ between' \in BOOLEAN /\ left' \in BOOLEAN
    BY <2>4 DEF Fresh
  <2>7. readable' \in BOOLEAN
    BY <2>2, <2>4
  <2> QED
    BY <2>1, <2>2, <2>3, <2>4, <2>5, <2>6, <2>7
<1>15. CASE NextPage
  BY <1>15 DEF NextPage
<1>16. ASSUME NEW q \in Projects, NEW r \in Rows \cup {None}, ChangeProject(q, r) PROVE Typed'
  <2>1. /\ changes' \in 0..MaxChanges
        /\ readable' \in BOOLEAN /\ off' \in BOOLEAN /\ stayed' \subseteq Projects
        /\ entered' \in BOOLEAN /\ between' \in BOOLEAN /\ left' \in BOOLEAN
        /\ UNCHANGED <<since, pc, answer, read, client>>
    BY <1>16, ConstantsOK, Observed DEF ChangeProject
  <2> QED
    BY <1>16, <2>1 DEF ChangeProject
<1>17. ASSUME NEW u \in Users, ChangeUser(u) PROVE Typed'
  <2>1. /\ changes' \in 0..MaxChanges
        /\ readable' \in BOOLEAN /\ off' \in BOOLEAN /\ stayed' \subseteq Projects
        /\ entered' \in BOOLEAN /\ between' \in BOOLEAN /\ left' \in BOOLEAN
        /\ UNCHANGED <<since, pc, answer, read, client>>
    BY <1>17, ConstantsOK, Observed DEF ChangeUser
  <2> QED
    BY <1>17, <2>1 DEF ChangeUser
<1>18. CASE LogInOrOut
  <2>1. /\ changes' \in 0..MaxChanges
        /\ readable' \in BOOLEAN /\ off' \in BOOLEAN /\ stayed' \subseteq Projects
        /\ entered' \in BOOLEAN /\ between' \in BOOLEAN /\ left' \in BOOLEAN
        /\ UNCHANGED <<since, pc, answer, read, client>>
    BY <1>18, ConstantsOK, Observed DEF LogInOrOut
  <2> QED
    BY <1>18, <2>1 DEF LogInOrOut
<1>19. CASE MoveBranch
  <2>1. /\ changes' \in 0..MaxChanges
        /\ readable' \in BOOLEAN /\ off' \in BOOLEAN /\ stayed' \subseteq Projects
        /\ entered' \in BOOLEAN /\ between' \in BOOLEAN /\ left' \in BOOLEAN
        /\ UNCHANGED <<since, pc, answer, read, client>>
    BY <1>19, ConstantsOK, Observed DEF MoveBranch
  <2>2. branch' \in 0..LastState
    BY <1>19, ConstantsOK DEF MoveBranch
  <2> QED
    BY <1>19, <2>1, <2>2 DEF MoveBranch
<1>20. CASE UNCHANGED vars
  BY <1>20 DEF vars
<1> QED
  BY <1>1, <1>2, <1>3, <1>4, <1>5, <1>6, <1>7, <1>8, <1>9, <1>10, <1>11, <1>12, <1>13, <1>14, <1>15, <1>16, <1>17, <1>18, <1>19, <1>20 DEF Next, Step

THEOREM TypeCorrect == Spec => []TypeOK
<1>1. Spec => []Typed
  BY InitTyped, NextTyped, PTL DEF Spec
<1> QED
  BY <1>1, PTL DEF Typed

-----------------------------------------------------------------------------
(* Who is given a file.  The history knows of every moment at which the user  *)
(* could read the code; the row read is one of a repository that was on, and  *)
(* is on still unless the history says otherwise.                             *)

RepositoryOn == \/ off
                \/ project[ask.project] = None
                \/ ~RepositoryDisabled(project[ask.project])

Moments ==
    /\ ask.kind = "file" /\ MayRead(project[ask.project]) => readable
    /\ pc = "access" =>
         /\ row \in Rows
         /\ CanReadCode(row.visibility, 0) => readable
         /\ RepositoryOn
    /\ pc \in {"commit", "entry", "blob", "last"} => readable \/ off
    /\ GivenToReaders

LEMMA InitMoments == Init => Moments
  BY DEF Init, Moments, GivenToReaders

\* Whoever may read by a row read while the repository was on and by a level
\* read later could read the code at one of the two moments.
LEMMA LetIn ==
    ASSUME Typed, Moments, pc = "access",
           CanReadCode(row.visibility, Level(ask.project))
    PROVE  readable \/ off
<1>1. ask.kind = "file" /\ ask.project \in Projects
  BY AskTyped DEF Typed, TypeOK, ReadsFile, Reading
<1>2. CASE row.visibility >= VISIBILITY_INTERNAL
  BY <1>2 DEF Moments, CanReadCode
<1>3. CASE ~(row.visibility >= VISIBILITY_INTERNAL)
  <2>1. Level(ask.project) >= ACCESS_REPORTER
    BY <1>3 DEF CanReadCode
  <2>2. project[ask.project] # None /\ project[ask.project].level >= ACCESS_REPORTER
    BY <2>1 DEF Level, ACCESS_REPORTER
  <2>3. CASE RepositoryDisabled(project[ask.project])
    BY <2>2, <2>3 DEF Moments, RepositoryOn
  <2>4. CASE ~RepositoryDisabled(project[ask.project])
    <3>1. MayRead(project[ask.project])
      BY <2>2, <2>4 DEF MayRead, CanReadCode
    <3> QED
      BY <3>1, <1>1 DEF Moments
  <2> QED
    BY <2>3, <2>4
<1> QED
  BY <1>2, <1>3

\* A change is one more moment, which the history takes in.
LEMMA ObserveMoments ==
    ASSUME Typed, Moments, Observe
    PROVE  Moments'
<1>1. UNCHANGED <<pc, answer, ask, row>>
  BY DEF Observe, read, client
<1>2. /\ ask.kind = "file" /\ MayRead(project'[ask.project]) => readable'
      /\ readable => readable'
  BY DEF Observe
<1>3. /\ /\ ask.kind = "file" /\ row # None /\ project'[ask.project] # None
         /\ RepositoryDisabled(project'[ask.project])
         => off'
      /\ off => off'
  BY DEF Observe
<1>4. pc = "access" => ask.kind = "file" /\ row # None
  BY ConstantsOK DEF Moments, Typed, ReadsFile, Reading
<1>5. pc = "access" => RepositoryOn'
  BY <1>1, <1>3, <1>4 DEF RepositoryOn
<1> QED
  BY <1>1, <1>2, <1>3, <1>5 DEF Moments, GivenToReaders

LEMMA NextMoments == Typed /\ Moments /\ [Next]_vars => Moments'
<1> SUFFICES ASSUME Typed, Moments, [Next]_vars PROVE Moments'
  OBVIOUS
<1> USE DEF Moments, GivenToReaders, RepositoryOn, Goto, Answer, Inner, world, read, client, history
<1> HIDE DEF Asks
<1>1. CASE Session
  BY <1>1 DEF Session
<1>2. CASE FallBack
  BY <1>2 DEF FallBack
<1>3. CASE Puma
  BY <1>3 DEF Puma
<1>4. CASE LoadProject
  <2>1. /\ ask.kind = "file" /\ ask.project \in Projects
        /\ UNCHANGED <<project, ask, readable, off>>
    BY <1>4, AskTyped DEF LoadProject, Typed, TypeOK, ReadsFile, Reading
  <2>2. CASE pc' = "access"
    <3>1. /\ row' = project[ask.project] /\ project[ask.project] # None
          /\ ~RepositoryDisabled(project[ask.project])
          /\ UNCHANGED answer
      BY <1>4, <2>2 DEF LoadProject
    <3>2. row' \in Rows
      BY <2>1, <3>1 DEF Typed, TypeOK
    <3>3. row'.visibility \in Nat /\ row'.level \in Nat
      BY <2>1, <3>1, Levels DEF Typed
    <3>4. ASSUME CanReadCode(row'.visibility, 0) PROVE MayRead(project[ask.project])
      BY <3>1, <3>3, <3>4 DEF MayRead, CanReadCode, VISIBILITY_INTERNAL, ACCESS_REPORTER
    <3>5. CanReadCode(row'.visibility, 0) => readable'
      BY <2>1, <3>4
    <3>6. RepositoryOn'
      BY <2>1, <3>1
    <3> QED
      BY <2>1, <2>2, <3>1, <3>2, <3>5, <3>6
  <2>3. CASE pc' = "idle" /\ answer' = "missing"
    BY <2>1, <2>3
  <2> QED
    BY <1>4, <2>2, <2>3 DEF LoadProject
<1>5. CASE LoadAccess
  <2>1. CanReadCode(row.visibility, Level(ask.project)) => readable \/ off
    BY <1>5, LetIn DEF LoadAccess
  <2> QED
    BY <1>5, <2>1 DEF LoadAccess
<1>6. CASE FindCommit
  BY <1>6 DEF FindCommit
<1>7. CASE TreeEntry
  BY <1>7 DEF TreeEntry
<1>8. CASE GetBlob
  BY <1>8 DEF GetBlob
<1>9. CASE LastCommit
  BY <1>9 DEF LastCommit
<1>10. CASE LoadUser
  BY <1>10 DEF LoadUser
<1>11. CASE Count
  BY <1>11 DEF Count
<1>12. CASE ListPage
  BY <1>12 DEF ListPage
<1>13. ASSUME NEW q \in Projects, AskFile(q) PROVE Moments'
  BY <1>13 DEF AskFile
<1>14. ASSUME NEW f \in Filters, BeginWalk(f) PROVE Moments'
  BY <1>14 DEF BeginWalk
<1>15. CASE NextPage
  BY <1>15 DEF NextPage
<1>16. ASSUME NEW q \in Projects, NEW r \in Rows \cup {None}, ChangeProject(q, r) PROVE Moments'
  <2>1. Observe
    BY <1>16 DEF ChangeProject
  <2> QED
    BY <2>1, ObserveMoments
<1>17. ASSUME NEW u \in Users, ChangeUser(u) PROVE Moments'
  <2>1. Observe
    BY <1>17 DEF ChangeUser
  <2> QED
    BY <2>1, ObserveMoments
<1>18. CASE LogInOrOut
  <2>1. Observe
    BY <1>18 DEF LogInOrOut
  <2> QED
    BY <2>1, ObserveMoments
<1>19. CASE MoveBranch
  <2>1. Observe
    BY <1>19 DEF MoveBranch
  <2> QED
    BY <2>1, ObserveMoments
<1>20. CASE UNCHANGED vars
  BY <1>20 DEF vars
<1> QED
  BY <1>1, <1>2, <1>3, <1>4, <1>5, <1>6, <1>7, <1>8, <1>9, <1>10, <1>11, <1>12, <1>13, <1>14, <1>15, <1>16, <1>17, <1>18, <1>19, <1>20 DEF Next, Step

\* A file is given only to a user who could read the code at some moment of the
\* request, or whose repository was switched off after its row was read.
THEOREM FilesGivenToReaders == Spec => []GivenToReaders
<1>1. Spec => [](Typed /\ Moments)
  BY InitTyped, NextTyped, InitMoments, NextMoments, PTL DEF Spec
<1> QED
  BY <1>1, PTL DEF Moments

-----------------------------------------------------------------------------
(* What the file is: each call's answer is the branch as it is at the call,   *)
(* and the branch only moves on.                                              *)

Ordered ==
    /\ since <= branch
    /\ pc \in {"entry", "blob", "last"} =>
         /\ commit \in Nat /\ since <= commit /\ commit <= branch
         /\ Entries[commit] # "gone"
    /\ pc \in {"blob", "last"} =>
         /\ blob \in Nat /\ commit <= blob /\ blob <= branch
         /\ Entries[blob] \in {"whole", "short"}
    /\ answer = "file" => commit \in Nat /\ blob \in Nat
    /\ pc \in Inner => answer = "none"
    /\ OneBranch

LEMMA InitOrdered == Init => Ordered
  BY DEF Init, Ordered, OneBranch

LEMMA NextOrdered == Typed /\ Ordered /\ [Next]_vars => Ordered'
<1> SUFFICES ASSUME Typed, Ordered, [Next]_vars PROVE Ordered'
  OBVIOUS
<1>0. branch \in Nat /\ since \in Nat
  BY ConstantsOK DEF Typed, TypeOK
<1> USE <1>0 DEF Ordered, OneBranch, Goto, Answer, Inner, world, read, client, history
<1> HIDE DEF Asks
<1>1. CASE Session
  BY <1>1 DEF Session
<1>2. CASE FallBack
  BY <1>2 DEF FallBack
<1>3. CASE Puma
  BY <1>3 DEF Puma
<1>4. CASE LoadProject
  BY <1>4 DEF LoadProject
<1>5. CASE LoadAccess
  BY <1>5 DEF LoadAccess
<1>6. CASE FindCommit
  BY <1>6 DEF FindCommit
<1>7. CASE TreeEntry
  BY <1>7 DEF TreeEntry
<1>8. CASE GetBlob
  BY <1>8 DEF GetBlob
<1>9. CASE LastCommit
  BY <1>9 DEF LastCommit
<1>10. CASE LoadUser
  BY <1>10 DEF LoadUser
<1>11. CASE Count
  BY <1>11 DEF Count
<1>12. CASE ListPage
  BY <1>12 DEF ListPage
<1>13. ASSUME NEW q \in Projects, AskFile(q) PROVE Ordered'
  BY <1>13 DEF AskFile
<1>14. ASSUME NEW f \in Filters, BeginWalk(f) PROVE Ordered'
  BY <1>14 DEF BeginWalk
<1>15. CASE NextPage
  BY <1>15 DEF NextPage
<1>16. ASSUME NEW q \in Projects, NEW r \in Rows \cup {None}, ChangeProject(q, r) PROVE Ordered'
  BY <1>16 DEF ChangeProject, Observe
<1>17. ASSUME NEW u \in Users, ChangeUser(u) PROVE Ordered'
  BY <1>17 DEF ChangeUser, Observe
<1>18. CASE LogInOrOut
  BY <1>18 DEF LogInOrOut, Observe
<1>19. CASE MoveBranch
  BY <1>19 DEF MoveBranch, Observe
<1>20. CASE UNCHANGED vars
  BY <1>20 DEF vars
<1> QED
  BY <1>1, <1>2, <1>3, <1>4, <1>5, <1>6, <1>7, <1>8, <1>9, <1>10, <1>11, <1>12, <1>13, <1>14, <1>15, <1>16, <1>17, <1>18, <1>19, <1>20 DEF Next, Step

\* Commit and contents of a file are states the branch was in during the
\* request, the commit's not after the contents'.
THEOREM FilesOfOneBranch == Spec => []OneBranch
<1>1. Spec => [](Typed /\ Ordered)
  BY InitTyped, NextTyped, InitOrdered, NextOrdered, PTL DEF Spec
<1> QED
  BY <1>1, PTL DEF Ordered

-----------------------------------------------------------------------------
(* The list: of projects not dropped, the SQL selects what the tested rule    *)
(* selects.                                                                   *)

FilterTyped == NoFilter \in Filter /\ Filters \subseteq Filter

LEMMA FiltersTyped == FilterTyped /\ \A a \in Asks : a.filter \in Filter
<1>1. FilterTyped
  BY ConstantsOK DEF FilterTyped, NoFilter, Filter
<1> QED
  BY <1>1 DEF Asks, FilterTyped

\* The parsed query's predicate, with owned made part of explicit and of the access
\* level, is the rule of matches_list_filters, row by row.
LEMMA SqlIsTheRule ==
    ASSUME NEW r \in Row, NEW external, NEW f \in Filter
    PROVE  /\ VisibilityPredicate(r, external, ParsedQuery(f))
           /\ ParsedQuery(f).archived \in {None, r.archived}
           /\ ParsedQuery(f).visibility \in {None, r.visibility}
           <=> MatchesListFilters(r, external, f)
<1>1. /\ r.level \in Nat /\ r.visibility \in Nat /\ None \notin Nat
      /\ f.owned \in BOOLEAN /\ f.membership \in BOOLEAN /\ f.min \in Nat \cup {None}
  BY ConstantsOK DEF Row, Filter
<1> DEFINE given == IF f.min = None THEN ACCESS_GUEST ELSE f.min
           wanted == IF f.owned /\ given < ACCESS_OWNER THEN ACCESS_OWNER ELSE given
           named == f.owned \/ f.membership \/ f.min # None
<1>2. given \in Nat /\ wanted \in Nat
  BY <1>1 DEF ACCESS_GUEST, ACCESS_OWNER
<1>3. VisibilityPredicate(r, external, ParsedQuery(f)) <=>
        \/ r.level >= wanted
        \/ ~named /\ r.visibility >= (IF external THEN VISIBILITY_PUBLIC ELSE VISIBILITY_INTERNAL)
  BY <1>1 DEF VisibilityPredicate, ParsedQuery
<1>4. ParsedQuery(f).visibility = f.visibility /\ ParsedQuery(f).archived = f.archived
  BY DEF ParsedQuery
<1>5. MatchesListFilters(r, external, f) <=>
        /\ f.archived \in {None, r.archived}
        /\ f.visibility \in {None, r.visibility}
        /\ \/ named /\ r.level >= wanted
           \/ ~named /\ CanSeeProject(r.visibility, r.level, external)
  BY DEF MatchesListFilters
<1>6. ~named => wanted = ACCESS_GUEST
  BY <1>1 DEF ACCESS_GUEST
<1>7. CanSeeProject(r.visibility, r.level, external) <=>
        \/ r.level >= ACCESS_GUEST
        \/ r.visibility >= (IF external THEN VISIBILITY_PUBLIC ELSE VISIBILITY_INTERNAL)
  BY <1>1 DEF CanSeeProject, VISIBILITY_PUBLIC, VISIBILITY_INTERNAL
<1> HIDE DEF given, wanted, named
<1> QED
  BY <1>3, <1>4, <1>5, <1>6, <1>7

\* Whatever page a request is given is cut from exactly those projects that are
\* neither pending deletion nor hidden and that the rule of matches_list_filters
\* selects, by the rows as they are then and the user as the request read it (visibility_predicate, load_visible_projects).
THEOREM PagesFollowTheRule == Spec => ListedByTheRule
<1>1. ASSUME Typed, [Next]_vars, answer' = "page", answer # "page"
      PROVE  shown' = shown \cup {<<p, page>> : p \in PageOf(SelectedByTheRule, page)}
  <2>1. ListPage
    BY <1>1 DEF Next, Step, vars, Session, FallBack, Puma, LoadProject, LoadAccess, FindCommit,
       TreeEntry, GetBlob, LastCommit, LoadUser, Count, AskFile, BeginWalk, NextPage,
       ChangeProject, ChangeUser, LogInOrOut, MoveBranch, Observe, Goto, Answer
  <2>2. ASSUME NEW p \in Projects, project[p] # None
        PROVE  /\ VisibilityPredicate(project[p], who.external, ParsedQuery(ask.filter))
               /\ ParsedQuery(ask.filter).archived \in {None, project[p].archived}
               /\ ParsedQuery(ask.filter).visibility \in {None, project[p].visibility}
               <=> MatchesListFilters(project[p], who.external, ask.filter)
    <3>1. project[p] \in Row /\ ask.filter \in Filter
      BY <1>1, <2>2, ConstantsOK, FiltersTyped DEF Typed, TypeOK
    <3> QED
      BY <3>1, SqlIsTheRule
  <2>3. Listed(project, who) = SelectedByTheRule
    BY <2>2 DEF Listed, Selected, SelectedByTheRule
  <2> QED
    BY <2>1, <2>3 DEF ListPage
<1>2. Typed /\ [Next]_vars =>
        [ answer' = "page" /\ answer # "page" =>
            shown' = shown \cup {<<p, page>> : p \in PageOf(SelectedByTheRule, page)} ]_vars
  BY <1>1
<1> QED
  BY <1>2, InitTyped, NextTyped, PTL DEF Spec, ListedByTheRule

-----------------------------------------------------------------------------
(* The walk: pages of requests made one after the other fit together.         *)

LEMMA Products ==
    ASSUME NEW c \in Nat, NEW a \in Nat, NEW b \in Nat, a <= b
    PROVE  c * a \in Nat /\ c * b \in Nat /\ c * a <= c * b
<1>1. b - a \in Nat /\ c * (b - a) \in Nat /\ c * a \in Nat /\ c * b \in Nat
  OBVIOUS
<1>2. c * b = c * a + c * (b - a)
  OBVIOUS
<1> QED
  BY <1>1, <1>2

\* TotalPages pages hold everything that was counted.
LEMMA PagesCover ==
    ASSUME NEW n \in Nat, NEW m \in Nat, TotalPages(n) <= m
    PROVE  n <= PerPage * m
<1> DEFINE x == n + PerPage - 1
           y == x \div PerPage
<1>1. PerPage \in Nat /\ PerPage > 0 /\ x \in Nat
  BY ConstantsOK
<1>2. y \in Nat /\ x < PerPage * y + PerPage
  BY <1>1
<1>3. y <= m
  BY DEF TotalPages
<1>4. PerPage * y <= PerPage * m /\ PerPage * y \in Nat /\ PerPage * m \in Nat
  BY <1>1, <1>2, <1>3, Products
<1> QED
  BY <1>1, <1>2, <1>4

RankIn(S, p) == Cardinality({q \in S : q >= p})

\* A project does not rank lower in a smaller list.
LEMMA Ranks ==
    ASSUME NEW T, T \subseteq Projects, NEW S, S \subseteq T, NEW p
    PROVE  /\ RankIn(S, p) \in Nat /\ RankIn(T, p) \in Nat /\ Cardinality(T) \in Nat
           /\ Cardinality(S) \in Nat
           /\ RankIn(S, p) <= RankIn(T, p) /\ RankIn(T, p) <= Cardinality(T)
           /\ Cardinality(S) <= Cardinality(T)
           /\ p \in T => RankIn(T, p) >= 1
<1>1. IsFiniteSet(T)
  BY ConstantsOK, FS_Subset
<1>2. {q \in T : q >= p} \subseteq T /\ {q \in S : q >= p} \subseteq {q \in T : q >= p}
  OBVIOUS
<1>3. IsFiniteSet({q \in T : q >= p}) /\ RankIn(T, p) <= Cardinality(T)
  BY <1>1, <1>2, FS_Subset DEF RankIn
<1>4. IsFiniteSet({q \in S : q >= p}) /\ RankIn(S, p) <= RankIn(T, p)
  BY <1>2, <1>3, FS_Subset DEF RankIn
<1>5. IsFiniteSet(S) /\ Cardinality(S) <= Cardinality(T)
  BY <1>1, FS_Subset
<1>6. ASSUME p \in T PROVE RankIn(T, p) >= 1
  <2>1. {p} \subseteq {q \in T : q >= p}
    BY <1>6, ConstantsOK
  <2>2. Cardinality({p}) = 1
    BY FS_Singleton
  <2> QED
    BY <1>3, <2>1, <2>2, FS_Subset DEF RankIn
<1> QED
  BY <1>1, <1>3, <1>4, <1>5, <1>6, FS_CardinalityType DEF RankIn

LEMMA ViewTyped ==
    /\ View \subseteq Projects /\ View' \subseteq Projects
    /\ \A p : Rank(p) = RankIn(View, p)
    /\ \A p : Rank(p)' = RankIn(View', p)
<1>1. \A rows, u, f : Selected(rows, u.external, ParsedQuery(f)) \subseteq Projects
  BY DEF Selected
<1> QED
  BY <1>1 DEF View, Listed, Rank, RankIn

\* Every step but a page and a change leaves the list of a walk as it is, begins a
\* new walk, or ends it.
Keeps == /\ Walking /\ View' = View /\ Done' = Done
         /\ UNCHANGED <<shown, stayed, entered, left, between>>
         /\ pc' = "page" => Cardinality(View) <= total'
         /\ pc' # "idle"

Begins == /\ shown' = {} /\ stayed' \subseteq View' /\ entered' = FALSE
          /\ pc' = "session" /\ page' = 1

Ends == ~Walking' /\ pc' # "page" /\ UNCHANGED <<shown, entered>>

LEMMA WalkMoves ==
    ASSUME Typed, PagesFit, [Next]_vars
    PROVE  \/ Keeps \/ Begins \/ Ends \/ ListPage \/ Observe \/ UNCHANGED vars
<1> USE DEF Goto, Answer, world, read, client, history
<1>n. page \in Nat \ {0}
  BY DEF Typed, TypeOK
<1>1. CASE Session
  <2>1. CASE pc' = "user"
    BY <1>1, <2>1 DEF Session, Keeps, Walking, View, Listed, Done
  <2>2. CASE pc' \in {"project", "puma"}
    BY <1>1, <2>2 DEF Session, Ends, Walking
  <2> QED
    BY <1>1, <2>1, <2>2 DEF Session
<1>2. CASE FallBack \/ Puma \/ LoadProject \/ LoadAccess \/ FindCommit \/ TreeEntry
           \/ GetBlob \/ LastCommit
  <2>1. pc' \in {"puma", "access", "commit", "entry", "blob", "last"}
        \/ (pc' = "idle" /\ answer' \in {"puma", "missing", "file"})
    BY <1>2 DEF FallBack, Puma, LoadProject, LoadAccess, FindCommit, TreeEntry, GetBlob, LastCommit
  <2>2. UNCHANGED <<shown, entered>>
    BY <1>2 DEF FallBack, Puma, LoadProject, LoadAccess, FindCommit, TreeEntry, GetBlob, LastCommit
  <2> QED
    BY <2>1, <2>2 DEF Ends, Walking
<1>3. CASE LoadUser
  <2>1. CASE pc' = "count"
    BY <1>3, <2>1 DEF LoadUser, Keeps, Walking, View, Listed, Done
  <2>2. CASE pc' = "puma"
    BY <1>3, <2>2 DEF LoadUser, Ends, Walking
  <2> QED
    BY <1>3, <2>1, <2>2 DEF LoadUser
<1>4. CASE Count
  <2>1. View' = View /\ total' = Cardinality(View)
    BY <1>4 DEF Count, View, Listed
  <2>2. Cardinality(View) <= Cardinality(View)
    BY ViewTyped, Ranks
  <2> QED
    BY <1>4, <2>1, <2>2 DEF Count, Keeps, Walking, Done
<1>5. CASE NextPage
  <2>1. page' - 1 = page
    BY <1>5, <1>n DEF NextPage
  <2> QED
    BY <1>5, <2>1 DEF NextPage, HasNext, Keeps, Walking, View, Listed, Done
<1>6. ASSUME NEW q \in Projects, AskFile(q) PROVE Begins
  BY <1>6 DEF AskFile, Begins, Fresh
<1>7. ASSUME NEW f \in Filters, BeginWalk(f) PROVE Begins
  <2>1. View' = Selected(project, user.external, ParsedQuery(f))
    BY <1>7 DEF BeginWalk, View, Listed
  <2> QED
    BY <1>7, <2>1 DEF BeginWalk, Begins, Fresh
<1> QED
  BY <1>1, <1>2, <1>3, <1>4, <1>5, <1>6, <1>7
  DEF Next, Step, ChangeProject, ChangeUser, LogInOrOut, MoveBranch

\* What a page shows, by the ranks in the list it is cut from.
LEMMA PageShown ==
    ASSUME Typed, PagesFit, ListPage
    PROVE  /\ \A s \in shown' : \/ s \in shown
                               \/ /\ s = <<s[1], page>> /\ s[1] \in View
                                  /\ PerPage * (page - 1) < Rank(s[1])
                                  /\ Rank(s[1]) <= PerPage * page
           /\ shown \subseteq shown'
           /\ \A p \in View : PerPage * (page - 1) < Rank(p) /\ Rank(p) <= PerPage * page
                             => p \in Seen'
           /\ Done = page - 1 /\ Done' = page /\ page \in Nat \ {0}
           /\ Walking
<1>1. /\ View = Listed(project, who)
      /\ shown' = shown \cup {<<p, page>> : p \in PageOf(View, page)}
  BY DEF ListPage, View
<1>2. \A p : p \in PageOf(View, page) <=>
                p \in View /\ PerPage * (page - 1) < Rank(p) /\ Rank(p) <= PerPage * page
  BY DEF PageOf, Rank
<1>3. \A p \in PageOf(View, page) : p \in Seen'
  <2> TAKE p \in PageOf(View, page)
  <2>1. <<p, page>> \in shown' /\ <<p, page>>[1] = p
    BY <1>1
  <2> QED
    BY <2>1 DEF Seen
<1>4. \A s \in shown' : s \in shown \/ (s = <<s[1], page>> /\ s[1] \in PageOf(View, page))
  BY <1>1
<1>5. /\ Done = page - 1 /\ Done' = page /\ page \in Nat \ {0} /\ Walking
  BY DEF ListPage, Done, Answer, Walking, Typed, TypeOK
<1> QED
  BY <1>1, <1>2, <1>3, <1>4, <1>5

\* The ranks in a list that lost none, or gained none.
LEMMA Growing ==
    ASSUME View \subseteq View', NEW p
    PROVE  Rank(p) \in Nat /\ Rank(p)' \in Nat /\ Rank(p) <= Rank(p)'
  BY ViewTyped, Ranks

LEMMA Shrinking ==
    ASSUME View' \subseteq View, NEW p
    PROVE  /\ Rank(p) \in Nat /\ Rank(p)' \in Nat /\ Rank(p)' <= Rank(p)
           /\ Cardinality(View') <= Cardinality(View)
           /\ Cardinality(View') \in Nat /\ Cardinality(View) \in Nat
  BY ViewTyped, Ranks

\* PagesFit in its parts.
Shown == /\ \A s \in shown : s[2] \in 1..Done
         /\ ~entered => \A s \in shown : Rank(s[1]) <= PerPage * s[2]
Stayed == /\ stayed \subseteq View
          /\ ~left => \A p \in stayed : Rank(p) <= PerPage * Done => p \in Seen
Counted == pc = "page" /\ ~between => Cardinality(View) <= total

LEMMA PagesFitParts ==
    PagesFit <=> /\ Walking => Shown /\ Stayed
                 /\ Counted
                 /\ pc \in {"count", "page"} => who # None
  BY DEF PagesFit, Shown, Stayed, Counted

LEMMA NextCounted ==
    ASSUME Typed, PagesFit, [Next]_vars
    PROVE  Counted' /\ (pc' \in {"count", "page"} => who' # None)
<1> USE DEF Goto, Answer, world, read, client, history
<1>1. CASE Observe
  <2>1. pc' = pc /\ total' = total /\ who' = who
    BY <1>1 DEF Observe
  <2>2. between' = (between \/ (pc = "page" /\ ~(View' \subseteq View)))
    BY <1>1 DEF Observe
  <2>3. total \in Nat
    BY DEF Typed, TypeOK
  <2>4. Counted'
    <3>1. SUFFICES ASSUME pc = "page", ~between' PROVE Cardinality(View') <= total
      BY <2>1 DEF Counted
    <3>2. View' \subseteq View /\ ~between
      BY <2>2, <3>1
    <3> QED
      BY <2>3, <3>1, <3>2, Shrinking DEF PagesFit
  <2> QED
    BY <2>1, <2>4 DEF PagesFit
<1>2. CASE UNCHANGED vars
  <2>1. View' = View
    BY <1>2 DEF vars, View, Listed
  <2> QED
    BY <1>2, <2>1 DEF vars, PagesFit, Counted
<1>3. CASE Next /\ ~Observe /\ pc' \in {"count", "page"}
  <2>1. LoadUser \/ Count
    BY <1>3 DEF Next, Step, Session, FallBack, Puma, LoadProject, LoadAccess, FindCommit,
       TreeEntry, GetBlob, LastCommit, ListPage, AskFile, BeginWalk, NextPage, ChangeProject,
       ChangeUser, LogInOrOut, MoveBranch
  <2>2. who' # None
    BY <1>3, <2>1, ConstantsOK DEF LoadUser, Count, PagesFit, Typed, TypeOK
  <2>3. CASE Count
    <3>1. View' = View /\ total' = Cardinality(View)
      BY <2>3 DEF Count, View, Listed
    <3>2. Cardinality(View) <= Cardinality(View)
      BY ViewTyped, Ranks
    <3> QED
      BY <2>2, <3>1, <3>2 DEF Counted
  <2>4. CASE LoadUser
    BY <1>3, <2>2, <2>4 DEF LoadUser, Counted
  <2> QED
    BY <2>1, <2>3, <2>4
<1>4. CASE pc' \notin {"count", "page"}
  BY <1>4 DEF Counted
<1> QED
  BY <1>1, <1>2, <1>3, <1>4

LEMMA DoneTyped ==
    ASSUME Typed
    PROVE  Done \in Nat /\ page \in Nat \ {0} /\ shown \subseteq Projects \X Nat
  BY DEF Typed, TypeOK, Done

LEMMA NextShown ==
    ASSUME Typed, PagesFit, [Next]_vars, Walking'
    PROVE  Shown'
<1>n. Done \in Nat /\ page \in Nat \ {0}
  BY DoneTyped
<1>1. CASE Keeps
  BY <1>1, PagesFitParts, ViewTyped DEF Keeps, Shown
<1>2. CASE Begins
  BY <1>2 DEF Begins, Shown
<1>3. CASE ListPage
  <2>1. Shown /\ Done = page - 1 /\ Done' = page
    BY <1>3, PageShown, PagesFitParts
  <2>2. ~entered' => ~entered /\ View' \subseteq View
    BY <1>3 DEF ListPage, Watch
  <2>3. ASSUME NEW s \in shown'
        PROVE  /\ s[2] \in 1..page
               /\ ~entered' => Rank(s[1]) <= PerPage * s[2]
    <3>1. CASE s \in shown
      BY <1>n, <2>1, <2>2, <3>1 DEF Shown
    <3>2. CASE s = <<s[1], page>> /\ Rank(s[1]) <= PerPage * page
      <4>1. s[2] = page
        BY <3>2
      <4> QED
        BY <1>n, <3>2, <4>1
    <3> QED
      BY <1>3, <2>3, <3>1, <3>2, PageShown
  <2>4. ASSUME ~entered', NEW s \in shown' PROVE Rank(s[1])' <= PerPage * s[2]
    <3>1. Rank(s[1]) <= PerPage * s[2] /\ s[2] \in Nat
      BY <1>n, <2>3, <2>4
    <3>2. Rank(s[1]) \in Nat /\ Rank(s[1])' \in Nat /\ Rank(s[1])' <= Rank(s[1])
      BY <2>2, <2>4, Shrinking
    <3>3. PerPage * s[2] \in Nat
      BY <3>1, ConstantsOK
    <3> QED
      BY <3>1, <3>2, <3>3
  <2> QED
    BY <2>1, <2>3, <2>4, ViewTyped DEF Shown
<1>4. CASE Observe
  <2>1. UNCHANGED <<pc, answer, page, shown>> /\ Walking /\ Done' = Done
    BY <1>4 DEF Observe, client, Walking, Done
  <2>2. ~entered' => ~entered /\ View' \subseteq View
    BY <1>4 DEF Observe, Watch
  <2>3. Shown
    BY <2>1, PagesFitParts
  <2>4. ASSUME ~entered', NEW s \in shown' PROVE Rank(s[1])' <= PerPage * s[2]
    <3>1. Rank(s[1]) <= PerPage * s[2] /\ s[2] \in Nat
      BY <1>n, <2>1, <2>2, <2>3, <2>4 DEF Shown
    <3>2. Rank(s[1]) \in Nat /\ Rank(s[1])' \in Nat /\ Rank(s[1])' <= Rank(s[1])
      BY <2>2, <2>4, Shrinking
    <3>3. PerPage * s[2] \in Nat
      BY <3>1, ConstantsOK
    <3> QED
      BY <3>1, <3>2, <3>3
  <2> QED
    BY <2>1, <2>3, <2>4, ViewTyped DEF Shown
<1>5. CASE UNCHANGED vars
  <2>1. View' = View /\ Done' = Done /\ Walking /\ UNCHANGED <<shown, entered>>
    BY <1>5 DEF vars, world, read, client, history, View, Listed, Done, Walking
  <2> QED
    BY <2>1, PagesFitParts, ViewTyped DEF Shown
<1> QED
  BY <1>1, <1>2, <1>3, <1>4, <1>5, WalkMoves DEF Ends

\* Every project that stayed and ranks within the pages shown so far, the one just
\* made included, was shown.
LEMMA ShownSoFar ==
    ASSUME Typed, PagesFit, ListPage, ~left, NEW p \in stayed, Rank(p) <= PerPage * page
    PROVE  p \in Seen'
<1>1. Stayed /\ Done = page - 1 /\ shown \subseteq shown'
  BY PageShown, PagesFitParts
<1>2. p \in View
  BY <1>1 DEF Stayed
<1>3. CASE PerPage * (page - 1) < Rank(p)
  BY <1>2, <1>3, PageShown
<1>4. CASE ~(PerPage * (page - 1) < Rank(p))
  <2>1. Rank(p) <= PerPage * Done
    <3>1. Rank(p) \in Nat /\ PerPage * (page - 1) \in Nat
      <4>1. page - 1 \in Nat /\ PerPage \in Nat
        BY DoneTyped, ConstantsOK
      <4>2. PerPage * (page - 1) \in Nat
        BY <4>1, Products
      <4> QED
        BY <4>2, ViewTyped, Ranks
    <3> QED
      BY <1>1, <1>4, <3>1
  <2>2. p \in Seen
    BY <1>1, <2>1 DEF Stayed
  <2> QED
    BY <1>1, <2>2 DEF Seen
<1> QED
  BY <1>3, <1>4

LEMMA NextStayed ==
    ASSUME Typed, PagesFit, [Next]_vars, Walking'
    PROVE  Stayed'
<1>n. Done \in Nat /\ page \in Nat \ {0} /\ PerPage \in Nat \ {0}
  BY DoneTyped, ConstantsOK
<1>1. CASE Keeps
  <2>1. Stayed /\ Seen' = Seen
    BY <1>1, PagesFitParts DEF Keeps, Seen
  <2> QED
    BY <1>1, <2>1, ViewTyped DEF Keeps, Stayed
<1>2. CASE Begins
  <2>1. Done' = 0 /\ PerPage * 0 = 0
    BY <1>2, <1>n DEF Begins, Done
  <2>2. \A p \in stayed' : Rank(p)' \in Nat /\ Rank(p)' >= 1
    BY <1>2, ViewTyped, Ranks DEF Begins
  <2> QED
    BY <1>2, <2>1, <2>2 DEF Begins, Stayed
<1>3. CASE ListPage
  <2>1. Stayed /\ Done' = page
    BY <1>3, PageShown, PagesFitParts
  <2>2. stayed' \subseteq stayed /\ stayed' \subseteq View'
        /\ (~left' => ~left /\ View \subseteq View')
    BY <1>3 DEF ListPage, Watch
  <2>3. ASSUME ~left', NEW p \in stayed', Rank(p)' <= PerPage * page PROVE p \in Seen'
    <3>1. Rank(p) \in Nat /\ Rank(p)' \in Nat /\ Rank(p) <= Rank(p)'
      BY <2>2, <2>3, Growing
    <3>2. Rank(p) <= PerPage * page
      BY <1>n, <2>3, <3>1
    <3> QED
      BY <1>3, <2>2, <2>3, <3>2, ShownSoFar
  <2> QED
    BY <2>1, <2>2, <2>3 DEF Stayed
<1>4. CASE Observe
  <2>1. Walking /\ Done' = Done /\ Seen' = Seen
    BY <1>4 DEF Observe, client, Walking, Done, Seen
  <2>2. stayed' \subseteq stayed /\ stayed' \subseteq View'
        /\ (~left' => ~left /\ View \subseteq View')
    BY <1>4 DEF Observe, Watch
  <2>3. Stayed
    BY <2>1, PagesFitParts
  <2>4. ASSUME ~left', NEW p \in stayed', Rank(p)' <= PerPage * Done PROVE p \in Seen
    <3>1. Rank(p) \in Nat /\ Rank(p)' \in Nat /\ Rank(p) <= Rank(p)'
      BY <2>2, <2>4, Growing
    <3>2. Rank(p) <= PerPage * Done
      BY <1>n, <2>4, <3>1
    <3> QED
      BY <2>2, <2>3, <2>4, <3>2 DEF Stayed
  <2> QED
    BY <2>1, <2>2, <2>4 DEF Stayed
<1>5. CASE UNCHANGED vars
  <2>1. View' = View /\ Done' = Done /\ Walking /\ Seen' = Seen /\ UNCHANGED <<stayed, left>>
    BY <1>5 DEF vars, world, read, client, history, View, Listed, Done, Walking, Seen
  <2> QED
    BY <2>1, PagesFitParts, ViewTyped DEF Stayed
<1> QED
  BY <1>1, <1>2, <1>3, <1>4, <1>5, WalkMoves DEF Ends

LEMMA NextPagesFit == Typed /\ PagesFit /\ [Next]_vars => PagesFit'
  BY NextCounted, NextShown, NextStayed DEF PagesFit, Shown, Stayed, Counted

-----------------------------------------------------------------------------
(* What a client that walks is shown.                                         *)

LEMMA NextTwice ==
    ASSUME Typed, PagesFit, NothingTwice, [Next]_vars
    PROVE  NothingTwice'
<1>1. CASE ListPage
  <2> SUFFICES ASSUME ~entered', NEW s \in shown', NEW t \in shown', s[1] = t[1]
               PROVE  s = t
    BY DEF NothingTwice
  <2>1. ~entered /\ Shown /\ Done = page - 1 /\ page \in Nat \ {0}
    BY <1>1, PageShown, PagesFitParts DEF ListPage, Watch
  <2>2. ASSUME NEW u \in shown, NEW v \in shown', v \notin shown PROVE u[1] # v[1]
    <3>1. /\ u[2] \in 1..(page - 1) /\ Rank(u[1]) <= PerPage * u[2]
          /\ PerPage * (page - 1) < Rank(v[1])
      BY <1>1, <2>1, <2>2, PageShown DEF Shown
    <3>2. /\ PerPage * u[2] <= PerPage * (page - 1) /\ PerPage * u[2] \in Nat
          /\ PerPage * (page - 1) \in Nat
      <4>1. u[2] \in Nat /\ page - 1 \in Nat /\ u[2] <= page - 1
        BY <2>1, <3>1
      <4> QED
        BY <4>1, Products, ConstantsOK
    <3>3. Rank(u[1]) \in Nat /\ Rank(v[1]) \in Nat
      BY ViewTyped, Ranks
    <3> QED
      BY <3>1, <3>2, <3>3
  <2>3. CASE s \in shown /\ t \in shown
    BY <2>1, <2>3 DEF NothingTwice
  <2>4. CASE s \notin shown /\ t \notin shown
    <3>1. s = <<s[1], page>> /\ t = <<t[1], page>>
      BY <1>1, <2>4, PageShown
    <3> QED
      BY <3>1
  <2> QED
    BY <2>2, <2>3, <2>4
<1>2. CASE Observe
  BY <1>2 DEF Observe, Watch, client, NothingTwice
<1>3. CASE UNCHANGED vars
  BY <1>3 DEF vars, client, history, NothingTwice
<1> QED
  BY <1>1, <1>2, <1>3, WalkMoves DEF Keeps, Begins, Ends, NothingTwice

LEMMA NextComplete ==
    ASSUME Typed, PagesFit, WalkComplete, [Next]_vars
    PROVE  WalkComplete'
<1> SUFFICES ASSUME pc' = "idle", answer' = "page", ~HasNext', ~left', ~between'
             PROVE  stayed' \subseteq Seen'
  BY DEF WalkComplete, Seen
<1>n. page \in Nat \ {0} /\ total \in Nat /\ PerPage \in Nat \ {0}
  BY ConstantsOK DEF Typed, TypeOK
<1>1. CASE ListPage
  <2>1. /\ stayed' \subseteq stayed /\ ~left /\ ~between /\ pc = "page"
        /\ page' = page /\ total' = total
    BY <1>1 DEF ListPage, Watch, read
  <2>2. TotalPages(total) \in Int /\ TotalPages(total) <= page
    <3>1. TotalPages(total) \in Int
      BY <1>n DEF TotalPages
    <3>2. ~(page < TotalPages(total))
      BY <2>1 DEF HasNext, TotalPages
    <3> QED
      BY <1>n, <3>1, <3>2
  <2>3. total <= PerPage * page /\ PerPage * page \in Nat
    BY <1>n, <2>2, PagesCover
  <2>4. Cardinality(View) <= total /\ stayed \subseteq View
    BY <1>1, <2>1, PageShown, PagesFitParts DEF Counted, Stayed
  <2>5. ASSUME NEW p \in stayed' PROVE p \in Seen'
    <3>1. Rank(p) <= Cardinality(View) /\ Rank(p) \in Nat /\ Cardinality(View) \in Nat
      BY ViewTyped, Ranks
    <3>2. Rank(p) <= PerPage * page
      BY <1>n, <2>3, <2>4, <3>1
    <3> QED
      BY <1>1, <2>1, <2>5, <3>2, ShownSoFar
  <2> QED
    BY <2>5
<1>2. CASE Observe
  <2>1. /\ UNCHANGED <<pc, answer, page, total, shown>>
        /\ stayed' \subseteq stayed /\ ~left /\ ~between
    BY <1>2 DEF Observe, Watch, client, read
  <2>2. ~HasNext /\ Seen' = Seen
    BY <2>1 DEF HasNext, TotalPages, Seen
  <2> QED
    BY <2>1, <2>2 DEF WalkComplete, Seen
<1>3. CASE UNCHANGED vars
  <2>1. UNCHANGED <<pc, answer, page, total, shown, stayed, left, between>>
    BY <1>3 DEF vars, client, read, history
  <2>2. ~HasNext /\ Seen' = Seen
    BY <2>1 DEF HasNext, TotalPages, Seen
  <2> QED
    BY <2>1, <2>2 DEF WalkComplete, Seen
<1> QED
  BY <1>1, <1>2, <1>3, WalkMoves DEF Keeps, Begins, Ends, Walking

\* A client that follows x-next-page to the end was shown every project that was in
\* the list all along, unless one left it or entered it between a count and its page,
\* and was shown none twice unless one entered: for any number of projects and
\* changes and any page size (load_visible_projects, list_response).
THEOREM WalksAreFaithful == Spec => []WalkFaithful
<1>1. Init => PagesFit /\ NothingTwice /\ WalkComplete
  BY DEF Init, PagesFit, NothingTwice, WalkComplete, Walking
<1>2. Typed /\ (PagesFit /\ NothingTwice /\ WalkComplete) /\ [Next]_vars
      => (PagesFit /\ NothingTwice /\ WalkComplete)'
  BY NextPagesFit, NextTwice, NextComplete
<1> QED
  BY <1>1, <1>2, InitTyped, NextTyped, PTL DEF Spec, WalkFaithful

-----------------------------------------------------------------------------
(* Which user a session names.                                                *)

LEMMA FirstIs ==
    ASSUME NEW S \in SUBSET Nat, NEW i \in S, \A j \in S : i <= j
    PROVE  First(S) = i
<1>1. First(S) \in S /\ \A j \in S : First(S) <= j
  BY DEF First
<1>2. First(S) \in Nat /\ i \in Nat /\ First(S) <= i /\ i <= First(S)
  BY <1>1
<1> QED
  BY <1>2

LEMMA Bytes ==
    ASSUME NEW d \in Seq(Byte)
    PROVE  Len(d) \in Nat /\ \A k \in 1..Len(d) : d[k] \in 0..255
<1>1. Len(d) \in Nat
  BY LenProperties
<1>2. ASSUME NEW k \in 1..Len(d) PROVE d[k] \in 0..255
  BY ElementOfSeq DEF Byte
<1> QED
  BY <1>1, <1>2

LEMMA Unsigned == \A b \in 0..127 : Signed8(b) = b
  BY DEF Signed8

LEMMA Signed == \A b \in 128..255 : Signed8(b) = b - 256
  BY DEF Signed8

\* A positive id is read back as Ruby wrote it, unless its two bytes look negative.
LEMMA FixnumRead ==
    ASSUME NEW d \in Seq(Byte), NEW at \in Nat \ {0}, NEW id \in Nat \ {0},
           Writes(d, at, id), id \notin Misread
    PROVE  ReadMarshalFixnum(d, at) = id
<1>1. Len(d) \in Nat /\ \A k \in 1..Len(d) : d[k] \in 0..255
  BY Bytes
<1>2. CASE id <= 122 /\ at <= Len(d) /\ d[at] = id + 5
  <2>1. id + 5 \in 6..127
    BY <1>2
  <2>2. Signed8(id + 5) = id + 5
    <3> DEFINE b == id + 5
    <3>1. b \in 0..127
      BY <2>1
    <3> HIDE DEF b
    <3>2. Signed8(b) = b
      BY <3>1, Unsigned
    <3> QED
      BY <3>2 DEF b
  <2> QED
    BY <1>1, <1>2, <2>1, <2>2 DEF ReadMarshalFixnum
<1>3. CASE 122 < id /\ id < 256 /\ at + 1 <= Len(d) /\ d[at] = 1 /\ d[at + 1] = id
  BY <1>1, <1>3 DEF ReadMarshalFixnum
<1>4. CASE /\ 256 <= id /\ id < 65536 /\ at + 2 <= Len(d)
           /\ d[at] = 2 /\ d[at + 1] + 256 * d[at + 2] = id
  <2>1. d[at + 1] \in 0..255 /\ d[at + 2] \in 0..255 /\ id < 32768
    BY <1>1, <1>4 DEF Misread
  <2>2. Signed8(d[at + 2]) = d[at + 2]
    <3> DEFINE lo == d[at + 1]
               hi == d[at + 2]
    <3>1. lo \in 0..255 /\ hi \in 0..255 /\ lo + 256 * hi < 32768
      BY <1>4, <2>1
    <3> HIDE DEF lo, hi
    <3>2. hi \in 0..127
      BY <3>1
    <3>3. Signed8(hi) = hi
      BY <3>2, Unsigned
    <3> QED
      BY <3>3 DEF hi
  <2> QED
    BY <1>1, <1>4, <2>1, <2>2 DEF ReadMarshalFixnum
<1>5. CASE /\ 65536 <= id /\ id < 16777216 /\ at + 3 <= Len(d) /\ d[at] = 3
           /\ d[at + 1] + 256 * d[at + 2] + 65536 * d[at + 3] = id
  BY <1>1, <1>5 DEF ReadMarshalFixnum
<1> QED
  BY <1>2, <1>3, <1>4, <1>5 DEF Writes

LEMMA MarshalFound ==
    ASSUME NEW d \in Seq(Byte), NEW id \in Nat \ {0}, MarshalNames(d, id), id \notin Misread
    PROVE  UserIdFromMarshal(d) = id
<1>1. PICK i \in 1..Len(d) : /\ i <= 80 /\ d[i] = 105
                             /\ \A j \in 1..(i - 1) : d[j] # 105
                             /\ Writes(d, i + 1, id)
  BY DEF MarshalNames
<1>2. ReadMarshalFixnum(d, i + 1) = id
  BY <1>1, FixnumRead
<1>3. i \in Hits(d) /\ Hits(d) \in SUBSET Nat
  BY <1>1, <1>2 DEF Hits
<1>4. \A j \in Hits(d) : i <= j
  BY <1>1 DEF Hits
<1>5. First(Hits(d)) = i
  BY <1>3, <1>4, FirstIs
<1> QED
  BY <1>2, <1>3, <1>5 DEF UserIdFromMarshal

LEMMA RecordFound ==
    ASSUME NEW s \in Record, NEW id \in Nat \ {0}, Names(s, id), id \notin Misread
    PROVE  UserIdFromSessionBytes(s) = id
<1>1. s.key \in Nat /\ s.id \in Nat /\ s.rest \in Seq(Byte)
  BY DEF Record
<1>2. MarshalNames(s.rest, id) => UserIdFromMarshal(s.rest) = id
  BY <1>1, MarshalFound
<1> QED
  BY <1>1, <1>2 DEF Names, UserIdFromSessionBytes

\* The fast paths take a request for the user's whose session it is and nobody
\* else's, whichever key holds it and however it is written.
THEOREM SessionFindsUser == SessionUser = IF session THEN UserId ELSE 0
<1> DEFINE id == SessionIdFromCookieHeader(Cookies)
           keys == RedisSessionKeys(id)
           found == {k \in 1..3 : /\ keys[k] \in DOMAIN Sessions
                                  /\ UserIdFromSessionBytes(Sessions[keys[k]]) > 0}
<1>1. \A k \in DOMAIN Sessions : UserIdFromSessionBytes(Sessions[k]) = UserId
  BY SessionOK, RecordFound
<1>2. UserId \in Nat /\ UserId # 0
  BY SessionOK
<1>3. PICK k \in 1..3 : keys[k] \in DOMAIN Sessions
  BY SessionOK
<1>4. found # {} /\ found \subseteq 1..3
  BY <1>1, <1>2, <1>3
<1>5. First(found) \in found
  <2>1. \E i \in found : \A j \in found : i <= j
    BY <1>4
  <2> QED
    BY <2>1 DEF First
<1>6. UserIdFromSessionBytes(Sessions[keys[First(found)]]) = UserId
  BY <1>1, <1>5
<1>7. LoadSessionUserId(Sessions, id) = UserId
  BY <1>4, <1>6, SessionOK DEF LoadSessionUserId
<1> QED
  BY <1>7 DEF SessionUser

LEMMA TwoBytesNegative ==
    ASSUME NEW d \in Seq(Byte), NEW at \in Nat \ {0}, NEW id \in Misread, Writes(d, at, id)
    PROVE  ReadMarshalFixnum(d, at) \in Int /\ ReadMarshalFixnum(d, at) < 0
<1>1. Len(d) \in Nat /\ \A k \in 1..Len(d) : d[k] \in 0..255
  BY Bytes
<1>2. id \in Nat /\ 32768 <= id /\ id <= 65535
  BY DEF Misread
<1>3. at + 2 <= Len(d) /\ d[at] = 2 /\ d[at + 1] + 256 * d[at + 2] = id
  BY <1>2 DEF Writes
<1>4. d[at + 1] \in 0..255 /\ d[at + 2] \in 0..255
  BY <1>1, <1>3
<1> DEFINE lo == d[at + 1]
           hi == d[at + 2]
<1>5. ReadMarshalFixnum(d, at) = lo + 256 * Signed8(hi)
  BY <1>1, <1>3 DEF ReadMarshalFixnum
<1>6. lo \in 0..255 /\ hi \in 0..255 /\ lo + 256 * hi >= 32768
  BY <1>2, <1>3, <1>4
<1> HIDE DEF lo, hi
<1>7. hi \in 128..255
  BY <1>6
<1>8. Signed8(hi) = hi - 256
  BY <1>7, Signed
<1>9. lo + 256 * Signed8(hi) \in Int /\ lo + 256 * Signed8(hi) < 0
  BY <1>6, <1>7, <1>8
<1> QED
  BY <1>5, <1>9

\* The rest: an id that Ruby writes in two bytes with the upper one from 128 on is
\* not found where it stands, and the scan goes on behind it.
THEOREM TwoByteIdsLost ==
    ASSUME NEW d \in Seq(Byte), NEW i \in 1..Len(d), NEW id \in Misread,
           Writes(d, i + 1, id)
    PROVE  i \notin Hits(d)
<1>1. i + 1 \in Nat \ {0}
  OBVIOUS
<1>2. ReadMarshalFixnum(d, i + 1) \in Int /\ ReadMarshalFixnum(d, i + 1) < 0
  BY <1>1, TwoBytesNegative
<1> QED
  BY <1>2 DEF Hits
=============================================================================
