------------------------------- MODULE HotRead -------------------------------
(***************************************************************************)
(* The fast paths of the Files API (GET /api/v4/projects/:id/repository/   *)
(* files/*, files.rs) and of the project list (GET /api/v4/projects,       *)
(* projects.rs).  A request reads session, user, project, membership and   *)
(* the repository, or the count and the page, one after the other, while   *)
(* Rails' users change all of them; any read may fail or hang, and Puma    *)
(* answers instead.  The client asks for one file or walks the pages of    *)
(* the list.                                                               *)
(*                                                                         *)
(* A branch is the sequence of states it goes through; a commit or a blob  *)
(* is the number of the state it belongs to.  Every project's row comes    *)
(* with the access level of the one user.                                  *)
(***************************************************************************)
EXTENDS RailsSession, FiniteSets

CONSTANTS
    Projects,    \* project ids; the list shows the highest first
    Rows,        \* what a project's row may be
    UserId,      \* the user who asks
    Cookies,     \* what the browser sends with every request
    Sessions,    \* what Redis holds while the user is logged in
    Users,       \* what the user's row may be
    LastState,   \* bound: the states the branch goes through, from 0 on
    Entries,     \* what the path is in each of them
    Filters,     \* filters of the list
    PerPage,
    MaxChanges,  \* bound: changes to session, users, projects and branch in all
    None         \* an absent row or value

\* dropped: pending_delete or hidden.
Row == [visibility : Nat, repository : Nat \cup {None}, level : Nat,
        archived : BOOLEAN, dropped : BOOLEAN]
UserRow == [admin : BOOLEAN, active : BOOLEAN, external : BOOLEAN]
Filter == [owned : BOOLEAN, membership : BOOLEAN, min : Nat \cup {None},
           visibility : Nat \cup {None}, archived : BOOLEAN \cup {None}]
EntryKinds == {"gone", "absent", "tree", "big", "whole", "short"}

ASSUME ConstantsOK ==
    /\ Projects \subseteq Nat /\ IsFiniteSet(Projects)
    /\ None \notin Nat \cup BOOLEAN \cup Row \cup UserRow
    /\ Rows \subseteq Row /\ Users \subseteq UserRow /\ Filters \subseteq Filter
    /\ LastState \in Nat /\ Entries \in [0..LastState -> EntryKinds]
    /\ PerPage \in Nat \ {0}
    /\ MaxChanges \in Nat

\* Rails wrote every record of the session, for a user whose id is not misread.
ASSUME SessionOK ==
    LET id == SessionIdFromCookieHeader(Cookies)
    IN  /\ Cookies \in Seq(Cookie) /\ id # ""
        /\ UserId \in Nat \ ({0} \cup Misread)
        /\ \E k \in 1..3 : RedisSessionKeys(id)[k] \in DOMAIN Sessions
        /\ \A k \in DOMAIN Sessions :
               Sessions[k] \in Record /\ Names(Sessions[k], UserId)

VARIABLES
    session,  \* the user is logged in
    user,     \* the user's row
    project,  \* the projects' rows
    branch,   \* the state the branch is in
    changes,
    pc,       \* where the request is
    ask,      \* what it asks for
    row,      \* the project's row it read
    who,      \* the user's row it read
    commit,   \* find_commit_id's answer
    blob,     \* tree_entry's answer
    total,    \* the count
    answer,
    page,     \* the page the client asks for
    shown,    \* the projects it was shown so far, with the pages they were on
    since,    \* history: the branch's state when the file was asked for,
    readable, \*   the user could read the code at some moment since,
    off,      \*   the repository was off at some moment after row was read,
    stayed,   \*   the projects in View ever since the walk began,
    entered,  \*   one entered it since the walk began,
    between,  \*   one entered it between a count and its page,
    left      \*   one left it

world == <<session, user, project, branch, changes>>
read == <<row, who, commit, blob, total>>
client == <<ask, page, shown>>
history == <<since, readable, off, stayed, entered, between, left>>
vars == <<world, read, client, history, pc, answer>>

-----------------------------------------------------------------------------
(* Access (acl.rs). *)

VISIBILITY_INTERNAL == 10
VISIBILITY_PUBLIC == 20
ACCESS_GUEST == 10
ACCESS_REPORTER == 20
ACCESS_OWNER == 50
FEATURE_DISABLED == 0

RepositoryDisabled(r) == r.repository = FEATURE_DISABLED

CanReadCode(visibility, level) ==
    visibility >= VISIBILITY_INTERNAL \/ level >= ACCESS_REPORTER

CanSeeProject(visibility, level, external) ==
    \/ level >= ACCESS_GUEST
    \/ visibility >= VISIBILITY_PUBLIC
    \/ visibility >= VISIBILITY_INTERNAL /\ ~external

\* load_access_level: a project that is gone has no members.
Level(p) == IF project[p] = None THEN 0 ELSE project[p].level

MayRead(r) ==
    r # None /\ ~RepositoryDisabled(r) /\ CanReadCode(r.visibility, r.level)

-----------------------------------------------------------------------------
(* The list's filters (projects.rs). *)

\* The rule the tests exercise, which no request uses; it is not told whether a
\* project is pending deletion or hidden.
MatchesListFilters(r, external, f) ==
    LET given == IF f.min = None THEN ACCESS_GUEST ELSE f.min
        wanted == IF f.owned /\ given < ACCESS_OWNER THEN ACCESS_OWNER ELSE given
    IN  /\ f.archived \in {None, r.archived}
        /\ f.visibility \in {None, r.visibility}
        /\ \/ /\ f.owned \/ f.membership \/ f.min # None
              /\ r.level >= wanted
           \/ /\ ~f.owned /\ ~f.membership /\ f.min = None
              /\ CanSeeProject(r.visibility, r.level, external)

\* Mutant: owned alone does not raise the access level asked for.
OwnedUnraised(f) ==
    [explicit   |-> f.owned \/ f.min # None,
     membership |-> f.membership,
     min        |-> IF f.min = None THEN ACCESS_GUEST ELSE f.min,
     visibility |-> f.visibility,
     archived   |-> f.archived]

\* parse_projects_query
ParsedQuery(f) ==
    LET min == IF f.min = None THEN ACCESS_GUEST ELSE f.min
    IN  [explicit   |-> f.owned \/ f.min # None,
         membership |-> f.membership,
         min        |-> IF f.owned /\ min < ACCESS_OWNER THEN ACCESS_OWNER ELSE min,
         visibility |-> f.visibility,
         archived   |-> f.archived]

\* The SQL a request runs; owned is part of explicit by then.
VisibilityPredicate(r, external, q) ==
    \/ r.level >= q.min
    \/ /\ ~q.explicit /\ ~q.membership
       /\ r.visibility >= (IF external THEN VISIBILITY_PUBLIC ELSE VISIBILITY_INTERNAL)

Selected(rows, external, q) ==
    {p \in Projects : /\ rows[p] # None
                      /\ ~rows[p].dropped
                      /\ VisibilityPredicate(rows[p], external, q)
                      /\ q.archived \in {None, rows[p].archived}
                      /\ q.visibility \in {None, rows[p].visibility}}

\* Mutant: pages are counted from zero.
OffsetByPage(S, n) ==
    {p \in S : LET rank == Cardinality({q \in S : q >= p})
               IN  PerPage * n < rank /\ rank <= PerPage * (n + 1)}

\* ORDER BY .. p.id DESC LIMIT PerPage OFFSET (n - 1) * PerPage
PageOf(S, n) ==
    {p \in S : LET rank == Cardinality({q \in S : q >= p})
               IN  PerPage * (n - 1) < rank /\ rank <= PerPage * n}

TotalPages(n) == (n + PerPage - 1) \div PerPage

-----------------------------------------------------------------------------
NoFilter == [owned |-> FALSE, membership |-> FALSE, min |-> None, visibility |-> None,
             archived |-> None]
Asks == [kind : {"file"}, project : Projects, filter : {NoFilter}]
            \cup [kind : {"list", "none"}, project : {None}, filter : Filters \cup {NoFilter}]

Inner == {"session", "user", "project", "access", "commit", "entry", "blob", "last",
          "count", "page"}

Listed(rows, u) == Selected(rows, u.external, ParsedQuery(ask.filter))

\* The list as the walk sees it: a request goes by the user's row it read.
View == Listed(project, IF pc \in {"count", "page"} THEN who ELSE user)

Init ==
    /\ session \in BOOLEAN
    /\ user \in Users
    /\ project \in [Projects -> Rows \cup {None}]
    /\ branch = 0 /\ changes = 0
    /\ pc = "idle" /\ ask = [kind |-> "none", project |-> None, filter |-> NoFilter]
    /\ row = None /\ who = None /\ commit = None /\ blob = None /\ total = 0
    /\ answer = "none" /\ page = 1 /\ shown = {}
    /\ since = 0 /\ readable = FALSE /\ off = FALSE
    /\ stayed = {} /\ entered = FALSE /\ between = FALSE /\ left = FALSE

Goto(l) == pc' = l /\ UNCHANGED answer
Answer(a) == pc' = "idle" /\ answer' = a

-----------------------------------------------------------------------------
(* The client. *)

\* What a request left behind goes with it.
Fresh ==
    /\ row' = None /\ who' = None /\ commit' = None /\ blob' = None /\ total' = 0
    /\ page' = 1 /\ shown' = {}
    /\ off' = FALSE /\ entered' = FALSE /\ between' = FALSE /\ left' = FALSE

AskFile(p) ==
    /\ pc = "idle"
    /\ pc' = "session" /\ answer' = "none"
    /\ ask' = [kind |-> "file", project |-> p, filter |-> NoFilter]
    /\ Fresh
    /\ since' = branch /\ readable' = MayRead(project[p]) /\ stayed' = {}
    /\ UNCHANGED world

BeginWalk(f) ==
    /\ pc = "idle"
    /\ pc' = "session" /\ answer' = "none"
    /\ ask' = [kind |-> "list", project |-> None, filter |-> f]
    /\ Fresh
    /\ since' = branch /\ readable' = FALSE
    /\ stayed' = Selected(project, user.external, ParsedQuery(f))
    /\ UNCHANGED world

\* x-next-page: page < total_pages.
HasNext == answer = "page" /\ page < TotalPages(total)

NextPage ==
    /\ pc = "idle" /\ HasNext
    /\ pc' = "session" /\ answer' = "none"
    /\ page' = page + 1
    /\ UNCHANGED <<world, read, ask, shown, history>>

-----------------------------------------------------------------------------
(* Both paths. *)

\* The user's id as the fast paths find it, or 0.
SessionUser ==
    IF session THEN LoadSessionUserId(Sessions, SessionIdFromCookieHeader(Cookies)) ELSE 0

\* Without a user Puma answers; another's id is never found (SessionFindsUser).
Session ==
    /\ pc = "session"
    /\ \/ SessionUser = UserId /\ Goto(IF ask.kind = "file" THEN "project" ELSE "user")
       \/ SessionUser = 0 /\ Goto("puma")
    /\ UNCHANGED <<world, read, client, history>>

\* Mutant: the calls to Gitaly are not under the timeout.
GitalyUntimed ==
    /\ pc \in Inner \ {"commit", "entry", "blob", "last"}
    /\ Goto("puma")
    /\ UNCHANGED <<world, read, client, history>>

\* An error at any step, or the timeout over all of them: Puma answers.
FallBack ==
    /\ pc \in Inner
    /\ Goto("puma")
    /\ UNCHANGED <<world, read, client, history>>

Puma ==
    /\ pc = "puma"
    /\ Answer("puma")
    /\ UNCHANGED <<world, read, client, history>>

-----------------------------------------------------------------------------
(* The Files API. *)

\* Mutant: the repository's own level is not looked at.
LoadProjectOnly ==
    /\ pc = "project"
    /\ row' = project[ask.project]
    /\ IF project[ask.project] = None THEN Answer("missing") ELSE Goto("access")
    /\ UNCHANGED <<world, who, commit, blob, total, client, history>>

\* load_project and repository_disabled; a row that is dropped is given as well.
LoadProject ==
    /\ pc = "project"
    /\ row' = project[ask.project]
    /\ IF project[ask.project] = None \/ RepositoryDisabled(project[ask.project])
       THEN Answer("missing")
       ELSE Goto("access")
    /\ UNCHANGED <<world, who, commit, blob, total, client, history>>

\* load_access_level, another query, and can_read_code
LoadAccess ==
    /\ pc = "access"
    /\ LET may == CanReadCode(row.visibility, Level(ask.project))
       IN  \/ ~may /\ Answer("missing")
           \/ may /\ Goto("commit")
    /\ UNCHANGED <<world, read, client, history>>

FindCommit ==
    /\ pc = "commit"
    /\ \/ Entries[branch] = "gone" /\ Answer("missing") /\ UNCHANGED commit
       \/ Entries[branch] # "gone" /\ Goto("entry") /\ commit' = branch
    /\ UNCHANGED <<world, row, who, blob, total, client, history>>

\* tree_entry asks for the branch again, by its name.
TreeEntry ==
    /\ pc = "entry"
    /\ LET kind == Entries[branch]
       IN  \/ kind \in {"gone", "absent", "tree"} /\ Answer("missing") /\ UNCHANGED blob
           \/ kind = "big" /\ Goto("puma") /\ UNCHANGED blob
           \/ kind = "whole" /\ Goto("last") /\ blob' = branch
           \/ kind = "short" /\ Goto("blob") /\ blob' = branch
    /\ UNCHANGED <<world, row, who, commit, total, client, history>>

\* Mutant: the contents are asked for by branch and path.
GetBlobByName ==
    /\ pc = "blob"
    /\ Goto("last")
    /\ blob' = branch
    /\ UNCHANGED <<world, row, who, commit, total, client, history>>

\* get_blob_with_meta, when the entry came without its contents: by object id,
\* so that it does not matter where the branch is.
GetBlob ==
    /\ pc = "blob"
    /\ Goto("last")
    /\ UNCHANGED <<world, read, client, history>>

\* last_commit_id_for_path, whose failure is covered up by the commit's id.
LastCommit ==
    /\ pc = "last"
    /\ Answer("file")
    /\ UNCHANGED <<world, read, client, history>>

-----------------------------------------------------------------------------
(* The project list. *)

\* load_user: admins and users who are not active are Puma's.
LoadUser ==
    /\ pc = "user"
    /\ \/ (user.admin \/ ~user.active) /\ Goto("puma") /\ UNCHANGED who
       \/ ~user.admin /\ user.active /\ Goto("count") /\ who' = user
    /\ UNCHANGED <<world, row, commit, blob, total, client, history>>

\* History: what enters and leaves the list of the walk in a step.
Watch ==
    /\ stayed' = stayed \cap View'
    /\ entered' = (entered \/ ~(View' \subseteq View))
    /\ left' = (left \/ ~(View \subseteq View'))

Count ==
    /\ pc = "count"
    /\ Goto("page")
    /\ total' = Cardinality(Listed(project, who))
    /\ UNCHANGED <<world, row, who, commit, blob, client, history>>

ListPage ==
    /\ pc = "page"
    /\ Answer("page")
    /\ shown' = shown \cup {<<p, page>> : p \in PageOf(Listed(project, who), page)}
    /\ UNCHANGED <<world, read, ask, page, since, readable, off, between>>
    /\ Watch

-----------------------------------------------------------------------------
(* The world around it (external). *)

\* What a change does to what the history records.
Observe ==
    /\ changes < MaxChanges /\ changes' = changes + 1
    /\ UNCHANGED <<since, pc, answer, read, client>>
    /\ readable' = (readable \/ (ask.kind = "file" /\ MayRead(project'[ask.project])))
    /\ off' = (off \/ /\ ask.kind = "file" /\ row # None
                      /\ project'[ask.project] # None
                      /\ RepositoryDisabled(project'[ask.project]))
    /\ Watch
    /\ between' = (between \/ (pc = "page" /\ ~(View' \subseteq View)))

ChangeProject(p, r) ==
    /\ project[p] # r
    /\ project' = [project EXCEPT ![p] = r]
    /\ UNCHANGED <<session, user, branch>>
    /\ Observe

ChangeUser(u) ==
    /\ user # u
    /\ user' = u
    /\ UNCHANGED <<session, project, branch>>
    /\ Observe

LogInOrOut ==
    /\ session' = ~session
    /\ UNCHANGED <<user, project, branch>>
    /\ Observe

MoveBranch ==
    /\ branch < LastState
    /\ branch' = branch + 1
    /\ UNCHANGED <<session, user, project>>
    /\ Observe

-----------------------------------------------------------------------------
Step ==
    \/ Session \/ FallBack \/ Puma
    \/ LoadProject \/ LoadAccess \/ FindCommit \/ TreeEntry \/ GetBlob \/ LastCommit
    \/ LoadUser \/ Count \/ ListPage

Next ==
    \/ Step
    \/ \E p \in Projects : AskFile(p)
    \/ \E f \in Filters : BeginWalk(f)
    \/ NextPage
    \/ \E p \in Projects, r \in Rows \cup {None} : ChangeProject(p, r)
    \/ \E u \in Users : ChangeUser(u)
    \/ LogInOrOut
    \/ MoveBranch

Spec == Init /\ [][Next]_vars

\* Redis, Postgres and Gitaly may hang: only the timer, which ends a fast path
\* wherever it is, and Puma's answer are relied on.
FairSpec == Spec /\ WF_vars(FallBack) /\ WF_vars(Puma)

-----------------------------------------------------------------------------
TypeOK ==
    /\ session \in BOOLEAN /\ user \in Users
    /\ project \in [Projects -> Rows \cup {None}]
    /\ branch \in 0..LastState /\ changes \in 0..MaxChanges
    /\ pc \in Inner \cup {"idle", "puma"}
    /\ ask \in Asks
    /\ row \in Rows \cup {None} /\ who \in Users \cup {None}
    /\ commit \in 0..LastState \cup {None} /\ blob \in 0..LastState \cup {None}
    /\ total \in Nat /\ page \in Nat \ {0}
    /\ answer \in {"none", "file", "missing", "page", "puma"}
    /\ shown \subseteq Projects \X Nat
    /\ since \in 0..LastState /\ readable \in BOOLEAN /\ off \in BOOLEAN
    /\ stayed \subseteq Projects
    /\ entered \in BOOLEAN /\ between \in BOOLEAN /\ left \in BOOLEAN

\* A file is only given to a user who could read the code at some moment of the
\* request, although row and membership are read one after the other; the one
\* exception needs the repository switched off in between.
GivenToReaders == answer = "file" => readable \/ off

\* Commit and contents of an answer are what the branch held at moments of the
\* request, the commit's not after the contents': never an older file under a
\* newer commit, and only a file that was there and fits.
OneBranch ==
    answer = "file" =>
        /\ since <= commit /\ commit <= blob /\ blob <= branch
        /\ Entries[commit] # "gone"
        /\ Entries[blob] \in {"whole", "short"}

\* A client that follows x-next-page to the end has seen every project that was
\* in its list all along, unless another one left the list, or one entered
\* between the count and the page of one of the requests.
WalkComplete ==
    /\ pc = "idle" /\ answer = "page" /\ ~HasNext
    /\ ~left /\ ~between
    => stayed \subseteq {s[1] : s \in shown}

\* It is shown no project twice unless one entered the list meanwhile.
NothingTwice ==
    ~entered => \A s, t \in shown : s[1] = t[1] => s = t

\* Pages fit together although count and page are separate statements and each
\* page a request of its own.
WalkFaithful == WalkComplete /\ NothingTwice

\* The page a request shows is cut from exactly those projects that are neither
\* pending deletion nor hidden and that the rule of matches_list_filters selects,
\* by the rows as they are then and the user as it was read.
SelectedByTheRule ==
    {p \in Projects : /\ project[p] # None
                      /\ ~project[p].dropped
                      /\ MatchesListFilters(project[p], who.external, ask.filter)}

\* No page shows a request more or less than that.
ListedByTheRule ==
    [][ answer' = "page" /\ answer # "page" =>
            shown' = shown \cup {<<p, page>> : p \in PageOf(SelectedByTheRule, page)} ]_vars

\* Every request is answered, whatever hangs behind the fast path.
Answered == pc # "idle" ~> pc = "idle"

-----------------------------------------------------------------------------
(* Why pages fit together, inductively. *)

\* A walk goes on while a request runs or its page may have a next one.
Walking == pc \in {"session", "user", "count", "page"} \/ (pc = "idle" /\ answer = "page")

Rank(p) == Cardinality({q \in View : q >= p})
Done == IF pc = "idle" THEN page ELSE page - 1
Seen == {s[1] : s \in shown}

\* A project shown has at most the rank its page ends with, as none entered above
\* it; one that stayed and has such a rank was shown, as none left above it; and the
\* count is not exceeded by its page.
PagesFit ==
    /\ Walking => /\ \A s \in shown : s[2] \in 1..Done
                  /\ ~entered => \A s \in shown : Rank(s[1]) <= PerPage * s[2]
                  /\ stayed \subseteq View
                  /\ ~left => \A p \in stayed : Rank(p) <= PerPage * Done => p \in Seen
    /\ pc = "page" /\ ~between => Cardinality(View) <= total
    /\ pc \in {"count", "page"} => who # None
=============================================================================
