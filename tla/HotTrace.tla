------------------------------ MODULE HotTrace ------------------------------
(***************************************************************************)
(* GET/HEAD /api/v4/projects/:id/jobs/:id/trace: the fast path that reads  *)
(* a job's log from disk instead of asking Rails, and a client that polls  *)
(* it while the job writes the log, GitLab archives it, moves the archive  *)
(* to object storage or deletes the job.  Session, project, membership,    *)
(* job row, candidate files, length and contents are read one after the    *)
(* other, while the user's rights change too; any of those reads may fail  *)
(* or run into the timeout, and then Puma answers, or the proxy's cache,   *)
(* which the client shares with everybody who asks for the same URL.       *)
(*                                                                         *)
(* The log is its length: byte i is the i-th the job wrote.                *)
(***************************************************************************)
EXTENDS Naturals, FiniteSets

CONSTANTS
    LogLen,      \* bound: bytes a job writes
    MaxMishaps,  \* bound: failures, timeouts and disconnects in all
    MaxCached,   \* bound: answers in the proxy's cache at once
    Polls,       \* ways to ask, a subset of PollKinds
    Projects,    \* project rows: visibility, builds, public
    Levels,      \* access levels a user may have, 0 for none
    None         \* an absent value

PollKinds == {"plain", "head", "offset", "range", "both", "junk", "first", "tail"}

\* A Range header is its first and last position, each of which may be missing;
\* one that cannot be parsed has neither.
RangeHeader == [first : Nat \cup {None}, last : Nat \cup {None}]

ProjectRow == [visibility : Nat, builds : Nat \cup {None}, public : BOOLEAN]

ASSUME ConstantsOK ==
    /\ LogLen \in Nat /\ MaxMishaps \in Nat /\ MaxCached \in Nat
    /\ Polls \subseteq PollKinds
    /\ None \notin Nat \cup ProjectRow \cup RangeHeader
    /\ Projects \subseteq ProjectRow
    /\ Levels \subseteq Nat

VARIABLES
    log,       \* bytes the job has written
    job,       \* "running", "finished" or "deleted"
    live,      \* the live trace file exists
    archived,  \* the artifact's file exists in the artifacts directory
    row,       \* the artifact row: "none", "local" or "remote" (file_store)
    reader,    \* the project (None: no such project) and the user's level
    found,     \* the project's row as the request read it
    entitled,  \* history: since he asked the user could read the log, or the
               \* project took that right back after its row had been read
    cache,     \* the proxy's response cache: the log it holds for a request URL
    pc,        \* where the request is
    ask,       \* how it asks
    after,     \* the bytes the client had when it asked
    path,      \* the file it chose
    span,      \* what it resolved its range to
    sent,      \* bytes of the body sent
    got,       \* the client's: how many bytes of the log it has, from byte 0 on
    told,      \* the client's: the total length it was last told
    mishaps

trace == <<log, job, live, archived, row>>
context == <<reader, cache>>
rights == <<found, entitled>>
follower == <<got, told>>
asking == <<ask, after, path, span, sent>>
vars == <<trace, context, rights, pc, asking, follower, mishaps>>

-----------------------------------------------------------------------------
(* Access. *)

ACCESS_GUEST == 10
VISIBILITY_PRIVATE == 0
FEATURE_DISABLED == 0
FEATURE_PRIVATE == 10
FEATURE_ENABLED == 20

Builds(p) == IF p.builds = None THEN FEATURE_ENABLED ELSE p.builds

CanReadBuild(p, level) ==
    /\ Builds(p) > FEATURE_DISABLED
    /\ \/ level >= ACCESS_GUEST
       \/ /\ Builds(p) # FEATURE_PRIVATE
          /\ p.visibility > VISIBILITY_PRIVATE
          /\ p.public

MayRead(r) == r.project # None /\ CanReadBuild(r.project, r.level)
CanRead == MayRead(reader)

\* A level that row `p` lets in is shut out by row `q`, or by q's absence.
Shuts(p, q) ==
    \E level \in Levels :
        CanReadBuild(p, level) /\ ~MayRead([project |-> q, level |-> level])

-----------------------------------------------------------------------------
(* Ranges. *)

Span == [kind : {"all", "part", "none"}, start : Nat, len : Nat, total : Nat]

All(len) == [kind |-> "all", start |-> 0, len |-> len, total |-> len]
Unsatisfiable(len) == [kind |-> "none", start |-> 0, len |-> 0, total |-> len]
Part(first, last, len) ==
    [kind |-> "part", start |-> first, len |-> last - first + 1, total |-> len]

Smaller(a, b) == IF a <= b THEN a ELSE b

ParseRangeHeader(h, len) ==
    IF h.first = None
    THEN IF h.last = 0 \/ len = 0
         THEN Unsatisfiable(len)
         ELSE Part(len - Smaller(h.last, len), len - 1, len)
    ELSE IF h.first >= len \/ (h.last # None /\ h.last < h.first)
         THEN Unsatisfiable(len)
         ELSE Part(h.first,
                   IF h.last = None THEN len - 1 ELSE Smaller(h.last, len - 1),
                   len)

\* Mutants: the end is exclusive; the last byte can not be asked for.
FromOffsetExclusive(off, len) ==
    IF off = 0 /\ len = 0 THEN All(len)
    ELSE IF off >= len THEN Unsatisfiable(len) ELSE Part(off, len, len)
FromOffsetShort(off, len) ==
    IF off = 0 /\ len = 0 THEN All(len)
    ELSE IF off + 1 >= len THEN Unsatisfiable(len) ELSE Part(off, len - 1, len)

\* GitLab's poll parameter `offset`.
FromOffset(off, len) ==
    IF off = 0 /\ len = 0 THEN All(len)
    ELSE IF off >= len THEN Unsatisfiable(len) ELSE Part(off, len - 1, len)

Parsable(h) == h # None /\ (h.first # None \/ h.last # None)

\* Mutant: the offset is preferred to the header.
OffsetFirst(h, off, len) ==
    IF off # None THEN FromOffset(off, len)
    ELSE IF Parsable(h) THEN ParseRangeHeader(h, len) ELSE All(len)

\* The header first, if it can be parsed, then the offset.
ResolveRange(h, off, len) ==
    IF Parsable(h) THEN ParseRangeHeader(h, len)
    ELSE IF off # None THEN FromOffset(off, len) ELSE All(len)

\* How a client that has `had` bytes asks: "range" and "offset" for what
\* follows; "both" with an offset that must not win; "first" for the first byte
\* and "tail" for the last two.
Header(a, had) ==
    CASE a \in {"range", "both"} -> [first |-> had, last |-> None]
      [] a = "junk"  -> [first |-> None, last |-> None]
      [] a = "first" -> [first |-> 0, last |-> 0]
      [] a = "tail"  -> [first |-> None, last |-> 2]
      [] OTHER -> None

Offset(a, had) ==
    CASE a \in {"offset", "junk"} -> had
      [] a = "both" -> had + 1
      [] OTHER -> None

-----------------------------------------------------------------------------
Reader == [project : Projects \cup {None}, level : Levels]

\* A request's URL, by its offset; the proxy caches by URL.
Urls == 0..(LogLen + 1) \cup {None}
Url == Offset(ask, after)

Inner == {"session", "project", "access", "job", "archived", "live", "stat", "open"}
Locations == Inner \cup {"idle", "puma", "stream"}

Init ==
    /\ log = 0 /\ job = "running"
    /\ live = FALSE /\ archived = FALSE /\ row = "none"
    /\ reader \in Reader
    /\ found = None /\ entitled = FALSE
    /\ cache = [url \in Urls |-> None]
    /\ pc = "idle" /\ ask = "plain" /\ after = 0
    /\ path = "none" /\ span = Unsatisfiable(0) /\ sent = 0
    /\ got = 0 /\ told = 0
    /\ mishaps = 0

Mishap == mishaps < MaxMishaps /\ mishaps' = mishaps + 1

\* The request is over, and so is everything it kept.
Done ==
    /\ pc' = "idle"
    /\ ask' = "plain" /\ after' = 0
    /\ path' = "none" /\ span' = Unsatisfiable(0) /\ sent' = 0
    /\ found' = None /\ entitled' = FALSE

Goto(l) == pc' = l /\ UNCHANGED <<asking, rights>>

-----------------------------------------------------------------------------
(* The request. *)

\* One poll; a request without a session cookie, among others, goes straight to
\* Puma.
Poll(a) ==
    /\ pc = "idle"
    /\ pc' \in {"session", "puma"}
    /\ ask' = a
    /\ after' = got
    /\ entitled' = CanRead
    /\ UNCHANGED <<trace, context, found, path, span, sent, follower, mishaps>>

\* The session names a user in Redis, or it does not.
Session ==
    /\ pc = "session"
    /\ Goto("project") \/ Goto("puma")
    /\ UNCHANGED <<trace, context, follower, mishaps>>

\* load_project; no such project: 404.
Project ==
    /\ pc = "project"
    /\ \/ /\ reader.project # None
          /\ pc' = "access"
          /\ found' = reader.project
          /\ UNCHANGED <<asking, entitled>>
       \/ reader.project = None /\ Done
    /\ UNCHANGED <<trace, context, follower, mishaps>>

\* load_access_level, another query, and can_read_build of the row read before;
\* not allowed: 404.
Access ==
    /\ pc = "access"
    /\ \/ /\ CanReadBuild(found, reader.level)
          /\ pc' = "job"
          /\ found' = None
          /\ UNCHANGED <<asking, entitled>>
       \/ ~CanReadBuild(found, reader.level) /\ Done
    /\ UNCHANGED <<trace, context, follower, mishaps>>

\* load_job: 404 without a job, Puma for a trace in object storage.  Artifact
\* paths are only candidates when there is an artifact row.
LoadJob ==
    /\ pc = "job"
    /\ \/ job = "deleted" /\ Done
       \/ job # "deleted" /\ row = "remote" /\ Goto("puma")
       \/ job # "deleted" /\ row = "local" /\ Goto("archived")
       \/ job # "deleted" /\ row = "none" /\ Goto("live")
    /\ UNCHANGED <<trace, context, follower, mishaps>>

Take(file) ==
    /\ pc' = "stat"
    /\ path' = file
    /\ UNCHANGED <<ask, after, span, sent, rights>>

\* select_local_trace looks at the candidates in turn.
ProbeArchive ==
    /\ pc = "archived"
    /\ \/ archived /\ Take("archive")
       \/ ~archived /\ Goto("live")
    /\ UNCHANGED <<trace, context, follower, mishaps>>

ProbeLive ==
    /\ pc = "live"
    /\ \/ live /\ Take("live")
       \/ ~live /\ Goto("puma")
    /\ UNCHANGED <<trace, context, follower, mishaps>>

Exists == (path = "archive" /\ archived) \/ (path = "live" /\ live)

\* metadata and resolve_range.  A range that cannot be satisfied, and a response
\* without a body, are answered here.
Stat ==
    /\ pc = "stat"
    /\ LET range == ResolveRange(Header(ask, after), Offset(ask, after), log)
       IN  \/ /\ Exists
              /\ ask = "head" \/ range.len = 0
              /\ Done
              /\ told' = log
           \/ /\ Exists
              /\ ask # "head" /\ range.len # 0
              /\ span' = range
              /\ pc' = "open"
              /\ UNCHANGED <<ask, after, path, sent, told, rights>>
           \/ /\ ~Exists
              /\ Goto("puma")
              /\ UNCHANGED told
    /\ UNCHANGED <<trace, context, got, mishaps>>

\* file_body: from here on the file stays readable, and it is read only as far
\* as announced.
Open ==
    /\ pc = "open"
    /\ \/ Exists /\ Goto("stream") /\ told' = span.total
       \/ ~Exists /\ Goto("puma") /\ UNCHANGED told
    /\ UNCHANGED <<trace, context, got, mishaps>>

\* The next byte of the body.  The client appends it when it is the next one it
\* misses.
Send ==
    /\ pc = "stream"
    /\ span.start + sent < log
    /\ got' = IF span.start + sent = got THEN got + 1 ELSE got
    /\ \/ /\ sent + 1 < span.len
          /\ sent' = sent + 1
          /\ UNCHANGED <<pc, ask, after, path, span, rights>>
       \/ sent + 1 = span.len /\ Done
    /\ UNCHANGED <<trace, context, told, mishaps>>

\* Mutant: an error while the membership is read does not end the fast path.
FailOpen ==
    /\ pc \in Inner
    /\ Mishap
    /\ Goto(IF pc = "access" THEN "job" ELSE "puma")
    /\ UNCHANGED <<trace, context, follower>>

\* Redis, Postgres or the file system fails, or the timeout around the whole
\* fast path expires: the request goes to Puma.
FallBack ==
    /\ pc \in Inner
    /\ Mishap
    /\ Goto("puma")
    /\ UNCHANGED <<trace, context, follower>>

\* The proxy has an earlier answer to this URL, whoever asked for it then: the
\* key is method and URL, and nobody looks at rights here.
CacheHit ==
    /\ pc = "puma"
    /\ ask # "head" /\ cache[Url] # None
    /\ Done
    /\ got' = IF cache[Url] > got THEN cache[Url] ELSE got
    /\ UNCHANGED <<trace, context, told, mishaps>>

Cached == {url \in Urls : cache[url] # None}

\* moka may decline an entry.
Remember(url, n) ==
    \/ UNCHANGED cache
    \/ /\ Cardinality(Cached) < MaxCached
       /\ cache' = [cache EXCEPT ![url] = n]

\* The proxy asks Rails, and caches what it sends.  Rails (external) sends a
\* reader the whole log as it stands, wherever it is, whatever the range; it
\* knows the same readers.  Or it fails.
Puma ==
    /\ pc = "puma"
    /\ ask = "head" \/ cache[Url] = None
    /\ Done
    /\ \/ /\ CanRead /\ job # "deleted" /\ ask # "head"
          /\ got' = log
          /\ Remember(Url, log)
          /\ UNCHANGED mishaps
       \/ /\ ~CanRead \/ job = "deleted" \/ ask = "head"
          /\ UNCHANGED <<got, cache, mishaps>>
       \/ Mishap /\ UNCHANGED <<got, cache>>
    /\ UNCHANGED <<trace, reader, told>>

\* Ten minutes after it was stored.
Expire(url) ==
    /\ cache[url] # None
    /\ cache' = [cache EXCEPT ![url] = None]
    /\ UNCHANGED <<trace, reader, rights, pc, asking, follower, mishaps>>

\* The client disconnects.
Leave ==
    /\ pc # "idle"
    /\ Mishap
    /\ Done
    /\ UNCHANGED <<trace, context, follower>>

-----------------------------------------------------------------------------
(* GitLab and its runner (external), as far as the fast path sees them. *)

request == <<context, rights, pc, asking, follower, mishaps>>

\* The project's row or the user's membership changes.  The fast path looks at
\* neither again once it has let the user in: what changes from there on counts
\* as changing when the request is over or in Puma's hands.
ChangeRights ==
    /\ pc \in {"idle", "session", "project", "access", "puma"}
    /\ \E new \in Reader :
          /\ new.project = reader.project \/ new.level = reader.level
          /\ new # reader /\ reader' = new
          /\ entitled' = \/ entitled
                         \/ pc # "idle" /\ MayRead(new)
                         \/ pc = "access" /\ Shuts(found, new.project)
    /\ UNCHANGED <<trace, cache, found, pc, asking, follower, mishaps>>

\* Another user of the project asks for the URL; Puma answers, and the proxy
\* caches it.
OtherReader(url) ==
    /\ job # "deleted" /\ cache[url] = None /\ Cardinality(Cached) < MaxCached
    /\ cache' = [cache EXCEPT ![url] = log]
    /\ UNCHANGED <<trace, reader, rights, pc, asking, follower, mishaps>>

Write ==
    /\ job = "running" /\ log < LogLen
    /\ log' = log + 1
    /\ live' = TRUE
    /\ UNCHANGED <<job, archived, row, request>>

Finish ==
    /\ job = "running"
    /\ job' = "finished"
    /\ UNCHANGED <<log, live, archived, row, request>>

\* The artifact's row and its file appear in either order ...
InsertRow ==
    /\ job = "finished" /\ row = "none"
    /\ row' = "local"
    /\ UNCHANGED <<log, job, live, archived, request>>

StoreArchive ==
    /\ job = "finished" /\ row # "remote" /\ ~archived
    /\ archived' = TRUE
    /\ UNCHANGED <<log, job, live, row, request>>

\* ... before the live file goes.
RemoveLive ==
    /\ live /\ archived /\ row = "local"
    /\ live' = FALSE
    /\ UNCHANGED <<log, job, archived, row, request>>

MoveToObjectStorage ==
    /\ row = "local" /\ archived /\ ~live
    /\ row' = "remote"
    /\ UNCHANGED <<log, job, live, archived, request>>

RemoveArchive ==
    /\ row = "remote" /\ archived
    /\ archived' = FALSE
    /\ UNCHANGED <<log, job, live, row, request>>

Delete ==
    /\ job = "finished"
    /\ job' = "deleted"
    /\ live' = FALSE /\ archived' = FALSE /\ row' = "none"
    /\ UNCHANGED <<log, request>>

-----------------------------------------------------------------------------
Step ==
    \/ Session \/ Project \/ Access \/ LoadJob \/ ProbeArchive \/ ProbeLive
    \/ Stat \/ Open \/ Send \/ CacheHit \/ Puma

Next ==
    \/ \E a \in Polls : Poll(a)
    \/ Step \/ FallBack \/ Leave
    \/ \E url \in Urls : Expire(url) \/ OtherReader(url)
    \/ ChangeRights
    \/ Write \/ Finish \/ InsertRow \/ StoreArchive \/ RemoveLive
    \/ MoveToObjectStorage \/ RemoveArchive \/ Delete

Spec == Init /\ [][Next]_vars

(***************************************************************************)
(* The runtime polls a request, Puma answers what it is sent, and a client *)
(* that follows a log asks for what follows again and again, whatever else *)
(* it asks in between.  Cached answers expire.  Nothing makes the job      *)
(* write or finish.                                                        *)
(***************************************************************************)
FairSpec ==
    /\ Spec
    /\ WF_vars(Step)
    /\ SF_vars(Poll("offset"))
    /\ \A url \in Urls : WF_vars(Expire(url))

-----------------------------------------------------------------------------
TypeOK ==
    /\ log \in 0..LogLen
    /\ job \in {"running", "finished", "deleted"}
    /\ live \in BOOLEAN /\ archived \in BOOLEAN
    /\ row \in {"none", "local", "remote"}
    /\ reader \in Reader
    /\ found \in Projects \cup {None} /\ entitled \in BOOLEAN
    /\ cache \in [Urls -> (0..LogLen) \cup {None}]
    /\ pc \in Locations /\ ask \in Polls \cup {"plain"}
    /\ after \in 0..LogLen
    /\ path \in {"none", "archive", "live"}
    /\ span \in Span
    /\ sent \in Nat
    /\ got \in 0..LogLen /\ told \in Nat
    /\ mishaps \in 0..MaxMishaps

\* A body that has been announced can be sent to its last byte: the length is
\* taken before the file is opened, but the job, the archiver and the deletion
\* never leave fewer bytes in the opened file.
Announced ==
    pc \in {"open", "stream"} =>
        /\ span.start + span.len <= log
        /\ sent < span.len

\* A poll for what follows never skips bytes: what the client puts together from
\* responses of the live file, of the archive and of Puma has no hole.
NoHole == pc \in {"open", "stream"} /\ ask # "tail" => span.start <= got

\* The fast path sends a log only to a user who could read it at some moment of
\* the request, although row and membership come from two queries and any read
\* may fail; the one exception needs the project to take the right back between
\* the two.  The cache behind the fast path gives no such promise.
ReadersOnly == pc = "stream" => entitled

\* While the log moves from the live file to the archive and on to object
\* storage, the total length the fast path reports never goes down.
TotalsGrow == [][told' >= told]_told

\* A client that keeps polling ends up with the whole log of a finished job,
\* wherever the log went meanwhile, unless the job is deleted or the client's
\* right to read it taken away.  Rights that change for ever may turn it away for
\* ever: row and membership are read apart, and may be refused together although
\* the client could read at every moment.
CatchesUp ==
    <>[][reader' = reader]_vars =>
        (job = "finished" ~> (got = log \/ job = "deleted" \/ ~CanRead))
=============================================================================
