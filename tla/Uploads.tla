------------------------------ MODULE Uploads --------------------------------
(***************************************************************************)
(* Uploads.  An "artifact" is a multipart form whose files this process    *)
(* writes to a directory Rails reads too, replacing each by signed fields  *)
(* with its path (upload/accelerate.rs); an "avatar" is one body kept the  *)
(* same way, unsigned (routes/uploads.rs); a "direct" upload is collected  *)
(* in a buffer of the memory pool and written to a directory of this       *)
(* process (upload/mod.rs, memory/mod.rs).  Requests run side by side, and *)
(* each may break off at any read or write: the client leaves, the disk is *)
(* full, Rails fails.                                                      *)
(*                                                                         *)
(* Bytes are counted, a chunk is one byte.  A file is named by the request *)
(* and the part it was written for; Uuid::new_v4 never repeats.            *)
(***************************************************************************)
EXTENDS Naturals, Sequences, FiniteSets

CONSTANTS
    Requests,
    Forms,      \* what clients may send
    MaxSize,    \* bytes of one file, of one avatar and of one direct upload
    BodyLimit,  \* bytes of a multipart body, axum's default for Multipart
    MaxFiles,   \* files of one form
    MaxPool,    \* buffers the memory pool keeps
    None        \* no buffer

\* The parts of a form: a text field, a file, a file whose name is refused, a
\* field without a name, and one whose name ends like the fields of an
\* accepted file.
Part == [kind : {"text", "file", "badname", "nameless", "reserved"}, size : Nat]
Form == [kind : {"artifact", "avatar", "direct"}, parts : Seq(Part)]

ASSUME ConstantsOK ==
    /\ Forms \subseteq Form
    /\ \A f \in Forms : f.kind = "avatar" =>
          Len(f.parts) = 1 /\ f.parts[1].kind = "file"
    /\ MaxSize \in Nat /\ BodyLimit \in Nat /\ MaxFiles \in Nat /\ MaxPool \in Nat
    /\ None \notin Nat

VARIABLES
    form,     \* what each client sends
    pc,       \* where its handler is
    outcome,  \* how it was answered
    at,       \* the part its handler is at
    size,     \* bytes of that part it wrote or collected
    read,     \* bytes of the body it read
    files,    \* files it counted
    fields,   \* paths and sizes in the form it builds for Rails
    stored,   \* the files on disk: how many bytes each has
    pool,     \* the bytes each buffer in the pool still holds, the oldest first
    held      \* the bytes in the buffer each request uses

handler == <<form, at, size, read, files, fields>>
memory == <<pool, held>>
vars == <<handler, pc, outcome, stored, memory>>

Paths == Requests \X Nat
Places == {"idle", "parts", "text", "chunks", "collect", "write", "forward", "rails",
           "acquire", "bytes", "save"}
Outcomes == {"none", "accepted", "refused", "stored", "400", "413", "broken"}

Init ==
    /\ form \in [Requests -> Forms]
    /\ pc = [r \in Requests |-> "idle"]
    /\ outcome = [r \in Requests |-> "none"]
    /\ at = [r \in Requests |-> 1] /\ size = [r \in Requests |-> 0]
    /\ read = [r \in Requests |-> 0] /\ files = [r \in Requests |-> 0]
    /\ fields = [r \in Requests |-> {}]
    /\ stored = [p \in {} |-> 0]
    /\ pool = <<>> /\ held = [r \in Requests |-> None]

Current(r) == form[r].parts[at[r]]
Path(r) == <<r, at[r]>>

Put(p, n) == stored' = [q \in DOMAIN stored \cup {p} |-> IF q = p THEN n ELSE stored[q]]
Remove(S) == stored' = [q \in DOMAIN stored \ S |-> stored[q]]

Goto(r, place) == pc' = [pc EXCEPT ![r] = place] /\ UNCHANGED outcome
End(r, how) == /\ pc' = [pc EXCEPT ![r] = "idle"]
               /\ outcome' = [outcome EXCEPT ![r] = how]

\* The next part, none of which has been read.
NextPart(r) == /\ at' = [at EXCEPT ![r] = @ + 1]
               /\ size' = [size EXCEPT ![r] = 0]

\* One more byte of the part.
ReadByte(r) == /\ size' = [size EXCEPT ![r] = @ + 1]
               /\ read' = [read EXCEPT ![r] = @ + 1]

Start(r) ==
    /\ pc[r] = "idle" /\ outcome[r] = "none"
    /\ Goto(r, CASE form[r].kind = "artifact" -> "parts"
                 [] form[r].kind = "avatar" -> "collect"
                 [] form[r].kind = "direct" -> "acquire")
    /\ UNCHANGED <<handler, stored, memory>>

\* The request ends where it is: a read or write fails or the client is gone.
\* What it wrote stays; a buffer it holds is freed, not pooled.
Break(r) ==
    /\ pc[r] # "idle"
    /\ End(r, "broken")
    /\ held' = [held EXCEPT ![r] = None]
    /\ UNCHANGED <<handler, stored, pool>>

-----------------------------------------------------------------------------
(* rewrite_multipart and persist_file_field. *)

\* Mutant: a field that looks like an accepted file's is passed on.
PassReserved(r) ==
    /\ pc[r] = "parts" /\ at[r] <= Len(form[r].parts)
    /\ Current(r).kind \in {"nameless", "reserved"}
    /\ NextPart(r)
    /\ UNCHANGED <<form, read, files, fields, pc, outcome, stored, memory>>

\* A field without a name is left out, one with a reserved name ends it all.  That
\* encode_multipart_fields writes names unescaped is abstracted away.
LookAtField(r) ==
    /\ pc[r] = "parts" /\ at[r] <= Len(form[r].parts)
    /\ \/ /\ Current(r).kind = "nameless"
          /\ NextPart(r)
          /\ UNCHANGED <<pc, outcome>>
       \/ /\ Current(r).kind = "reserved"
          /\ End(r, "400")
          /\ UNCHANGED <<at, size>>
       \/ /\ Current(r).kind = "text"
          /\ Goto(r, "text")
          /\ UNCHANGED <<at, size>>
    /\ UNCHANGED <<form, read, files, fields, stored, memory>>

\* field.text(): the whole field at once, within the body's limit.
ReadText(r) ==
    /\ pc[r] = "text"
    /\ \/ /\ read[r] + Current(r).size <= BodyLimit
          /\ read' = [read EXCEPT ![r] = @ + Current(r).size]
          /\ NextPart(r)
          /\ Goto(r, "parts")
       \/ /\ read[r] + Current(r).size > BodyLimit
          /\ End(r, "400")
          /\ UNCHANGED <<read, at, size>>
    /\ UNCHANGED <<form, files, fields, stored, memory>>

\* A file is counted, its name checked, and an empty file created.
CreateFile(r) ==
    /\ pc[r] = "parts" /\ at[r] <= Len(form[r].parts)
    /\ Current(r).kind \in {"file", "badname"}
    /\ files' = [files EXCEPT ![r] = @ + 1]
    /\ \/ /\ files[r] >= MaxFiles \/ Current(r).kind = "badname"
          /\ End(r, "400")
          /\ UNCHANGED stored
       \/ /\ files[r] < MaxFiles /\ Current(r).kind = "file"
          /\ Goto(r, "chunks")
          /\ Put(Path(r), 0)
    /\ UNCHANGED <<form, at, size, read, fields, memory>>

\* Mutant: a chunk that cannot be read is taken for the end of the file.
LimitEndsFile(r) ==
    /\ pc[r] = "chunks" /\ size[r] < Current(r).size
    /\ read[r] = BodyLimit
    /\ fields' = [fields EXCEPT ![r] = @ \cup {[path |-> Path(r), size |-> size[r]]}]
    /\ NextPart(r)
    /\ Goto(r, "parts")
    /\ UNCHANGED <<form, read, files, stored, memory>>

\* The body's limit makes the chunk unreadable: the file stays as it is.
LimitReached(r) ==
    /\ pc[r] = "chunks" /\ size[r] < Current(r).size
    /\ read[r] = BodyLimit
    /\ End(r, "400")
    /\ UNCHANGED <<handler, stored, memory>>

\* Mutant: the limit is looked at after the chunk was written.
WriteBeforeCheck(r) ==
    /\ pc[r] = "chunks" /\ size[r] < Current(r).size /\ read[r] < BodyLimit
    /\ Put(Path(r), size[r] + 1)
    /\ \/ size[r] <= MaxSize /\ UNCHANGED <<pc, outcome>>
       \/ size[r] > MaxSize /\ End(r, "413")
    /\ ReadByte(r)
    /\ UNCHANGED <<form, at, files, fields, memory>>

\* Too much: the file is removed, which may fail unnoticed.
Chunk(r) ==
    /\ pc[r] = "chunks" /\ size[r] < Current(r).size /\ read[r] < BodyLimit
    /\ \/ /\ size[r] < MaxSize
          /\ Put(Path(r), size[r] + 1)
          /\ UNCHANGED <<pc, outcome>>
       \/ /\ size[r] = MaxSize
          /\ Remove({Path(r)}) \/ UNCHANGED stored
          /\ End(r, "413")
    /\ ReadByte(r)
    /\ UNCHANGED <<form, at, files, fields, memory>>

\* The part is over: flush, and the fields with path, size and signature.
Sign(r) ==
    /\ pc[r] = "chunks" /\ size[r] = Current(r).size
    /\ fields' = [fields EXCEPT ![r] = @ \cup {[path |-> Path(r), size |-> size[r]]}]
    /\ NextPart(r)
    /\ Goto(r, "parts")
    /\ UNCHANGED <<form, read, files, stored, memory>>

\* encode_multipart_fields, the list of rewritten fields signed.
Encode(r) ==
    /\ pc[r] = "parts" /\ at[r] > Len(form[r].parts)
    /\ Goto(r, "forward")
    /\ UNCHANGED <<handler, stored, memory>>

-----------------------------------------------------------------------------
(* handle_avatar_upload: a body of one part. *)

\* The whole body is collected before its size is looked at.
Collect(r) ==
    /\ pc[r] = "collect"
    /\ read' = [read EXCEPT ![r] = Current(r).size]
    /\ \/ Current(r).size > MaxSize /\ End(r, "413") /\ UNCHANGED stored
       \/ Current(r).size <= MaxSize /\ Goto(r, "write") /\ Put(Path(r), 0)
    /\ UNCHANGED <<form, at, size, files, fields, memory>>

WriteAvatar(r) ==
    /\ pc[r] = "write"
    /\ Put(Path(r), Current(r).size)
    /\ fields' = [fields EXCEPT ![r] = {[path |-> Path(r), size |-> Current(r).size]}]
    /\ Goto(r, "forward")
    /\ UNCHANGED <<form, at, size, read, files, memory>>

-----------------------------------------------------------------------------
(* Rails (external). *)

\* Rails gets the form.
Forward(r) ==
    /\ pc[r] = "forward"
    /\ Goto(r, "rails")
    /\ UNCHANGED <<handler, stored, memory>>

\* It takes the files it was told of away, or leaves them where they are.
Accept(r) ==
    /\ pc[r] = "rails"
    /\ End(r, "accepted")
    /\ Remove({f.path : f \in fields[r]})
    /\ UNCHANGED <<handler, memory>>

Decline(r) ==
    /\ pc[r] = "rails"
    /\ End(r, "refused")
    /\ UNCHANGED <<handler, stored, memory>>

-----------------------------------------------------------------------------
(* handle_upload and the memory pool. *)

\* Mutant: the buffer is not cleared.
AcquireUncleared(r) ==
    /\ pc[r] = "acquire"
    /\ held' = [held EXCEPT ![r] = IF pool = <<>> THEN 0 ELSE Head(pool)]
    /\ pool' = IF pool = <<>> THEN pool ELSE Tail(pool)
    /\ Put(<<r, 0>>, 0)
    /\ Goto(r, "bytes")
    /\ UNCHANGED handler

\* The oldest buffer of the pool, cleared, or a new one; and an empty file.
Acquire(r) ==
    /\ pc[r] = "acquire"
    /\ held' = [held EXCEPT ![r] = 0]
    /\ pool' = IF pool = <<>> THEN pool ELSE Tail(pool)
    /\ Put(<<r, 0>>, 0)
    /\ Goto(r, "bytes")
    /\ UNCHANGED handler

\* Given back as it is, with what was collected.
Release(r) ==
    /\ held' = [held EXCEPT ![r] = None]
    /\ pool' = IF Len(pool) < MaxPool THEN Append(pool, held[r]) ELSE pool

\* field.bytes() of one part; too much in all: 413, the buffer goes back, the
\* empty file stays.
ReadField(r) ==
    /\ pc[r] = "bytes" /\ at[r] <= Len(form[r].parts)
    /\ read[r] + Current(r).size <= BodyLimit
    /\ read' = [read EXCEPT ![r] = @ + Current(r).size]
    /\ \/ /\ read'[r] <= MaxSize
          /\ held' = [held EXCEPT ![r] = @ + Current(r).size]
          /\ NextPart(r)
          /\ UNCHANGED <<pc, outcome, pool>>
       \/ /\ read'[r] > MaxSize
          /\ End(r, "413")
          /\ Release(r)
          /\ UNCHANGED <<at, size>>
    /\ UNCHANGED <<form, files, fields, stored>>

FieldTooLong(r) ==
    /\ pc[r] = "bytes" /\ at[r] <= Len(form[r].parts)
    /\ read[r] + Current(r).size > BodyLimit
    /\ End(r, "400")
    /\ held' = [held EXCEPT ![r] = None]
    /\ UNCHANGED <<handler, stored, pool>>

WriteAll(r) ==
    /\ pc[r] = "bytes" /\ at[r] > Len(form[r].parts)
    /\ Put(<<r, 0>>, held[r])
    /\ Goto(r, "save")
    /\ UNCHANGED <<handler, memory>>

Save(r) ==
    /\ pc[r] = "save"
    /\ End(r, "stored")
    /\ Release(r)
    /\ UNCHANGED <<handler, stored>>

-----------------------------------------------------------------------------
Step(r) ==
    \/ Start(r) \/ Break(r)
    \/ LookAtField(r) \/ ReadText(r) \/ CreateFile(r) \/ LimitReached(r)
    \/ Chunk(r) \/ Sign(r) \/ Encode(r)
    \/ Collect(r) \/ WriteAvatar(r)
    \/ Forward(r) \/ Accept(r) \/ Decline(r)
    \/ Acquire(r) \/ ReadField(r) \/ FieldTooLong(r) \/ WriteAll(r) \/ Save(r)

Next == \E r \in Requests : Step(r)

Spec == Init /\ [][Next]_vars

-----------------------------------------------------------------------------
TypeOK ==
    /\ form \in [Requests -> Forms]
    /\ pc \in [Requests -> Places] /\ outcome \in [Requests -> Outcomes]
    /\ at \in [Requests -> Nat \ {0}]
    /\ size \in [Requests -> Nat] /\ read \in [Requests -> Nat]
    /\ files \in [Requests -> Nat]
    /\ fields \in [Requests -> SUBSET [path : Paths, size : Nat]]
    /\ \A r \in Requests : \A f \in fields[r] : f.path[1] = r
    /\ DOMAIN stored \subseteq Paths /\ \A p \in DOMAIN stored : stored[p] \in Nat
    /\ pool \in Seq(Nat) /\ held \in [Requests -> Nat \cup {None}]

\* What Rails is told of, while it looks, are files this process wrote for this
\* very form, whole: every file of the form, under the size it has on disk, and
\* nothing the client wrote into the form itself.
ToldOfStoredFiles ==
    \A r \in Requests : pc[r] = "rails" =>
        /\ {f.path[2] : f \in fields[r]} =
              {i \in DOMAIN form[r].parts : form[r].parts[i].kind = "file"}
        /\ \A f \in fields[r] : /\ f.path[1] = r
                                /\ f.path \in DOMAIN stored
                                /\ stored[f.path] = f.size
                                /\ f.size = form[r].parts[f.path[2]].size
        /\ \A i \in DOMAIN form[r].parts : form[r].parts[i].kind # "reserved"

\* No file on disk is ever larger than the limit, not even one that is refused.
WithinSize == \A p \in DOMAIN stored : stored[p] <= MaxSize

\* A file that holds less than its part belongs to a request that still writes
\* it, or was told that it failed: no part is cut short and the form sent on.
CutOnlyByFailure ==
    \A p \in DOMAIN stored :
        LET r == p[1] IN
        p[2] # 0 /\ stored[p] # form[r].parts[p[2]].size =>
            pc[r] \in {"chunks", "write"} \/ outcome[r] \in {"broken", "400", "413"}

\* The file of a direct upload that succeeded holds exactly the bytes of its own
\* body, although buffers go back to the pool with what an earlier upload, or a
\* refused one, left in them.
OwnBytes ==
    \A r \in Requests : outcome[r] = "stored" =>
        <<r, 0>> \in DOMAIN stored /\ stored[<<r, 0>>] = read[r]

-----------------------------------------------------------------------------
(* Why they hold, inductively. *)

\* What the place of a request says: it runs until it is answered, has done nothing
\* before it starts, is where the part it is at is dealt with, and has a buffer
\* while it collects.
Placed ==
    \A r \in Requests :
        /\ pc[r] # "idle" => outcome[r] = "none"
        /\ pc[r] \in {"idle", "collect", "write", "acquire"} /\ outcome[r] = "none" =>
              at[r] = 1 /\ fields[r] = {}
        /\ pc[r] \in {"idle", "acquire"} /\ outcome[r] = "none" => read[r] = 0
        /\ pc[r] \in {"idle", "parts", "text"} /\ outcome[r] = "none" => size[r] = 0
        /\ pc[r] \in {"collect", "write"} => form[r].kind = "avatar"
        /\ pc[r] = "text" => at[r] \in DOMAIN form[r].parts /\ Current(r).kind = "text"
        /\ held[r] # None <=> pc[r] \in {"bytes", "save"}

\* What is read or counted is known to fit before it is written.
Fits ==
    \A r \in Requests :
        /\ pc[r] = "write" => Current(r).size <= MaxSize
        /\ pc[r] \in {"bytes", "save"} => held[r] = read[r] /\ read[r] <= MaxSize

\* The file being written holds the bytes read of the part it stands for.
Writing ==
    \A r \in Requests : pc[r] = "chunks" =>
        /\ at[r] \in DOMAIN form[r].parts /\ Current(r).kind = "file"
        /\ Path(r) \in DOMAIN stored /\ stored[Path(r)] = size[r]

\* Only the file of the part a request is at may still be short.
Whole ==
    \A p \in DOMAIN stored :
        LET r == p[1] IN
        p[2] # 0 =>
            \/ stored[p] = form[r].parts[p[2]].size
            \/ outcome[r] \in {"broken", "400", "413"}
            \/ pc[r] \in {"chunks", "write"} /\ p = Path(r)

\* The parts a form's rewriting is done with.
Passed(r) == {i \in DOMAIN form[r].parts : i < at[r] \/ pc[r] \in {"forward", "rails"}}

\* What Rails will be told of is right about every part passed so far.
Told ==
    \A r \in Requests : pc[r] \in {"parts", "text", "chunks", "forward", "rails"} =>
        /\ {f.path[2] : f \in fields[r]} =
              {i \in Passed(r) : form[r].parts[i].kind = "file"}
        /\ \A f \in fields[r] : /\ f.path[1] = r
                                /\ f.path \in DOMAIN stored
                                /\ stored[f.path] = f.size
                                /\ f.size = form[r].parts[f.path[2]].size
        /\ \A i \in Passed(r) : form[r].parts[i].kind # "reserved"

\* What was written of a direct upload stays as it is.
Kept ==
    \A r \in Requests : pc[r] = "save" \/ outcome[r] = "stored" =>
        <<r, 0>> \in DOMAIN stored /\ stored[<<r, 0>>] = read[r]
=============================================================================
