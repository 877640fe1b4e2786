---------------------------- MODULE RailsSession ----------------------------
(***************************************************************************)
(* How a fast path finds the user of a Rails session (session.rs): the     *)
(* session's id in the cookies, its record under one of three keys in      *)
(* Redis, and the user's id in the record, which is JSON or what Ruby's    *)
(* Marshal writes.  Ids are positive; 0 stands for none.                   *)
(***************************************************************************)
EXTENDS Integers, Sequences

Byte == 0..255

\* A cookie by whether its name begins with _gitlab_session; an empty value is "".
Cookie == [session : BOOLEAN, value : STRING]

\* A record by what its reader looks for: the id under warden.user.user.key and
\* the field user_id, if it is JSON, and the bytes after that key's name.
Record == [key : Nat, id : Nat, rest : Seq(Byte)]

First(S) == CHOOSE i \in S : \A j \in S : i <= j

-----------------------------------------------------------------------------
(* Marshal. *)

Signed8(b) == IF b < 128 THEN b ELSE b - 256

\* read_marshal_fixnum at a place: a small number in one byte, or how many bytes
\* follow, the lowest first; two of them are read with a sign they do not have.
ReadMarshalFixnum(d, at) ==
    LET Has(n) == at + n <= Len(d)
    IN  CASE ~Has(0) -> 0
          [] Has(0) /\ d[at] = 0 -> 0
          [] Has(1) /\ d[at] = 1 -> d[at + 1]
          [] Has(1) /\ d[at] = 255 -> Signed8(d[at + 1])
          [] Has(2) /\ d[at] \in {2, 254} -> d[at + 1] + 256 * Signed8(d[at + 2])
          [] Has(3) /\ d[at] = 3 -> d[at + 1] + 256 * d[at + 2] + 65536 * d[at + 3]
          [] Has(4) /\ d[at] = 4 ->
                d[at + 1] + 256 * d[at + 2] + 65536 * d[at + 3]
                    + 16777216 * Signed8(d[at + 4])
          [] Has(0) /\ d[at] \notin {0, 1, 2, 3, 4, 254, 255} -> Signed8(d[at]) - 5
          [] OTHER -> 0

\* Where an i is followed by a positive number.
Hits(d) ==
    {i \in 1..Len(d) : /\ i <= 80 /\ d[i] = 105
                       /\ ReadMarshalFixnum(d, i + 1) > 0}

UserIdFromMarshal(d) ==
    IF Hits(d) = {} THEN 0 ELSE ReadMarshalFixnum(d, First(Hits(d)) + 1)

\* user_id_from_session_bytes, user_id_from_json
UserIdFromSessionBytes(s) ==
    IF s.key > 0 THEN s.key
    ELSE IF s.id > 0 THEN s.id
    ELSE UserIdFromMarshal(s.rest)

-----------------------------------------------------------------------------
(* Cookie and Redis. *)

SessionIdFromCookieHeader(cookies) ==
    LET named == {i \in 1..Len(cookies) : cookies[i].session /\ cookies[i].value # ""}
    IN  IF named = {} THEN "" ELSE cookies[First(named)].value

RedisSessionKeys(id) ==
    <<<<"session:gitlab:", id>>, <<"session:gitlab:2::", id>>, <<"", id>>>>

\* load_session_user_id: the first key whose record yields an id.
LoadSessionUserId(redis, id) ==
    LET keys == RedisSessionKeys(id)
        found == {k \in 1..3 : /\ keys[k] \in DOMAIN redis
                               /\ UserIdFromSessionBytes(redis[keys[k]]) > 0}
    IN  IF id = "" \/ found = {} THEN 0
        ELSE UserIdFromSessionBytes(redis[keys[First(found)]])

-----------------------------------------------------------------------------
(* What Rails writes (external). *)

\* Ruby's encoding of a positive id.
Writes(d, at, id) ==
    \/ id <= 122 /\ at <= Len(d) /\ d[at] = id + 5
    \/ 122 < id /\ id < 256 /\ at + 1 <= Len(d) /\ d[at] = 1 /\ d[at + 1] = id
    \/ /\ 256 <= id /\ id < 65536 /\ at + 2 <= Len(d)
       /\ d[at] = 2 /\ d[at + 1] + 256 * d[at + 2] = id
    \/ /\ 65536 <= id /\ id < 16777216 /\ at + 3 <= Len(d)
       /\ d[at] = 3 /\ d[at + 1] + 256 * d[at + 2] + 65536 * d[at + 3] = id

\* The first i behind the key's name announces the id.
MarshalNames(d, id) ==
    \E i \in 1..Len(d) : /\ i <= 80 /\ d[i] = 105
                         /\ \A j \in 1..(i - 1) : d[j] # 105
                         /\ Writes(d, i + 1, id)

Names(s, id) ==
    \/ s.key = id
    \/ s.key = 0 /\ s.id = id
    \/ s.key = 0 /\ s.id = 0 /\ MarshalNames(s.rest, id)

\* Ids that Ruby writes in two bytes and the reader takes for negative ones.
Misread == 32768..65535
=============================================================================
