----------------------------- MODULE ImageCache -----------------------------
(***************************************************************************)
(* Image conversion: WebPConverter, whose one cache every image response   *)
(* shares, and its three callers: the proxy for desktop and for mobile     *)
(* clients (the latter scaled down) and the asset server.  A conversion    *)
(* looks its result up, encodes on a miss and inserts, and other requests  *)
(* run between those steps.                                                *)
(*                                                                         *)
(* A converted image is what it was made of, its format and whether it was *)
(* scaled; encoding is deterministic, so whether the result is smaller     *)
(* than the original is a property of the image.                           *)
(***************************************************************************)
EXTENDS Naturals

CONSTANTS
    Requests,     \* request slots; a slot is used again and again
    Images,       \* byte contents of PNG and JPEG bodies
    Convertible,  \* those of at least 1024 bytes that can be decoded
    Shrinks,      \* the encodings that are smaller than their original
    Routes,       \* callers used: a subset of Callers
    None          \* no encoding

Callers == {"desktop", "mobile", "asset"}
Format == {"avif", "webp"}
Encoding == [of : Images, format : Format, scaled : BOOLEAN]

ASSUME ConstantsOK ==
    /\ Convertible \subseteq Images
    /\ Shrinks \subseteq Encoding
    /\ Routes \subseteq Callers
    /\ None \notin Encoding

VARIABLES
    pc,      \* where each request is
    asked,   \* its image, the formats it accepts and its caller
    target,  \* the format the running conversion aims at
    output,  \* the result of that conversion, or None
    reply,   \* how it was answered: the label and the bytes; None: not yet
    cache,   \* WebPConverter.cache
    made     \* history: who had which picture encoded at full size, and as what

vars == <<pc, asked, target, output, reply, cache, made>>

Scaled(r) == asked[r].route = "mobile"

\* What the conversion yields: a value of the input bytes.
Encode(i, f, s) == [of |-> i, format |-> f, scaled |-> s]

\* Mutant: the dimension is left out of the key.
KeyWithoutSize(i, f, s) == [of |-> i, scaled |-> FALSE, tag |-> "none"]

\* Mutant: the scaled pictures, too, share one key for both formats.
KeyWithoutTag(i, f, s) == [of |-> i, scaled |-> s, tag |-> "none"]

\* The cache keys: the bytes themselves, whatever the format; the bytes and
\* the dimension; or "avif:", the bytes and the dimension.  The code strings
\* these together; two pictures whose strings coincide are not among Images.
CacheKey(i, f, s) == [of |-> i, scaled |-> s, tag |-> IF s THEN f ELSE "none"]
Key == [of : Images, scaled : BOOLEAN, tag : Format \cup {"none"}]

\* best_supported_format
Best(accepts) == IF "avif" \in accepts THEN "avif" ELSE "webp"

\* The proxy converts only for clients that accept WebP, whatever it then
\* prefers; the asset server for clients that accept either.
Converts(request) ==
    \/ "webp" \in request.accepts
    \/ request.route = "asset" /\ "avif" \in request.accepts

Request == [image : Images, accepts : SUBSET Format, route : Routes]
Reply == [label : Format \cup {"original"}, bytes : Encoding \cup {None}]
Made == [accepts : SUBSET Format, of : Images, format : Format]
Original == [label |-> "original", bytes |-> None]

Init ==
    /\ pc = [r \in Requests |-> "idle"]
    /\ asked \in [Requests -> Request]
    /\ asked = [r \in Requests |-> CHOOSE q \in Request : TRUE]
    /\ target = [r \in Requests |-> "webp"]
    /\ output = [r \in Requests |-> None]
    /\ reply = [r \in Requests |-> None]
    /\ cache = [k \in Key |-> None]
    /\ made = {}

Goto(r, l) == pc' = [pc EXCEPT ![r] = l]

Answer(r, a) ==
    /\ Goto(r, "idle")
    /\ reply' = [reply EXCEPT ![r] = a]
    /\ output' = [output EXCEPT ![r] = None]
    /\ target' = [target EXCEPT ![r] = "webp"]

\* A response with an image body, on its way to a client.
Arrive(r) ==
    /\ pc[r] = "idle"
    /\ \E q \in Request :
          /\ asked' = [asked EXCEPT ![r] = q]
          /\ \/ /\ Converts(q)
                /\ Goto(r, "lookup")
                /\ target' = [target EXCEPT ![r] = Best(q.accepts)]
                /\ reply' = [reply EXCEPT ![r] = None]
                /\ UNCHANGED output
             \/ /\ ~Converts(q)
                /\ Answer(r, Original)
    /\ UNCHANGED <<cache, made>>

KeyOf(r) == CacheKey(asked[r].image, target[r], Scaled(r))

Lookup(r) ==
    /\ pc[r] = "lookup"
    /\ output' = [output EXCEPT ![r] = cache[KeyOf(r)]]
    /\ Goto(r, IF cache[KeyOf(r)] = None THEN "encode" ELSE "judge")
    /\ UNCHANGED <<asked, target, reply, cache, made>>

\* Decode, scale down, encode; an image that is too small or cannot be decoded
\* has no result.
Convert(r) ==
    /\ pc[r] = "encode"
    /\ \/ /\ asked[r].image \in Convertible
          /\ output' = [output EXCEPT ![r] =
                            Encode(asked[r].image, target[r], Scaled(r))]
          /\ made' = IF Scaled(r) THEN made ELSE
                     made \cup {[accepts |-> asked[r].accepts,
                                of |-> asked[r].image, format |-> target[r]]}
          /\ Goto(r, "insert")
       \/ /\ asked[r].image \notin Convertible
          /\ Goto(r, "judge")
          /\ UNCHANGED <<output, made>>
    /\ UNCHANGED <<asked, target, reply, cache>>

Insert(r) ==
    /\ pc[r] = "insert"
    /\ cache' = [cache EXCEPT ![KeyOf(r)] = output[r]]
    /\ Goto(r, "judge")
    /\ UNCHANGED <<asked, target, output, reply, made>>

\* A result is only used when it is smaller than the original.
Pays(r) == output[r] # None /\ output[r] \in Shrinks

Use(r) ==
    /\ pc[r] = "judge"
    /\ Pays(r)
    /\ Answer(r, [label |-> target[r], bytes |-> output[r]])
    /\ UNCHANGED <<asked, cache, made>>

\* The proxy falls back from AVIF to WebP, through a second conversion ...
FallBack(r) ==
    /\ pc[r] = "judge"
    /\ ~Pays(r)
    /\ target[r] = "avif" /\ asked[r].route # "asset"
    /\ target' = [target EXCEPT ![r] = "webp"]
    /\ output' = [output EXCEPT ![r] = None]
    /\ Goto(r, "lookup")
    /\ UNCHANGED <<asked, reply, cache, made>>

\* ... and everything else falls back to the original.
KeepOriginal(r) ==
    /\ pc[r] = "judge"
    /\ ~Pays(r)
    /\ target[r] = "webp" \/ asked[r].route = "asset"
    /\ Answer(r, Original)
    /\ UNCHANGED <<asked, cache, made>>

\* moka (external): an hour without a use, or the cache is full.
Evict(k) ==
    /\ cache[k] # None
    /\ cache' = [cache EXCEPT ![k] = None]
    /\ UNCHANGED <<pc, asked, target, output, reply, made>>

Next ==
    \/ \E r \in Requests :
          \/ Arrive(r) \/ Lookup(r) \/ Convert(r) \/ Insert(r)
          \/ Use(r) \/ FallBack(r) \/ KeepOriginal(r)
    \/ \E k \in Key : Evict(k)

Spec == Init /\ [][Next]_vars

-----------------------------------------------------------------------------

TypeOK ==
    /\ pc \in [Requests -> {"idle", "lookup", "encode", "insert", "judge"}]
    /\ asked \in [Requests -> Request]
    /\ target \in [Requests -> Format]
    /\ output \in [Requests -> Encoding \cup {None}]
    /\ reply \in [Requests -> Reply \cup {None}]
    /\ cache \in [Key -> Encoding \cup {None}]
    /\ made \subseteq Made

Converted(r) == reply[r] # None /\ reply[r].bytes # None

\* Whatever another request left in the cache, a client is shown the picture it
\* asked for, scaled down exactly when it is mobile.
RightPicture ==
    \A r \in Requests : Converted(r) =>
        /\ reply[r].bytes.of = asked[r].image
        /\ reply[r].bytes.scaled = Scaled(r)

\* The pictures, and formats, that were encoded at full size for somebody who
\* takes that format.
MadeForTakers ==
    {<<m.of, m.format>> : m \in {n \in made : n.format \in n.accepts}}

\* A client is never sent more bytes than the original has, nor a label it does
\* not accept, also not by the fallback.  The bytes are of the type the label
\* says when they were scaled down.  At full size both formats share a key: the
\* bytes may be of the other type, which the client need not accept, but only
\* if the same picture was encoded so, whoever came first, for one that does.
NeverWorse ==
    \A r \in Requests : Converted(r) =>
        /\ reply[r].bytes \in Shrinks
        /\ reply[r].label \in asked[r].accepts
        /\ \/ reply[r].bytes.format = reply[r].label
           \/ /\ ~Scaled(r)
              /\ <<asked[r].image, reply[r].bytes.format>> \in MadeForTakers

\* What the proofs rest on: an entry was made from its key's bytes, a result at
\* hand from its request's, both in the format their key tells or for somebody
\* who takes it, and a conversion aims at a format its client takes.
Kept ==
    /\ \A k \in Key : cache[k] # None =>
          /\ cache[k].of = k.of /\ cache[k].scaled = k.scaled
          /\ k.scaled => cache[k].format = k.tag
          /\ ~k.scaled => <<k.of, cache[k].format>> \in MadeForTakers
    /\ \A r \in Requests : pc[r] = "idle" => output[r] = None
    /\ \A r \in Requests : pc[r] # "idle" =>
          /\ Converts(asked[r])
          /\ target[r] \in asked[r].accepts
          /\ pc[r] = "insert" => output[r] # None
          /\ output[r] # None =>
                /\ output[r].of = asked[r].image
                /\ output[r].scaled = Scaled(r)
                /\ Scaled(r) => output[r].format = target[r]
                /\ ~Scaled(r) => <<asked[r].image, output[r].format>> \in MadeForTakers
=============================================================================
