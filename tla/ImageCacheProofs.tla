-------------------------- MODULE ImageCacheProofs --------------------------
(* What clients are shown although all conversions share one cache, for any *)
(* number of images and requests and whatever the encoders make of them.    *)
EXTENDS ImageCache, TLAPS

\* What a key stands for is what the conversion that computes it works on.
LEMMA KeyFacts ==
    ASSUME NEW i \in Images, NEW f \in Format, NEW s \in BOOLEAN
    PROVE  /\ CacheKey(i, f, s) \in Key
           /\ CacheKey(i, f, s).of = i /\ CacheKey(i, f, s).scaled = s
           /\ s => CacheKey(i, f, s).tag = f
  BY Zenon DEF CacheKey, Key

LEMMA EncodeFacts ==
    ASSUME NEW i \in Images, NEW f \in Format, NEW s \in BOOLEAN
    PROVE  /\ Encode(i, f, s) \in Encoding
           /\ Encode(i, f, s) # None
           /\ Encode(i, f, s).of = i /\ Encode(i, f, s).scaled = s
           /\ Encode(i, f, s).format = f
  BY ConstantsOK DEF Encode, Encoding

\* The format a conversion starts with is one its client accepts.
LEMMA BestAccepted ==
    ASSUME NEW q \in Request, Converts(q)
    PROVE  Best(q.accepts) \in Format /\ Best(q.accepts) \in q.accepts
  BY DEF Best, Request, Converts, Format

\* Slots and cache keep their types.
THEOREM TypeCorrect == Spec => []TypeOK
<1>1. Init => TypeOK
  BY DEF Init, TypeOK, Format
<1>2. TypeOK /\ [Next]_vars => TypeOK'
  <2> SUFFICES ASSUME TypeOK, [Next]_vars PROVE TypeOK'
    OBVIOUS
  <2> USE DEF TypeOK, Goto
  <2>0. Original \in Reply
    BY DEF Original, Reply
  <2>00. "webp" \in Format
    BY DEF Format
  <2>1. ASSUME NEW r \in Requests, Arrive(r) PROVE TypeOK'
    <3>1. PICK q \in Request :
            /\ asked' = [asked EXCEPT ![r] = q]
            /\ \/ /\ Converts(q)
                  /\ Goto(r, "lookup")
                  /\ target' = [target EXCEPT ![r] = Best(q.accepts)]
                  /\ reply' = [reply EXCEPT ![r] = None]
                  /\ UNCHANGED output
               \/ /\ ~Converts(q)
                  /\ Answer(r, Original)
      BY <2>1 DEF Arrive
    <3>2. cache' = cache /\ made' = made
      BY <2>1 DEF Arrive
    <3>3. CASE Converts(q)
      BY <3>1, <3>2, <3>3, BestAccepted
    <3>4. CASE ~Converts(q)
      BY <3>1, <3>2, <3>4, <2>0, <2>00 DEF Answer
    <3> QED
      BY <3>3, <3>4
  <2>2. ASSUME NEW r \in Requests, Lookup(r) PROVE TypeOK'
    <3>1. KeyOf(r) \in Key
      BY KeyFacts DEF KeyOf, Request, Scaled
    <3> QED
      BY <2>2, <3>1 DEF Lookup
  <2>3. ASSUME NEW r \in Requests, Convert(r) PROVE TypeOK'
    <3>1. Encode(asked[r].image, target[r], Scaled(r)) \in Encoding
      BY EncodeFacts DEF Request, Scaled
    <3>2. [accepts |-> asked[r].accepts, of |-> asked[r].image,
           format |-> target[r]] \in Made
      BY DEF Request, Made
    <3> QED
      BY <2>3, <3>1, <3>2 DEF Convert
  <2>4. ASSUME NEW r \in Requests, Insert(r) PROVE TypeOK'
    BY <2>4 DEF Insert
  <2>5. ASSUME NEW r \in Requests, Use(r) PROVE TypeOK'
    <3>1. [label |-> target[r], bytes |-> output[r]] \in Reply
      BY DEF Reply
    <3> QED
      BY <2>5, <3>1, <2>00 DEF Use, Answer
  <2>6. ASSUME NEW r \in Requests, FallBack(r) PROVE TypeOK'
    BY <2>6, <2>00 DEF FallBack
  <2>7. ASSUME NEW r \in Requests, KeepOriginal(r) PROVE TypeOK'
    BY <2>7, <2>0, <2>00 DEF KeepOriginal, Answer
  <2>8. ASSUME NEW k \in Key, Evict(k) PROVE TypeOK'
    BY <2>8 DEF Evict
  <2>9. CASE UNCHANGED vars
    BY <2>9 DEF vars
  <2> QED
    BY <2>1, <2>2, <2>3, <2>4, <2>5, <2>6, <2>7, <2>8, <2>9 DEF Next
<1> QED
  BY <1>1, <1>2, PTL DEF Spec

Shown == RightPicture /\ NeverWorse

\* Entries match their keys and results their requests, so what is shown is
\* what was asked for.
THEOREM KeptCorrect == Spec => [](Kept /\ Shown)
<1>1. Init => Kept /\ Shown
  BY DEF Init, Kept, Shown, RightPicture, NeverWorse, Converted
<1>2. TypeOK /\ Kept /\ Shown /\ [Next]_vars => (Kept /\ Shown)'
  <2> SUFFICES ASSUME TypeOK, Kept, Shown, [Next]_vars PROVE Kept' /\ Shown'
    OBVIOUS
  <2> USE DEF Goto, Scaled, Converted
  <2>T. /\ \A r \in Requests : /\ asked[r] \in Request
                               /\ asked[r].image \in Images
                               /\ target[r] \in Format
                               /\ Scaled(r) \in BOOLEAN
                               /\ KeyOf(r) \in Key
                               /\ KeyOf(r).of = asked[r].image
                               /\ KeyOf(r).scaled = Scaled(r)
                               /\ Scaled(r) => KeyOf(r).tag = target[r]
        /\ pc \in [Requests -> {"idle", "lookup", "encode", "insert", "judge"}]
        /\ asked \in [Requests -> Request]
        /\ target \in [Requests -> Format]
        /\ output \in [Requests -> Encoding \cup {None}]
        /\ reply \in [Requests -> Reply \cup {None}]
        /\ cache \in [Key -> Encoding \cup {None}]
    <3>1. \A r \in Requests : /\ asked[r] \in Request /\ asked[r].image \in Images
                              /\ target[r] \in Format
      BY DEF TypeOK, Request
    <3>2. \A r \in Requests : Scaled(r) \in BOOLEAN
      BY DEF Scaled
    <3> HIDE DEF Scaled
    <3>3. \A r \in Requests : /\ KeyOf(r) \in Key
                              /\ KeyOf(r).of = asked[r].image
                              /\ KeyOf(r).scaled = Scaled(r)
                              /\ Scaled(r) => KeyOf(r).tag = target[r]
      BY <3>1, <3>2, KeyFacts DEF KeyOf
    <3> QED
      BY <3>1, <3>2, <3>3 DEF TypeOK
  <2>1. ASSUME NEW r \in Requests, Arrive(r) PROVE Kept' /\ Shown'
    <3>1. PICK q \in Request :
            /\ asked' = [asked EXCEPT ![r] = q]
            /\ \/ /\ Converts(q)
                  /\ Goto(r, "lookup")
                  /\ target' = [target EXCEPT ![r] = Best(q.accepts)]
                  /\ reply' = [reply EXCEPT ![r] = None]
                  /\ UNCHANGED output
               \/ /\ ~Converts(q)
                  /\ Answer(r, Original)
      BY <2>1 DEF Arrive
    <3>2. cache' = cache /\ pc[r] = "idle" /\ MadeForTakers' = MadeForTakers
      BY <2>1 DEF Arrive, MadeForTakers
    <3>3. CASE Converts(q)
      <4>1. /\ pc' = [pc EXCEPT ![r] = "lookup"]
            /\ target' = [target EXCEPT ![r] = Best(q.accepts)]
            /\ reply' = [reply EXCEPT ![r] = None]
            /\ output' = output
        BY <3>1, <3>3
      <4>2. output[r] = None
        BY <3>2 DEF Kept
      <4>3. Kept'
        BY <3>1, <3>2, <3>3, <4>1, <4>2, <2>T, BestAccepted DEF Kept
      <4> QED
        BY <3>1, <3>2, <4>1, <4>3, <2>T
        DEF Shown, RightPicture, NeverWorse
    <3>4. CASE ~Converts(q)
      <4>1. /\ pc' = [pc EXCEPT ![r] = "idle"]
            /\ target' = [target EXCEPT ![r] = "webp"]
            /\ reply' = [reply EXCEPT ![r] = Original]
            /\ output' = [output EXCEPT ![r] = None]
        BY <3>1, <3>4 DEF Answer
      <4>2. Kept'
        BY <3>1, <3>2, <4>1, <2>T DEF Kept
      <4> QED
        BY <3>1, <3>2, <4>1, <4>2, <2>T
        DEF Original, Shown, RightPicture, NeverWorse
    <3> QED
      BY <3>3, <3>4
  <2>2. ASSUME NEW r \in Requests, Lookup(r) PROVE Kept' /\ Shown'
    <3>1. /\ UNCHANGED <<asked, target, reply, cache>>
          /\ output' = [output EXCEPT ![r] = cache[KeyOf(r)]]
          /\ pc' \in {[pc EXCEPT ![r] = "encode"], [pc EXCEPT ![r] = "judge"]}
          /\ pc[r] = "lookup" /\ MadeForTakers' = MadeForTakers
      BY <2>2 DEF Lookup, MadeForTakers
    <3>2. cache[KeyOf(r)] # None =>
            /\ cache[KeyOf(r)].of = asked[r].image
            /\ cache[KeyOf(r)].scaled = Scaled(r)
            /\ Scaled(r) => cache[KeyOf(r)].format = target[r]
            /\ ~Scaled(r) =>
                  <<asked[r].image, cache[KeyOf(r)].format>> \in MadeForTakers
      <4> HIDE DEF Scaled
      <4> QED
        BY <2>T DEF Kept
    <3>3. Kept'
      <4>1. \A k \in Key : cache'[k] # None =>
              /\ cache'[k].of = k.of /\ cache'[k].scaled = k.scaled
              /\ k.scaled => cache'[k].format = k.tag
              /\ ~k.scaled => <<k.of, cache'[k].format>> \in MadeForTakers'
        BY <3>1 DEF Kept
      <4>2. ASSUME NEW q \in Requests
            PROVE  /\ pc'[q] = "idle" => output'[q] = None
                   /\ pc'[q] # "idle" =>
                        /\ Converts(asked'[q])
                        /\ target'[q] \in asked'[q].accepts
                        /\ pc'[q] = "insert" => output'[q] # None
                        /\ output'[q] # None =>
                              /\ output'[q].of = asked'[q].image
                              /\ output'[q].scaled = Scaled(q)
                              /\ Scaled(q) => output'[q].format = target'[q]
                              /\ ~Scaled(q) =>
                                   <<asked'[q].image, output'[q].format>>
                                      \in MadeForTakers'
        <5>1. CASE q = r
          <6>1. /\ output'[r] = cache[KeyOf(r)]
                /\ pc'[r] \in {"encode", "judge"}
            BY <3>1, <2>T
          <6>2. pc[r] # "idle" /\ asked' = asked /\ target' = target
            BY <3>1
          <6>3. Converts(asked[r]) /\ target[r] \in asked[r].accepts
            BY <6>2 DEF Kept
          <6>4. <<asked[r].image, cache[KeyOf(r)].format>> \in MadeForTakers =>
                  <<asked[r].image, cache[KeyOf(r)].format>> \in MadeForTakers'
            BY <3>1
          <6> HIDE DEF Scaled
          <6> QED
            BY <5>1, <6>1, <6>2, <6>3, <6>4, <3>2
        <5>2. CASE q # r
          <6>1. output'[q] = output[q] /\ pc'[q] = pc[q]
            BY <3>1, <2>T, <5>2
          <6> HIDE DEF Scaled
          <6> QED
            BY <6>1, <3>1 DEF Kept
        <5> QED
          BY <5>1, <5>2
      <4> QED
        BY <3>1, <4>1, <4>2 DEF Kept
    <3> QED
      BY <3>1, <3>3, <2>T DEF Shown, RightPicture, NeverWorse
  <2>3. ASSUME NEW r \in Requests, Convert(r) PROVE Kept' /\ Shown'
    <3>1. UNCHANGED <<asked, target, reply, cache>> /\ pc[r] = "encode"
      BY <2>3 DEF Convert
    <3>2. /\ Encode(asked[r].image, target[r], Scaled(r)) # None
          /\ Encode(asked[r].image, target[r], Scaled(r)).of = asked[r].image
          /\ Encode(asked[r].image, target[r], Scaled(r)).scaled = Scaled(r)
          /\ Encode(asked[r].image, target[r], Scaled(r)).format = target[r]
      <4> HIDE DEF Scaled
      <4> QED
        BY <2>T, EncodeFacts
    <3>3. CASE asked[r].image \in Convertible
      <4>1. /\ output' = [output EXCEPT ![r] =
                              Encode(asked[r].image, target[r], Scaled(r))]
            /\ pc' = [pc EXCEPT ![r] = "insert"]
            /\ MadeForTakers \subseteq MadeForTakers'
            /\ ~Scaled(r) => <<asked[r].image, target[r]>> \in MadeForTakers'
        <5>1. target[r] \in asked[r].accepts
          BY <3>1 DEF Kept
        <5>2. made' = IF Scaled(r) THEN made ELSE
                     made \cup {[accepts |-> asked[r].accepts,
                                of |-> asked[r].image, format |-> target[r]]}
          BY <2>3, <3>3 DEF Convert
        <5>3. MadeForTakers \subseteq MadeForTakers'
          BY <5>2 DEF MadeForTakers
        <5>4. ~Scaled(r) => <<asked[r].image, target[r]>> \in MadeForTakers'
          <6> DEFINE m == [accepts |-> asked[r].accepts,
                           of |-> asked[r].image, format |-> target[r]]
          <6>1. ~Scaled(r) => m \in made'
            BY <5>2
          <6>2. m.format \in m.accepts /\ <<m.of, m.format>> = <<asked[r].image, target[r]>>
            BY <5>1
          <6> HIDE DEF m, Scaled
          <6> QED
            BY <6>1, <6>2 DEF MadeForTakers
        <5> QED
          BY <2>3, <3>3, <5>3, <5>4 DEF Convert
      <4>2. Kept'
        BY <3>1, <3>2, <4>1, <2>T DEF Kept
      <4> QED
        BY <3>1, <4>1, <4>2 DEF Shown, RightPicture, NeverWorse
    <3>4. CASE asked[r].image \notin Convertible
      <4>1. /\ output' = output /\ pc' = [pc EXCEPT ![r] = "judge"]
            /\ MadeForTakers' = MadeForTakers
        BY <2>3, <3>4 DEF Convert, MadeForTakers
      <4>2. Kept'
        BY <3>1, <4>1, <2>T DEF Kept
      <4> QED
        BY <3>1, <4>1, <4>2 DEF Shown, RightPicture, NeverWorse
    <3> QED
      BY <3>3, <3>4
  <2>4. ASSUME NEW r \in Requests, Insert(r) PROVE Kept' /\ Shown'
    <3>1. /\ UNCHANGED <<asked, target, reply, output>>
          /\ cache' = [cache EXCEPT ![KeyOf(r)] = output[r]]
          /\ pc' = [pc EXCEPT ![r] = "judge"]
          /\ pc[r] = "insert" /\ MadeForTakers' = MadeForTakers
      BY <2>4 DEF Insert, MadeForTakers
    <3>2. /\ output[r].of = KeyOf(r).of
          /\ output[r].scaled = KeyOf(r).scaled
          /\ KeyOf(r).scaled => output[r].format = KeyOf(r).tag
          /\ ~KeyOf(r).scaled =>
                <<KeyOf(r).of, output[r].format>> \in MadeForTakers
      <4> HIDE DEF Scaled
      <4> QED
        BY <3>1, <2>T DEF Kept
    <3>3. \A k \in Key : cache'[k] # None =>
            /\ cache'[k].of = k.of /\ cache'[k].scaled = k.scaled
            /\ k.scaled => cache'[k].format = k.tag
            /\ ~k.scaled => <<k.of, cache'[k].format>> \in MadeForTakers
      <4> SUFFICES ASSUME NEW k \in Key, cache'[k] # None
                   PROVE  /\ cache'[k].of = k.of /\ cache'[k].scaled = k.scaled
                          /\ k.scaled => cache'[k].format = k.tag
                          /\ ~k.scaled =>
                                <<k.of, cache'[k].format>> \in MadeForTakers
        OBVIOUS
      <4>1. CASE k = KeyOf(r)
        BY <3>1, <3>2, <2>T, <4>1
      <4>2. CASE k # KeyOf(r)
        BY <3>1, <2>T, <4>2 DEF Kept
      <4> QED
        BY <4>1, <4>2
    <3>4. \A q \in Requests : pc'[q] # "idle" => pc[q] # "idle"
      BY <3>1, <2>T
    <3>5. \A q \in Requests : pc'[q] = "insert" => pc[q] = "insert"
      BY <3>1, <2>T
    <3>6. Kept'
      BY <3>1, <3>3, <3>4, <3>5 DEF Kept
    <3> QED
      BY <3>1, <3>6 DEF Shown, RightPicture, NeverWorse
  <2>m. made' = made => MadeForTakers' = MadeForTakers
    BY DEF MadeForTakers
  <2>5. ASSUME NEW r \in Requests, Use(r) PROVE Kept' /\ Shown'
    BY <2>5, <2>T, <2>m
    DEF Use, Pays, Answer, Kept, Shown, RightPicture, NeverWorse
  <2>6. ASSUME NEW r \in Requests, FallBack(r) PROVE Kept' /\ Shown'
    BY <2>6, <2>T, <2>m
    DEF FallBack, Converts, Kept, Shown, RightPicture, NeverWorse
  <2>7. ASSUME NEW r \in Requests, KeepOriginal(r) PROVE Kept' /\ Shown'
    BY <2>7, <2>T, <2>m
    DEF KeepOriginal, Answer, Original, Kept, Shown, RightPicture, NeverWorse
  <2>8. ASSUME NEW k \in Key, Evict(k) PROVE Kept' /\ Shown'
    BY <2>8, <2>T, <2>m
    DEF Evict, Kept, Shown, RightPicture, NeverWorse
  <2>9. CASE UNCHANGED vars
    BY <2>9, <2>m
    DEF vars, Kept, Shown, RightPicture, NeverWorse
  <2> QED
    BY <2>1, <2>2, <2>3, <2>4, <2>5, <2>6, <2>7, <2>8, <2>9 DEF Next
<1> QED
  BY <1>1, <1>2, TypeCorrect, PTL DEF Spec

\* Whatever others left in the cache, a client is shown the picture it asked
\* for, scaled down exactly when it is mobile.
THEOREM PictureIsRight == Spec => []RightPicture
  BY KeptCorrect, PTL DEF Shown

\* No conversion makes a response larger, nor labels it with a type the client
\* refuses; a scaled response carries the bytes its label says, and a full-size
\* one carries others only if they were made for somebody who takes them.
THEOREM ConversionNeverWorse == Spec => []NeverWorse
  BY KeptCorrect, PTL DEF Shown
=============================================================================
