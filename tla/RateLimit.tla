----------------------------- MODULE RateLimit -----------------------------
(***************************************************************************)
(* The per-address rate limiter (ratelimit): requests check and record     *)
(* themselves in the vector of their address under the lock of its shard,  *)
(* while a background task sweeps one shard after the other with a clock   *)
(* value it read before it took the first lock.                            *)
(*                                                                         *)
(* An address's vector of instants is the set of its admissions that are   *)
(* still in it: admission i of address c happened at log[c][i].            *)
(***************************************************************************)
EXTENDS Integers, Sequences, FiniteSets

CONSTANTS
    Clients,      \* client addresses
    Shards,
    ShardOf,      \* hash_ip
    MaxRequests,  \* admissions per window
    Window,       \* window_duration
    MaxTime       \* bound on the clock

ASSUME ConstantsOK ==
    /\ ShardOf \in [Clients -> Shards]
    /\ MaxRequests \in Nat \ {0}
    /\ Window \in Nat
    /\ MaxTime \in Nat

VARIABLES
    now,      \* the clock
    log,      \* history: when each address was admitted, oldest first
    entry,    \* Shard.requests: the admissions an address's vector holds
    started,  \* the clock value the running sweep began with
    todo      \* shards the running sweep has still to visit

vars == <<now, log, entry, started, todo>>

Init ==
    /\ now = 0
    /\ log = [c \in Clients |-> <<>>]
    /\ entry = [c \in Clients |-> {}]
    /\ started = 0
    /\ todo = {}

\* Mutant: an instant exactly one window old is dropped.
RetainedStrictly(c, time) == {i \in entry[c] : log[c][i] + Window > time}
\* retain(|t| t >= time - window_duration)
Retained(c, time) == {i \in entry[c] : log[c][i] + Window >= time}

\* Mutant: one admission too many.
AdmitOneMore(c) ==
    /\ Cardinality(Retained(c, now)) <= MaxRequests
    /\ log' = [log EXCEPT ![c] = Append(@, now)]
    /\ entry' = [entry EXCEPT ![c] = Retained(c, now) \cup {Len(log[c]) + 1}]
    /\ UNCHANGED <<now, started, todo>>

\* check_rate_limit: the clock is read under the lock.
Admit(c) ==
    /\ Cardinality(Retained(c, now)) < MaxRequests
    /\ log' = [log EXCEPT ![c] = Append(@, now)]
    /\ entry' = [entry EXCEPT ![c] = Retained(c, now) \cup {Len(log[c]) + 1}]
    /\ UNCHANGED <<now, started, todo>>

Refuse(c) ==
    /\ Cardinality(Retained(c, now)) >= MaxRequests
    /\ entry' = [entry EXCEPT ![c] = Retained(c, now)]
    /\ UNCHANGED <<now, log, started, todo>>

\* cleanup_expired: the clock is read once, before the first lock ...
BeginCleanup ==
    /\ todo = {}
    /\ started' = now
    /\ todo' = Shards
    /\ UNCHANGED <<now, log, entry>>

\* Mutant: the window is subtracted twice.
CleanTooLittle(s) ==
    /\ s \in todo
    /\ todo' = todo \ {s}
    /\ entry' = [c \in Clients |-> IF ShardOf[c] = s
                                   THEN Retained(c, started - Window)
                                   ELSE entry[c]]
    /\ UNCHANGED <<now, log, started>>

\* ... and every shard is swept with it, however late its lock is granted.
CleanShard(s) ==
    /\ s \in todo
    /\ todo' = todo \ {s}
    /\ entry' = [c \in Clients |->
                    IF ShardOf[c] = s THEN Retained(c, started) ELSE entry[c]]
    /\ UNCHANGED <<now, log, started>>

Tick ==
    /\ now < MaxTime
    /\ now' = now + 1
    /\ UNCHANGED <<log, entry, started, todo>>

Next ==
    \/ \E c \in Clients : Admit(c) \/ Refuse(c)
    \/ BeginCleanup
    \/ \E s \in Shards : CleanShard(s)
    \/ Tick

Spec == Init /\ [][Next]_vars

-----------------------------------------------------------------------------

TypeOK ==
    /\ now \in 0..MaxTime
    /\ log \in [Clients -> Seq(Nat)]
    /\ entry \in [Clients -> SUBSET Nat]
    /\ \A c \in Clients : entry[c] \subseteq 1..Len(log[c])
    /\ started \in 0..now
    /\ todo \subseteq Shards

\* The limit: no address is ever admitted more than MaxRequests times within
\* one window, wherever the window starts.
WithinLimit ==
    \A c \in Clients : \A i \in 1..Len(log[c]) :
        i + MaxRequests <= Len(log[c]) =>
            log[c][i + MaxRequests] > log[c][i] + Window

\* Nothing that still counts is forgotten: every admission of the last window
\* is in the vector, although sweeps with an old clock value run between the
\* checks.  (Refuse therefore refuses nobody the limit would admit.)
RemembersWindow ==
    \A c \in Clients : \A i \in 1..Len(log[c]) :
        log[c][i] + Window >= now => i \in entry[c]

\* A vector never grows past the limit, however often its address knocks.
VectorBounded == \A c \in Clients : Cardinality(entry[c]) <= MaxRequests

\* What a sweep leaves behind: an address in a shard it is done with is only
\* still in the map for an admission that had not expired when it began.
SweptClean ==
    \A c \in Clients :
        ShardOf[c] \notin todo /\ entry[c] # {} =>
            \E i \in entry[c] : log[c][i] + Window >= started

\* The clock does not run backwards along a log: the inductive part.
Ordered ==
    \A c \in Clients : \A i, j \in 1..Len(log[c]) :
        /\ i <= j => log[c][i] <= log[c][j]
        /\ log[c][i] <= now

IInv ==
    /\ TypeOK /\ Ordered
    /\ RemembersWindow /\ WithinLimit /\ VectorBounded /\ SweptClean
=============================================================================
