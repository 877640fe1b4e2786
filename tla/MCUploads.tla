------------------------------ MODULE MCUploads ------------------------------
(* Instances of Uploads for TLC: every kind of part, sizes on both sides of   *)
(* the limits, and as many direct uploads as make the pool overflow.          *)
EXTENDS Uploads, TLC

Alike == Permutations(Requests)

P(k, n) == [kind |-> k, size |-> n]
F(k, parts) == [kind |-> k, parts |-> parts]
MCForms ==
    {F("artifact", <<P("text", 1), P("file", 2)>>),
     F("artifact", <<P("file", 1), P("file", 3)>>),
     F("artifact", <<P("file", 2), P("reserved", 0)>>),
     F("artifact", <<P("nameless", 0), P("file", 2), P("badname", 1)>>),
     F("artifact", <<P("file", 1), P("file", 0), P("file", 1)>>),
     F("artifact", <<P("text", 4), P("file", 2)>>),
     F("artifact", <<P("text", 6)>>),
     F("artifact", <<P("text", 1)>>),
     F("avatar", <<P("file", 2)>>),
     F("avatar", <<P("file", 3)>>),
     F("direct", <<P("file", 1), P("text", 1)>>),
     F("direct", <<P("file", 3)>>),
     F("direct", <<P("file", 6)>>)}
=============================================================================
