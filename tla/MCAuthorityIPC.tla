----------------------------- MODULE MCAuthorityIPC ----------------------------
(* Small instances of AuthorityIPC, one for each workload.                  *)
EXTENDS AuthorityIPC, TLC

CONSTANTS i1, i2, i3, s1, p1, e1, d1, d2

Ask(i, o, a) == [id |-> i, op |-> o, arg |-> a, fresh |-> TRUE]

Read(i) == Ask(i, "read", <<>>)
Write(i) == Ask(i, "write", <<1>>)

\* A human's approval is used, and the request repeated: under its id, under
\* another, under its id when others were answered in between.
Writes == <<{Ask(i1, "preview", <<>>)}, {Write(i2)}, {Read(i3)}, {Write(i1)}, {Write(i2)}>>

\* A table of two, three ids, repetitions and another request under an old id.
Reads == <<{Read(i1)}, {Read(i2)}, {Read(i1), Ask(i1, "preview", <<>>)}, {Read(i3)},
           {Read(i1)}>>

Refused == <<{Read(i1)}, {[Read(i1) EXCEPT !.fresh = FALSE], Ask(i1, "malformed", <<>>)},
             {Read(i2)}, {Read(i3)}>>

\* Two references, perhaps to the same image, used and given up.
Media == <<{Ask(i1, "ingest", <<>>)}, {Ask(i2, "ingest", <<>>)},
           {Ask(i3, "media", <<1, 2>>)},
           {Ask(i1, "release", <<1>>), Ask(i1, "ingest", <<>>)}, {Ask(i2, "release", <<1>>)}>>

\* An operator's session from the first step to the last.
Operator == <<{Ask(i1, "open", <<s1>>)}, {Ask(i2, "prepare", <<s1, p1>>)},
              {Ask(i3, "confirm", <<s1, p1>>), Ask(i3, "resolve", <<s1, p1>>)},
              {Ask(i1, "resolve", <<s1, p1>>)},
              {Ask(i2, "close", <<s1>>), Ask(i2, "resolve", <<s1, p1>>)}>>

Loads == {Writes, Reads, Refused, Media, Operator}
Subject == p1 :> e1
================================================================================
