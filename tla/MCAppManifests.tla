---------------------------- MODULE MCAppManifests ----------------------------
(* Values for TLC: files as they are committed, and over them every set of  *)
(* flags, or a file that is missing, broken, or takes a flag back.          *)
EXTENDS AppManifests

Keys(name, on, off) == [read |-> "ok", name |-> name, on |-> on, off |-> off]
Absent    == [read |-> "missing", name |-> "", on |-> {}, off |-> {}]
Malformed == [read |-> "malformed", name |-> "", on |-> {}, off |-> {}]

\* With the name as it is, changed to that of the database, and to another; the
\* first overlays decide on every flag, the last one takes one back.
MCBaseFiles    == {Keys(Id, {}, Flags), Keys(DbId, {}, Flags),
                   Keys("renamed", {"local", "schemahero"}, {}),
                   Absent, Malformed}
MCOverlayFiles == {Keys("", f, Flags \ f) : f \in SUBSET Flags}
                    \cup {Keys("", {"tls"}, {"local"}), Absent, Malformed}

\* The files as they are committed, and what manuscript/db, db-schema and
\* db-production have their reader add for each destination.
Committed    == {Keys(Id, {}, Flags)}
Destinations == {Keys("", {d, "insecure", "schemahero"}, {}) : d \in DbFlags \ {"helm"}}
=============================================================================
