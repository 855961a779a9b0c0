--------------------------- MODULE MCVideoService ---------------------------
\* Instances of VideoService for TLC.
EXTENDS VideoService

DbVars == {"DB_ENDPOINT", "DB_PORT", "DB_USERNAME", "DB_PASSWORD", "DB_NAME"}
FgaVars == {"FGA_API_URL", "FGA_STORE_ID", "FGA_MODEL_ID"}

\* A container without authorisation, with it, with a store identifier that
\* is missing or malformed, and without a database user.
AllEnvironments ==
  { [set |-> DbVars, wellFormed |-> TRUE],
    [set |-> DbVars \cup FgaVars, wellFormed |-> TRUE],
    [set |-> DbVars \cup FgaVars, wellFormed |-> FALSE],
    [set |-> DbVars \cup (FgaVars \ {"FGA_STORE_ID"}), wellFormed |-> TRUE],
    [set |-> (DbVars \cup FgaVars) \ {"DB_USERNAME"}, wellFormed |-> TRUE] }

\* Authorisation works and the database is configured.
GoodEnvironments == { [set |-> DbVars \cup FgaVars, wellFormed |-> TRUE] }
=============================================================================
