---------------------------- MODULE MCMigration ----------------------------
(***************************************************************************)
(* Two stores start on every released schema, on none, and on schemas that *)
(* differ from a released one in each thing initialize looks at.           *)
(***************************************************************************)
EXTENDS Migration

Versions == 1..SCHEMA_VERSION

Strange ==
  {[Released(v) EXCEPT !.foreign = {f}] : v \in Versions, f \in Foreign}
    \cup {[Empty EXCEPT !.foreign = {f}] : f \in {"object", "relation"}}
    \cup {[Released(v) EXCEPT !.versions = w] :
             v \in Versions, w \in {{}, {6, 7}, {SCHEMA_VERSION + 1}}}
    \cup ({[Released(v) EXCEPT !.versions = {w}] : v, w \in Versions}
            \ {Released(v) : v \in Versions})
    \cup {[Released(v) EXCEPT !.tables = @ \ {"turns"}] : v \in Versions}
    \cup {[Released(v) EXCEPT !.tables = @ \ {"schema_version"}, !.versions = {}] :
             v \in Versions}
    \cup {[Released(v) EXCEPT !.keyed = ~@] : v \in Versions}
    \cup {[Released(7) EXCEPT !.columns = <<"stated_at", "card_sha256", "memory_confirmation">>],
          [Released(3) EXCEPT !.columns = <<"memory_confirmation", "stated_at">>]}

AnyFound == Supported \cup Strange
=============================================================================
