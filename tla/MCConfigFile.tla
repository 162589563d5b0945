---------------------------- MODULE MCConfigFile ----------------------------
(* An instance of ConfigFile for TLC. *)
EXTENDS ConfigFile

Plain(text) == [text |-> text, quoted |-> FALSE, tag |-> ""]
Quoted(text) == [text |-> text, quoted |-> TRUE, tag |-> ""]

\* The keys, values of every type ("debug" is a log level and a pattern), an empty
\* string and a tag that its text does not fit.
MCScalars ==
    {Plain(text) : text \in Keys \cup {"true", "yes", "", "debug"}}
    \cup {Quoted(""), [text |-> "yes", quoted |-> FALSE, tag |-> "!!bool"]}

\* An anchor may have the name of a key.
MCAnchors == {"dry-run"}

MCCliSets == {{}, {"dry-run", "device-deny"}}

MCGlobs == {"debug"}

=============================================================================
