----------------------------- MODULE ConfigFile -----------------------------
(***************************************************************************)
(* The config file, from the parser's events to the settings in force      *)
(* (src/src/config/yaml.rs, resolve.rs and mod.rs, src/src/cli/settings.rs,*)
(* startup_settings of src/src/run.rs): the node tree with its anchors and *)
(* aliases, the shape pass, the strict decode, the merge under the flags,  *)
(* the validation, and reload.                                             *)
(*                                                                         *)
(* One key stands for each shape and kind of setting: log-level is         *)
(* enumerated, dry-run is what a reload may not turn on, device-deny is a  *)
(* list of globs and metrics-addr needs a restart.  The YAML scanner is    *)
(* external; documents small enough for the model never meet the limits on *)
(* nesting and aliasing.                                                   *)
(***************************************************************************)
EXTENDS Lists, Functions

CONSTANTS
    Scalars,        \* the scalar events: [text, quoted, tag]; tag "" for none
    Anchors,        \* anchor names
    CliSets,        \* the sets of flags that may be given on the command line
    Globs,          \* the texts that are globs under /dev
    MaxSize,        \* bound: the files read and their nodes
    MaxAnchors,     \* bound: anchors of one file
    MaxDepth        \* bound: nested collections

\* "" stands for no anchor.
ASSUME AnchorsAssumption == "" \notin Anchors

VARIABLES
    stage,          \* "idle", "build" (in the document) or "built"
    nodes,          \* Tree::nodes; the root is the first
    open,           \* the collections that build has open
    anchors,        \* Reader::anchors: the node of each name, 0 for none
    cliSet,         \* the flags given on the command line
    started,        \* whether the daemon runs
    current,        \* Reloader::current
    size,           \* of all the files
    first, latest   \* history: the file of the start, and the last one accepted

document == <<nodes, open, anchors>>
daemon == <<cliSet, started, current, first, latest>>
vars == <<stage, document, size, daemon>>

----------------------------------------------------------------------------
(* Scalars. *)

\* The tag a plain scalar resolves to.
PlainTag(text) ==
    CASE text \in {"true", "false"} -> "!!bool" [] text = "" -> "!!null" [] OTHER -> "!!str"

\* The tag of a scalar event's node.
ScalarTag(scalar) ==
    IF scalar.tag # "" THEN scalar.tag
    ELSE IF scalar.quoted THEN "!!str"
    ELSE IF scalar.text = "<<" THEN "!!merge"
    ELSE PlainTag(scalar.text)

\* What a scalar node resolves to; an explicit tag must fit the text.
Resolve(node) ==
    IF node.tag \notin {"!!bool", "!!null"} THEN "text"
    ELSE IF node.tag # PlainTag(node.text) THEN "error"
    ELSE IF node.tag = "!!bool" THEN "bool"
    ELSE "null"

\* The YAML 1.1 spellings that still decode into a bool.
Yaml11Bool(text) ==
    IF text = "yes" THEN {TRUE} ELSE IF text = "no" THEN {FALSE} ELSE {}

----------------------------------------------------------------------------
(* The shape pass. *)

Shape == [k \in {"log-level", "dry-run", "device-deny", "metrics-addr"} |->
    CASE k = "log-level" -> "non-empty string"
      [] k = "dry-run" -> "bool"
      [] k = "device-deny" -> "list"
      [] k = "metrics-addr" -> "string"]

Keys == DOMAIN Shape

\* An anchor cannot sit on an alias.
Deref(i) == IF nodes[i].kind = "alias" THEN nodes[i].alias ELSE i

IsString(i) == nodes[i].kind = "scalar" /\ nodes[i].tag = "!!str"

IsNonEmptyString(i) == IsString(i) /\ nodes[i].text # ""

\* Fault: the 1.1 spellings pass for booleans.
FaultyHasShape(i, shape) ==
    CASE shape = "bool" -> nodes[i].kind = "scalar"
                           /\ (nodes[i].tag = "!!bool" \/ Yaml11Bool(nodes[i].text) # {})
      [] shape = "string" -> IsString(i)
      [] shape = "non-empty string" -> IsNonEmptyString(i)
      [] shape = "list" -> /\ nodes[i].kind = "sequence"
                           /\ \A item \in Range(nodes[i].content) : IsNonEmptyString(Deref(item))

HasShape(i, shape) ==
    CASE shape = "bool" -> nodes[i].kind = "scalar" /\ nodes[i].tag = "!!bool"
      [] shape = "string" -> IsString(i)
      [] shape = "non-empty string" -> IsNonEmptyString(i)
      [] shape = "list" -> /\ nodes[i].kind = "sequence"
                           /\ \A item \in Range(nodes[i].content) : IsNonEmptyString(Deref(item))

\* The pairs of a mapping, in order.
Pairs(i) ==
    LET content == nodes[i].content IN
    [p \in 1 .. Len(content) \div 2 |-> [key |-> content[2 * p - 1], value |-> content[2 * p]]]

\* The keys are compared as they are written; the key of an alias is its anchor.
CheckShapes ==
    /\ nodes[1].kind = "mapping"
    /\ \A pair \in Range(Pairs(1)) :
          LET key == nodes[pair.key] IN
          /\ key.tag # "!!merge" /\ key.text # "<<"
          /\ key.text \in Keys => HasShape(Deref(pair.value), Shape[key.text])

----------------------------------------------------------------------------
(* The strict decode.  A decoded value is a set, empty when the node sets    *)
(* nothing, with whether an error was reported.                            *)

Set(value) == [bad |-> FALSE, value |-> {value}]
Unset == [bad |-> FALSE, value |-> {}]
Bad == [bad |-> TRUE, value |-> {}]

\* Into a string: the text whatever it resolves to, but nothing for a null.
DecodeString(i) ==
    LET node == nodes[Deref(i)] IN
    IF node.kind # "scalar" \/ Resolve(node) = "error" THEN Bad
    ELSE IF Resolve(node) = "null" THEN Unset
    ELSE Set(node.text)

\* Into an optional bool.
DecodeBool(i) ==
    LET node == nodes[Deref(i)] IN
    IF node.kind # "scalar" \/ Resolve(node) = "error" THEN Bad
    ELSE IF Resolve(node) = "null" THEN Unset
    ELSE IF Resolve(node) = "bool" THEN Set(node.text = "true")
    ELSE IF Yaml11Bool(node.text) = {} THEN Bad
    ELSE [bad |-> FALSE, value |-> Yaml11Bool(node.text)]

\* Into an optional list; an item that is a null is left out.
DecodeList(i) ==
    LET node == nodes[Deref(i)]
        items == [j \in DOMAIN node.content |-> DecodeString(node.content[j])]
        kept == Select(items, LAMBDA item : item.value # {}) IN
    IF node.kind = "scalar" /\ Resolve(node) = "null" THEN Unset
    ELSE IF node.kind # "sequence" \/ \E j \in DOMAIN items : items[j].bad THEN Bad
    ELSE Set([j \in DOMAIN kept |-> CHOOSE text \in kept[j].value : TRUE])

DecodeField(name, i) ==
    CASE name = "dry-run" -> DecodeBool(i)
      [] name = "device-deny" -> DecodeList(i)
      [] OTHER -> [DecodeString(i) EXCEPT !.value = @ \ {""}]

\* FileSchema: the value of each key, none when it is not set.  An empty string
\* stands for "not set".
NoFile == [k \in Keys |-> {}]

\* An error is reported; the file is not accepted.
Refused(done) == [bad |-> TRUE, seen |-> done.seen, file |-> done.file]

\* Fault: a key that is already set is set again.
FaultyDecodePair(done, pair) ==
    LET name == DecodeString(pair.key)
        field == CHOOSE k \in name.value : TRUE
        decoded == DecodeField(field, pair.value) IN
    IF name.bad THEN Refused(done)
    ELSE IF name.value = {} THEN done
    ELSE IF field \notin Keys \/ decoded.bad THEN Refused(done)
    ELSE [bad |-> done.bad, seen |-> done.seen \cup {field},
          file |-> [done.file EXCEPT ![field] = decoded.value]]

\* mapping_struct, for one pair: a key that sets nothing is passed over.
DecodePair(done, pair) ==
    LET name == DecodeString(pair.key)
        field == CHOOSE k \in name.value : TRUE
        decoded == DecodeField(field, pair.value) IN
    IF name.bad THEN Refused(done)
    ELSE IF name.value = {} THEN done
    ELSE IF field \notin Keys \/ field \in done.seen \/ decoded.bad
    THEN Refused(done)
    ELSE [bad |-> done.bad, seen |-> done.seen \cup {field},
          file |-> [done.file EXCEPT ![field] = decoded.value]]

\* mapping: two keys of one kind and text.
DuplicateKeys ==
    \E p, q \in DOMAIN Pairs(1) :
        /\ p < q
        /\ LET one == nodes[Pairs(1)[p].key]  other == nodes[Pairs(1)[q].key] IN
           one.kind = other.kind /\ one.text = other.text

\* The pairs are decoded one after the other.
Decode ==
    LET done[p \in 0 .. Len(Pairs(1))] ==
            IF p = 0 THEN [bad |-> DuplicateKeys, seen |-> {}, file |-> NoFile]
            ELSE DecodePair(done[p - 1], Pairs(1)[p])
        all == done[Len(Pairs(1))]
    IN  IF all.bad THEN {} ELSE {all.file}

----------------------------------------------------------------------------
(* load_file, the settings and reload. *)

\* No node, or an empty plain scalar.
IsEmptyDocument ==
    nodes = <<>> \/ (nodes[1].kind = "scalar" /\ nodes[1].tag = "!!null" /\ nodes[1].text = "")

LogLevels == {"debug", "info", "warn", "error"}

ValidateEnums(settings) == settings["log-level"] \subseteq LogLevels

\* The file that is loaded; none when it is refused.  whole is what at_end finds.
LoadFile(whole) ==
    IF ~whole THEN {}
    ELSE IF IsEmptyDocument THEN {NoFile}
    ELSE IF ~CheckShapes THEN {}
    ELSE {file \in Decode : ValidateEnums(file)}

\* from_flags: the flags as given, the others with their defaults.  A list that was
\* not given is none.
Flag(k) ==
    CASE k = "log-level" -> IF k \in cliSet THEN {"warn"} ELSE {"info"}
      [] k = "dry-run" -> {FALSE}
      [] k = "device-deny" -> IF k \in cliSet THEN {<<CHOOSE g \in Globs : TRUE>>} ELSE {}
      [] k = "metrics-addr" -> IF k \in cliSet THEN {"flag"} ELSE {}

Merge(file) == [k \in Keys |-> IF k \notin cliSet /\ file[k] # {} THEN file[k] ELSE Flag(k)]

\* The enumerated values and the policy of the merged settings.
Validate(settings) ==
    /\ ValidateEnums(settings)
    /\ \A list \in settings["device-deny"] : Range(list) \subseteq Globs

Cold == {"metrics-addr"}

----------------------------------------------------------------------------
(* What a document says, for the properties: each key with the values that  *)
(* its pairs give it, aliases followed.  A null says nothing, as the value   *)
(* of a key or as an item of a list.                                        *)

Value(k, node) ==
    CASE k = "dry-run" -> {node.text \in {"true", "yes"}}
      [] k = "device-deny" ->
            LET items == [j \in DOMAIN node.content |-> nodes[Deref(node.content[j])]]
                said == Select(items, LAMBDA item : item.tag # "!!null") IN
            {[j \in DOMAIN said |-> said[j].text]}
      [] OTHER -> {node.text} \ {""}

Said(k) ==
    IF IsEmptyDocument THEN {}
    ELSE UNION {LET node == nodes[Deref(pair.value)] IN
                IF node.tag = "!!null" THEN {} ELSE Value(k, node) :
                pair \in {pair \in Range(Pairs(1)) : nodes[Deref(pair.key)].text = k}}

Reading == [k \in Keys |-> Said(k)]

----------------------------------------------------------------------------
(* startup_settings and reload. *)

\* startup_settings.
Start(file) ==
    /\ ~started /\ Validate(Merge(file))
    /\ started' = TRUE
    /\ current' = Merge(file)
    /\ first' = Reading /\ latest' = Reading
    /\ UNCHANGED cliSet

\* reload turns dry-run on.
EnablesDryRun(settings) == settings["dry-run"] = {TRUE} /\ current["dry-run"] = {FALSE}

\* Reloader::reload: a setting that needs a restart keeps its value.
Reload(file) ==
    /\ started /\ Validate(Merge(file)) /\ ~EnablesDryRun(Merge(file))
    /\ current' = [k \in Keys |-> IF k \in Cold THEN current[k] ELSE Merge(file)[k]]
    /\ latest' = Reading
    /\ UNCHANGED <<cliSet, started, first>>

\* What is loaded is applied whole or not at all.
Apply(files) ==
    \/ \E file \in files : Start(file) \/ Reload(file)
    \/ /\ \A file \in files :
             \/ ~Validate(Merge(file))
             \/ started /\ EnablesDryRun(Merge(file))
       /\ UNCHANGED daemon
    \/ ~started /\ UNCHANGED daemon     \* the kernel has no openat2

----------------------------------------------------------------------------
(* The reader: a document is built from the parser's events. *)

Init ==
    /\ stage = "idle" /\ nodes = <<>> /\ open = <<>> /\ anchors = [a \in Anchors |-> 0]
    /\ cliSet \in CliSets
    /\ started = FALSE /\ size = 0
    /\ current = NoFile /\ first = NoFile /\ latest = NoFile

Drop == nodes' = <<>> /\ open' = <<>> /\ anchors' = [a \in Anchors |-> 0]

\* A file is read, at the start or for a SIGHUP.
ReadFile ==
    /\ stage = "idle" /\ size < MaxSize
    /\ stage' = "build" /\ size' = size + 1
    /\ UNCHANGED <<document, daemon>>

Innermost == open[Len(open)]

\* push, and the registration of an anchor; name is "" for none.
Push(node, name, opens) ==
    LET i == Len(nodes) + 1 IN
    /\ stage = "build" /\ size < MaxSize
    /\ Len(open) < MaxDepth \/ ~opens
    /\ name = "" \/ Cardinality({a \in Anchors : anchors[a] # 0}) < MaxAnchors
    /\ nodes' = Append(IF open = <<>> THEN nodes
                       ELSE [nodes EXCEPT ![Innermost].content = Append(@, i)], node)
    /\ open' = IF opens THEN Append(open, i) ELSE open
    /\ anchors' = [a \in Anchors |-> IF a = name THEN i ELSE anchors[a]]
    /\ stage' = IF opens \/ open # <<>> THEN "build" ELSE "built"
    /\ size' = size + 1
    /\ UNCHANGED daemon

ScalarEvent(scalar, name) ==
    Push([kind |-> "scalar", tag |-> ScalarTag(scalar), text |-> scalar.text,
          content |-> <<>>, alias |-> 0], name, FALSE)

CollectionStart(kind, name) ==
    Push([kind |-> kind, tag |-> IF kind = "mapping" THEN "!!map" ELSE "!!seq", text |-> "",
          content |-> <<>>, alias |-> 0], name, TRUE)

\* The parser gives every key of a mapping a value.
CollectionEnd ==
    /\ stage = "build" /\ open # <<>>
    /\ nodes[Innermost].kind = "mapping" => Len(nodes[Innermost].content) % 2 = 0
    /\ open' = SubSeq(open, 1, Len(open) - 1)
    /\ stage' = IF Len(open) = 1 THEN "built" ELSE "build"
    /\ UNCHANGED <<nodes, anchors, size, daemon>>

AliasEvent(name) ==
    /\ anchors[name] # 0
    /\ Push([kind |-> "alias", tag |-> "", text |-> name, content |-> <<>>,
             alias |-> anchors[name]], "", FALSE)

\* The file cannot be opened or read, or is not UTF-8.
ReadFails ==
    /\ stage = "build" /\ nodes = <<>>
    /\ stage' = "idle"
    /\ UNCHANGED <<document, size, daemon>>

\* The scanner refuses the document where it stands: its syntax, an anchor that it does
\* not know, a directive for another version.
SyntaxFails ==
    /\ stage = "build"
    /\ stage' = "idle"
    /\ Drop
    /\ UNCHANGED <<size, daemon>>

\* The stream ends without a document.
NoDocument ==
    /\ stage = "build" /\ nodes = <<>>
    /\ stage' = "built"
    /\ UNCHANGED <<document, size, daemon>>

\* Whether the stream ends after the document.  An alias to an anchor of the first
\* document, and directives followed by a document, count as another document.
AtEnd(rest) == rest = "nothing"

Load ==
    /\ stage = "built"
    /\ stage' = "idle"
    /\ \E rest \in {"nothing", "document", "error", "alias", "directives"} :
          Apply(LoadFile(AtEnd(rest)))
    /\ Drop
    /\ UNCHANGED size

Next ==
    \/ ReadFile \/ ReadFails \/ SyntaxFails \/ NoDocument \/ CollectionEnd \/ Load
    \/ \E name \in Anchors \cup {""} :
          \/ \E scalar \in Scalars : ScalarEvent(scalar, name)
          \/ \E kind \in {"mapping", "sequence"} : CollectionStart(kind, name)
    \/ \E name \in Anchors : AliasEvent(name)

Spec == Init /\ [][Next]_vars

----------------------------------------------------------------------------
(* Properties. *)

\* The values a key may have in a file that is accepted.
Fits(k, i) ==
    CASE k = "dry-run" -> nodes[i].tag = "!!bool" /\ nodes[i].text \in {"true", "false"}
      [] k = "log-level" -> nodes[i].tag = "!!str" /\ nodes[i].text \in LogLevels
      [] k = "metrics-addr" -> nodes[i].tag = "!!str"
      [] k = "device-deny" ->
            /\ nodes[i].kind = "sequence"
            /\ \A item \in Range(nodes[i].content) :
                  /\ nodes[Deref(item)].tag = "!!str" /\ nodes[Deref(item)].text # ""
                  /\ k \notin cliSet => nodes[Deref(item)].text \in Globs

\* A file is accepted only as a whole: every key written out in it is known, has a
\* value of its own type, directly or through an alias, and is there once, an alias
\* of a key counted (check_shapes and decode, which read the keys in two ways; a key
\* that is a null or an alias is not held to its type).
Strict ==
    (stage = "built" /\ ~IsEmptyDocument /\ \E file \in LoadFile(TRUE) : Validate(Merge(file))) =>
        /\ nodes[1].kind = "mapping"
        /\ \A p \in DOMAIN Pairs(1) :
              LET pair == Pairs(1)[p]  key == nodes[pair.key] IN
              /\ (key.kind = "scalar" /\ key.tag # "!!null") =>
                    key.text \in Keys /\ Fits(key.text, Deref(pair.value))
              /\ \A q \in DOMAIN Pairs(1) \ {p} :
                    \/ nodes[Deref(pair.key)].text \notin Keys
                    \/ nodes[Deref(Pairs(1)[q].key)].text # nodes[Deref(pair.key)].text

\* The settings in force are what the flags and the files say, however many files
\* were loaded or refused in between: a flag that was given, else what the last
\* accepted file says, else the default; a setting that needs a restart has what the
\* file of the start said (decode, merge, reload).
InForce ==
    started =>
        \A k \in Keys :
            LET said == IF k \in Cold THEN first[k] ELSE latest[k] IN
            current[k] = IF k \in cliSet \/ said = {} THEN Flag(k) ELSE said

=============================================================================
