------------------------------ MODULE Settings ------------------------------
(***************************************************************************)
(* How Relay comes to its settings when it starts (main.go: prepare;       *)
(* relay/config: LoadConfig, RawConfig.Parse, populate, Verify).  A value  *)
(* is the text it is written as; "" in the environment, and NotThere in    *)
(* the file, is no value.  The validation of single values by their tags   *)
(* is left out: it can only refuse a configuration.                        *)
(***************************************************************************)
EXTENDS Naturals, Sequences, FiniteSetsExt

CONSTANT MaxList  \* bound on the length of lists: of engines, of locations

ASSUME ListAssumption == MaxList \in Nat

Zero(kind) == CASE kind = "int" -> "0" [] kind = "bool" -> "false" [] kind = "string" -> ""
Texts(kind) == CASE kind = "int" -> {"0", "8", "16"} [] kind = "bool" -> {"false", "true"}
                 [] kind = "string" -> {"", "docker", "native"}
Junk == "junk"          \* neither a number nor a truth value
NotThere == "not there"
Panic == "panic"

\* The default is "" for a field that has none; those of truth values matter
\* only if they are true.
Fields == {[kind |-> "int", default |-> "16"], [kind |-> "bool", default |-> "true"],
           [kind |-> "bool", default |-> "false"], [kind |-> "string", default |-> "docker"],
           [kind |-> "string", default |-> ""]}
FileValues(field) == Texts(field.kind) \cup {NotThere}
EnvValues(field) == Texts(field.kind) \cup {"", Junk}

Unmarshal(field, file) == IF file = NotThere THEN Zero(field.kind) ELSE file

setDefaultValues(field, value) ==
    IF field.default # "" /\ value = Zero(field.kind) THEN field.default ELSE value

\* Mutant: the environment supplies only what is missing.
setEnvVars_weak(field, value, env) ==
    IF value # Zero(field.kind) \/ env = "" THEN value
    ELSE IF field.kind # "string" /\ env = Junk THEN Panic ELSE env

setEnvVars(field, value, env) ==
    CASE env = "" -> value
      [] env # "" /\ field.kind # "string" /\ env \notin Texts(field.kind) -> Panic
      [] OTHER -> env

populate(field, file, env) ==
    setEnvVars(field, setDefaultValues(field, Unmarshal(field, file)), env)

addEngine(parsed, engine) ==
    IF engine \in {"docker", "native"} /\ engine \notin Range(parsed)
    THEN Append(parsed, engine) ELSE parsed

parseEngines(names) ==
    LET parsed[i \in 0 .. Len(names)] ==
          IF i = 0 THEN <<>> ELSE addEngine(parsed[i - 1], names[i])
    IN  parsed[Len(names)]

\* LoadConfig at each location in turn.  Without a file, and with an empty
\* one, the configuration is that of the defaults and the environment.
FileStates == {"missing", "unreadable", "empty", "other version", "not YAML", "good"}
tryLoadingConfig(files) ==
    LET found == {i \in DOMAIN files : files[i] \notin {"missing", "unreadable"}}
    IN  IF found = {} THEN "empty" ELSE files[Min(found)]

Verify(engines, managed, root) ==
    CASE engines = <<>> -> [ok |-> FALSE, root |-> root]
      [] engines # <<>> /\ managed /\ root = <<>> -> [ok |-> FALSE, root |-> root]
      [] OTHER -> [ok |-> TRUE, root |-> IF managed THEN Append(root, "__managed__") ELSE root]

\* prepare and the beginning of main: Relay is made, or the process ends.
start(files, names, managed, root) ==
    LET raw == tryLoadingConfig(files)
        verified == Verify(parseEngines(names), managed, root)
    IN  [running |-> raw \in {"empty", "good"} /\ verified.ok,
         engines |-> parseEngines(names), root |-> verified.root]

Lists(S) == UNION {[1 .. n -> S] : n \in 0 .. MaxList}

\* setDefaultValues takes a value of the file to be unassigned.
Overruled(field, file) ==
    field.default \notin {"", Zero(field.kind)} /\ file = Zero(field.kind)

\* The environment has the last word, then the file, then the default, and
\* what cannot be read in the environment stops Relay.  (Of a file that says
\* 0, false or "" see FileKept.)
Precedence ==
    \A field \in Fields : \A file \in FileValues(field), env \in EnvValues(field) :
       env # "" \/ ~Overruled(field, file) =>
          populate(field, file, env) =
             CASE env = Junk /\ field.kind # "string" -> Panic
               [] env # "" /\ (env = Junk => field.kind = "string") -> env
               [] env = "" /\ file # NotThere -> file
               [] OTHER -> IF field.default # "" THEN field.default ELSE Zero(field.kind)

\* "Set default values on unassigned fields": what the file assigns is kept,
\* if the environment does not say otherwise.
FileKept == \A field \in Fields : \A file \in FileValues(field) \ {NotThere} :
               populate(field, file, "") = file

\* A Relay that runs has an engine, and no engine twice; it knows where its
\* dynamic configuration is if it manages it itself, in a directory of its
\* own; and no file that can be read and is not good was found before the
\* good one.
StartsComplete ==
    \A files \in Lists(FileStates), names \in Lists({"docker", "native", "other"}),
       managed \in BOOLEAN, root \in {<<>>, <<"dir">>} :
          LET relay == start(files, names, managed, root)
          IN  relay.running =>
                 /\ relay.engines # <<>>
                 /\ Len(relay.engines) = Cardinality(Range(relay.engines))
                 /\ Range(relay.engines) = Range(names) \ {"other"}
                 /\ managed => relay.root = <<"dir", "__managed__">>
                 /\ ~managed => relay.root = root
                 /\ \A i \in DOMAIN files : files[i] \in {"other version", "not YAML"} =>
                       \E j \in 1 .. i - 1 : files[j] \in {"empty", "good"}
=============================================================================
