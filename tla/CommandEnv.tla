----------------------------- MODULE CommandEnv -----------------------------
(***************************************************************************)
(* The variables through which a command gets its arguments and options    *)
(* (relay/messages/env_builder.go).  A name is the sequence of the words   *)
(* between its underscores, so that names made in different ways can meet: *)
(* the option foo_count and the count of the list-valued option foo.  The  *)
(* environment is the set of what PutEnv was called with, in any order (Go *)
(* maps have none); which of two values for one name the command gets is   *)
(* decided elsewhere.                                                      *)
(***************************************************************************)
EXTENDS Naturals, Sequences

CONSTANTS OptionNames,  \* the names of options, as sequences of words
          ToUpper,      \* ToUpper[word]: strings.ToUpper
          Digits,       \* Digits[n]: the number as a word
          MaxItems      \* bound on the arguments and the items of a list

\* Each number is a word of its own, and none is COUNT.
ASSUME EnvAssumption ==
    /\ MaxItems \in Nat
    /\ OptionNames \subseteq Seq(DOMAIN ToUpper)
    /\ 0 .. MaxItems \subseteq DOMAIN Digits
    /\ \A n \in DOMAIN Digits : Digits[n] # "COUNT"
    /\ \A m, n \in DOMAIN Digits : Digits[m] = Digits[n] => m = n

Upper(name) == [i \in DOMAIN name |-> ToUpper[name[i]]]
OptVar(name) == <<"COG", "OPT">> \o Upper(name)

\* A request has a number of arguments and options, each a scalar or a list
\* of some length.  A value is known by where it comes from.  (For an option
\* that is null there is no environment: the reflection on its value panics.)
Option == [list : {FALSE}, len : {0}] \cup [list : {TRUE}, len : 0 .. MaxItems]
Requests == [args : 0 .. MaxItems,
             options : UNION {[given -> Option] : given \in SUBSET OptionNames}]
Given(request) == DOMAIN request.options

Number(n) == <<"number", {}, n>>
Argument(i) == <<"argument", {}, i>>
Scalar(o) == <<"option", {o}, 0>>
Item(o, i) == <<"item", {o}, i>>
Names(names) == <<"names", names, 0>>

\* Mutant: a list is handled as any other value.
putOption_plain(o, value) == {<<OptVar(o), Scalar(o)>>}

\* List-valued options are handled specially.
putOption(o, value) ==
    IF ~value.list THEN {<<OptVar(o), Scalar(o)>>}
    ELSE {<<OptVar(o) \o <<"COUNT">>, Number(value.len)>>}
         \cup {<<OptVar(o) \o <<Digits[i]>>, Item(o, i)>> : i \in 0 .. value.len - 1}

putArgs(request) ==
    {<<<<"COG", "ARGV", Digits[i]>>, Argument(i)>> : i \in 0 .. request.args - 1}
    \cup {<<<<"COG", "ARGC">>, Number(request.args)>>}

putOptions(request) == UNION {putOption(o, request.options[o]) : o \in Given(request)}

\* The option names are listed, too, if there are any.
putNames(request) ==
    {<<<<"COG", "OPTS">>, Names(given)>> : given \in {Given(request)} \ {{}}}

\* LoadDynamicConfig deletes the keys that begin with COG_ or RELAY_.
legal(dyn) == {pair \in dyn : Len(pair[1]) > 1 => Head(pair[1]) \notin {"COG", "RELAY"}}

\* Left out are the variables that describe user, room and pipeline, and those
\* the bundle and Relay's own configuration set, which may be any.
compileEnvironment(request, dyn) ==
    putArgs(request) \cup putOptions(request) \cup putNames(request) \cup legal(dyn)

(***************************************************************************)
(* The command's side.                                                     *)
(***************************************************************************)
Values(env, name) == {pair[2] : pair \in {p \in env : p[1] = name}}

\* What a command finds under an option's name: a list, if it has a count.
ReadsAs(env, o, value) ==
    IF ~value.list THEN /\ Values(env, OptVar(o) \o <<"COUNT">>) = {}
                        /\ Values(env, OptVar(o)) = {Scalar(o)}
    ELSE /\ Values(env, OptVar(o) \o <<"COUNT">>) = {Number(value.len)}
         /\ \A i \in 0 .. value.len - 1 :
               Values(env, OptVar(o) \o <<Digits[i]>>) = {Item(o, i)}

\* Two options can be taken for one another: they differ in case only, or one
\* has the name of a variable the other is, or could be, passed in.
Confusable(o, p) ==
    \/ Upper(o) = Upper(p)
    \/ \E w \in {"COUNT"} \cup {Digits[i] : i \in DOMAIN Digits} : Upper(p) = Append(Upper(o), w)

\* Dynamic configurations, among them one with a name of compileEnvironment's.
Dynamic == SUBSET {<<<<"COG", "ARGC">>, Scalar(<<"dyn">>)>>, <<<<"KEY">>, Scalar(<<"dyn">>)>>}

\* A command can tell from its environment what it was called with, with any
\* dynamic configuration: the number of arguments and each of them, the
\* options, and which of them are lists, of what; unless two of its options
\* are confusable.
RequestReadable ==
    \A request \in Requests, dyn \in Dynamic :
       LET env == compileEnvironment(request, dyn)
       IN  /\ Values(env, <<"COG", "ARGC">>) = {Number(request.args)}
           /\ \A i \in 0 .. request.args - 1 :
                 Values(env, <<"COG", "ARGV", Digits[i]>>) = {Argument(i)}
           /\ \A o \in Given(request) :
                 (\A p \in Given(request) \ {o} : ~Confusable(o, p) /\ ~Confusable(p, o))
                     => ReadsAs(env, o, request.options[o])
           /\ Values(env, <<"COG", "OPTS">>) = {Names(Given(request))} \ {Names({})}
=============================================================================
