----------------------------- MODULE MCDispatch -----------------------------
(***************************************************************************)
(* Small instances of Dispatch for TLC, of the settings Relay starts with, *)
(* and of what a worker does with a command: its environment and its       *)
(* output.  Without symmetry, because of the liveness properties.          *)
(***************************************************************************)
EXTENDS Dispatch, OutputParser, CommandEnv, Settings

MCOptionNames == {<<"foo">>, <<"Foo">>, <<"foo", "count">>, <<"bar">>}
MCDigits == [n \in 0 .. 2 |-> <<"0", "1", "2">>[n + 1]]
MCToUpper == [word \in {"foo", "Foo", "count", "bar"} |->
                CASE word \in {"foo", "Foo"} -> "FOO"
                  [] word = "count" -> "COUNT"
                  [] word = "bar" -> "BAR"]

\* A command can tell what it was called with (compileEnvironment).  (This and
\* the next two are said of the initial state, as they do not depend on it.)
CommandsInformed == Init => RequestReadable

\* A response means what the command's output says (OutputParserV1.Parse).
ResponsesMeant == Init => OutputMeaning

\* Relay starts with the settings that environment, file and defaults give it
\* (config.go: populate), but for a file's zero values (see AssignedKept), and
\* only if they are complete (parseEngines, Verify).
StartsAsConfigured == Init => Precedence /\ StartsComplete

\* A value that the file assigns is not replaced by a default ("Set default
\* values on unassigned fields"; setDefaultValues replaces every 0, false and
\* "", as it cannot tell them from fields that are not in the file).
AssignedKept == Init => FileKept
=============================================================================
