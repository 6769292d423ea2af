---------------------------- MODULE OutputParser ----------------------------
(***************************************************************************)
(* What a worker makes of the output of a command                          *)
(* (relay/worker/output_parser_v1.go).  A line is known by its kind: for   *)
(* the log, an action ("abort" or another one), a template, the JSON mark, *)
(* or none of these: text, blank, or the beginning of a JSON value.  No    *)
(* line matches two of the regular expressions, so that the order in which *)
(* a Go map is visited makes no difference.                                *)
(***************************************************************************)
EXTENDS Naturals, Sequences, FiniteSets

CONSTANT MaxLines  \* bound on the lines of an output

Templates == {"template1", "template2"}
Commanding == {"log", "abort", "action", "JSON"} \cup Templates
Kinds == Commanding \cup {"text", "blank", "value"}
Outputs == UNION {[1 .. n -> Kinds] : n \in 0 .. MaxLines}

ASSUME OutputAssumption == MaxLines \in Nat

Empty == ""
NoResponse == [status |-> "ok", message |-> Empty, template |-> Empty, body |-> <<>>,
               isJSON |-> FALSE, aborted |-> FALSE]

matcher(resp, line) ==
    CASE line = "abort" -> [resp EXCEPT !.aborted = TRUE]
      [] line \in Templates -> [resp EXCEPT !.template = line]
      [] line = "JSON" -> [resp EXCEPT !.isJSON = TRUE]
      [] OTHER -> resp

\* Mutant: lines are matched after the JSON mark as well.
Matches_always(resp, line) == line \in Commanding

Matches(resp, line) == ~resp.isJSON /\ line \in Commanding

\* A line that is matched is consumed; the others are retained.
parseLine(acc, line) ==
    IF Matches(acc.resp, line) THEN [acc EXCEPT !.resp = matcher(@, line)]
    ELSE [acc EXCEPT !.retained = Append(@, line)]

\* The decoder reads the first value, and nothing after it.
Decodable(lines) == \E i \in DOMAIN lines : /\ lines[i] = "value"
                                            /\ \A j \in 1 .. i - 1 : lines[j] = "blank"

Failed(resp, message) == [resp EXCEPT !.status = "error", !.message = message]

readLines(stdout) ==
    LET acc[i \in 0 .. Len(stdout)] ==
          IF i = 0 THEN [resp |-> NoResponse, retained |-> <<>>]
          ELSE parseLine(acc[i - 1], stdout[i])
    IN  acc[Len(stdout)]

setBody(resp, retained) ==
    IF ~resp.isJSON THEN [resp EXCEPT !.body = retained]
    ELSE IF Decodable(retained) THEN [resp EXCEPT !.body = <<"value">>]
    ELSE Failed(resp, "Command returned invalid JSON.")

\* err: the command could not be run.
Parse(stdout, success, err) ==
    LET acc == readLines(stdout)
        full == setBody(acc.resp, acc.retained)
    IN  CASE err -> Failed(NoResponse, "err")
          [] ~err /\ ~success -> Failed(acc.resp, "stderr")
          [] OTHER -> IF full.status = "ok" /\ full.aborted
                      THEN [full EXCEPT !.status = "abort"] ELSE full

(***************************************************************************)
(* The output protocol, said of positions.                                 *)
(***************************************************************************)
Lead(out) == {i \in DOMAIN out : \A j \in 1 .. i : out[j] # "JSON"}
IsJSON(out) == Lead(out) # DOMAIN out

\* After the JSON mark every line is payload; before it those are that say
\* nothing to Relay.
Payload(out) == {i \in DOMAIN out : /\ i \in Lead(out) => out[i] \notin Commanding
                                    /\ i \notin Lead(out) => \E j \in 1 .. i - 1 : out[j] = "JSON"}

GoodJSON(out) == \E i \in Payload(out) :
                    /\ out[i] = "value"
                    /\ \A j \in Payload(out) : j < i => out[j] = "blank"

Fails(out, success, err) == err \/ ~success \/ (IsJSON(out) /\ ~GoodJSON(out))
Aborts(out) == \E i \in Lead(out) : out[i] = "abort"

\* The sequence holds the lines of out at these positions, each after those
\* that come before it in out, and no other.
InOrder(lines, out, positions) ==
    /\ Len(lines) = Cardinality(positions)
    /\ \A i \in positions : lines[Cardinality({j \in positions : j <= i})] = out[i]

\* For every output: the response is an error exactly if the command failed or
\* its JSON cannot be read; it aborts the pipeline exactly if it is none and
\* the command said so before the JSON mark; the last template before the
\* mark counts; the body of a command that does not fail is its JSON value,
\* or all the lines that say nothing to Relay, in their order; and that of
\* one that fails is empty.
OutputMeaning ==
    \A out \in Outputs, success \in BOOLEAN, err \in BOOLEAN :
       LET resp == Parse(out, success, err)
           templates == {i \in Lead(out) : out[i] \in Templates}
       IN  /\ (resp.status = "error") <=> Fails(out, success, err)
           /\ (resp.status = "abort") <=> (~Fails(out, success, err) /\ Aborts(out))
           /\ IF err \/ templates = {} THEN resp.template = Empty
              ELSE \E i \in templates : /\ resp.template = out[i]
                                        /\ \A j \in templates : j <= i
           /\ Fails(out, success, err) => resp.body = <<>>
           /\ ~Fails(out, success, err) /\ IsJSON(out) => resp.body = <<"value">>
           /\ ~Fails(out, success, err) /\ ~IsJSON(out) => InOrder(resp.body, out, Payload(out))
=============================================================================
