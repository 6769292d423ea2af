--------------------------- MODULE AlgorithmProofs ---------------------------
(***************************************************************************)
(* What Relay computes for any request, any output of a command, and any   *)
(* configuration.                                                          *)
(***************************************************************************)
EXTENDS MCDispatch, FiniteSetTheorems, TLAPS

(***************************************************************************)
(* Loops: a value that is computed item by item, and what is shown of it.  *)
(***************************************************************************)
LEMMA Least ==
    ASSUME NEW S \in SUBSET Nat, S # {}
    PROVE  \E x \in S : \A y \in S : x =< y
<1> DEFINE R == OpToRel(<, Nat)
<1>1. IsWellFoundedOn(R, Nat)
  BY NatLessThanWellFounded, Zenon
<1>2. PICK x \in S : \A y \in S : ~(<<y, x>> \in R)
  <2> HIDE DEF R
  <2> QED BY <1>1, WFMin, Zenon
<1>3. ASSUME NEW y \in S PROVE x =< y
  <2>1. x \in Nat /\ y \in Nat
    OBVIOUS
  <2>2. ~(y < x)
    BY <1>2, <2>1, Zenon DEF OpToRel
  <2> QED BY <2>1, <2>2
<1> QED BY <1>3

\* What holds at first and is kept by each round holds after all rounds.
LEMMA Rounds ==
    ASSUME NEW n \in Nat, NEW S, 0 \in S, \A i \in 1 .. n : i - 1 \in S => i \in S
    PROVE  \A i \in 0 .. n : i \in S
<1> SUFFICES ASSUME \E i \in 0 .. n : i \notin S PROVE FALSE
  OBVIOUS
<1> DEFINE T == {i \in 0 .. n : i \notin S}
<1>1. T \in SUBSET Nat /\ T # {}
  OBVIOUS
<1>2. PICK x \in T : \A y \in T : x =< y
  <2> HIDE DEF T
  <2> QED BY <1>1, Least
<1>3. x \in 1 .. n
  BY <1>2
<1>4. x - 1 \in 0 .. n /\ ~(x =< x - 1)
  BY <1>3
<1>5. x - 1 \in S
  BY <1>2, <1>4
<1> QED BY <1>2, <1>3, <1>5

\* A loop over n items: step[<<s, t>>] follows on s when the next item is t.
IsLoop(S, T, step, first, n, items) ==
    step \in [S \X T -> S] /\ first \in S /\ n \in Nat /\ items \in [1 .. n -> T]

\* The values it takes.
Takes(f, S, step, first, n, items) ==
    /\ f \in [0 .. n -> S] /\ f[0] = first
    /\ \A i \in 1 .. n : f[i] = step[<<f[i - 1], items[i]>>]

LEMMA Loop ==
    ASSUME NEW S, NEW T, NEW step, NEW first, NEW n, NEW items,
           IsLoop(S, T, step, first, n, items)
    PROVE  \E f : Takes(f, S, step, first, n, items)
<1> USE DEF IsLoop
<1> DEFINE Good(m, f) == /\ f \in [0 .. m -> S] /\ f[0] = first
                         /\ \A i \in 1 .. m : f[i] = step[<<f[i - 1], items[i]>>]
           Done == {m \in 0 .. n : \E f : Good(m, f)}
<1>1. 0 \in Done
  <2> DEFINE f == [i \in 0 .. 0 |-> first]
  <2>1. f \in [0 .. 0 -> S] /\ f[0] = first
    OBVIOUS
  <2>2. 1 .. 0 = {}
    OBVIOUS
  <2>3. Good(0, f)
    <3> HIDE DEF f
    <3> QED BY <2>1, <2>2
  <2>4. 0 \in 0 .. n
    OBVIOUS
  <2> QED BY <2>3, <2>4, Zenon
<1>2. ASSUME NEW m \in 1 .. n, m - 1 \in Done PROVE m \in Done
  <2>1. PICK f : Good(m - 1, f)
    BY <1>2
  <2> DEFINE g == [i \in 0 .. m |-> IF i = m THEN step[<<f[m - 1], items[m]>>] ELSE f[i]]
  <2>2. m - 1 \in 0 .. m - 1 /\ m \in Nat /\ items[m] \in T /\ f[m - 1] \in S
    BY <2>1
  <2>3. step[<<f[m - 1], items[m]>>] \in S
    BY <2>2
  <2>4. g \in [0 .. m -> S] /\ g[0] = first
    BY <2>1, <2>2, <2>3
  <2>5. ASSUME NEW i \in 1 .. m PROVE g[i] = step[<<g[i - 1], items[i]>>]
    <3>1. CASE i = m
      <4>1. m \in 0 .. m /\ m - 1 \in 0 .. m /\ m - 1 # m
        BY <2>2
      <4>2. g[m] = step[<<f[m - 1], items[m]>>] /\ g[m - 1] = f[m - 1]
        BY <4>1, Zenon
      <4> QED BY <3>1, <4>2, Zenon
    <3>2. CASE i # m
      <4>1. i \in 1 .. m - 1 /\ i - 1 \in 0 .. m /\ i - 1 # m
        BY <2>2, <3>2
      <4>2. g[i] = f[i] /\ g[i - 1] = f[i - 1]
        BY <3>2, <4>1
      <4> QED BY <2>1, <4>1, <4>2
    <3> QED BY <3>1, <3>2
  <2>6. Good(m, g)
    BY <2>4, <2>5, Zenon
  <2>7. m \in 0 .. n
    OBVIOUS
  <2> HIDE DEF g
  <2> QED BY <2>6, <2>7, Zenon
<1>3. n \in Done
  <2> HIDE DEF Done
  <2>1. \A i \in 0 .. n : i \in Done
    BY <1>1, <1>2, Rounds, Zenon
  <2> QED BY <2>1
<1> QED BY <1>3, Zenon DEF Takes

(***************************************************************************)
(* Sequences.                                                              *)
(***************************************************************************)
LEMMA TupleIsSequence ==
    ASSUME NEW S, NEW n \in Nat, NEW f \in [1 .. n -> S]
    PROVE  f \in Seq(S)
OBVIOUS

LEMMA SameSequence ==
    ASSUME NEW S, NEW s \in Seq(S), NEW t \in Seq(S),
           Len(s) = Len(t), \A i \in 1 .. Len(s) : s[i] = t[i]
    PROVE  s = t
OBVIOUS

LEMMA AppendedSame ==
    ASSUME NEW S, NEW s \in Seq(S), NEW t \in Seq(S), NEW v \in S, NEW w \in S,
           Append(s, v) = Append(t, w)
    PROVE  s = t /\ v = w
OBVIOUS

(***************************************************************************)
(* The names of variables.                                                 *)
(***************************************************************************)
Words == {ToUpper[w] : w \in DOMAIN ToUpper} \cup {Digits[n] : n \in DOMAIN Digits}
         \cup {"COG", "OPT", "COUNT"}

LEMMA UpperTypes ==
    ASSUME NEW o \in OptionNames
    PROVE  Upper(o) \in Seq(Words)
<1>1. o \in Seq(DOMAIN ToUpper)
  BY EnvAssumption
<1>2. Len(o) \in Nat /\ DOMAIN o = 1 .. Len(o) /\ \A i \in 1 .. Len(o) : o[i] \in DOMAIN ToUpper
  BY <1>1
<1>3. Upper(o) \in [1 .. Len(o) -> Words]
  BY <1>2, Zenon DEF Upper, Words
<1> QED BY <1>2, <1>3, TupleIsSequence, Zenon

\* OptVar, of the words of the option's name in upper case.
Prefixed(s) == <<"COG", "OPT">> \o s

LEMMA PrefixedWords ==
    ASSUME NEW s \in Seq(Words)
    PROVE  /\ Prefixed(s) \in Seq(Words) /\ Len(Prefixed(s)) = Len(s) + 2 /\ Len(s) \in Nat
           /\ Prefixed(s)[1] = "COG" /\ Prefixed(s)[2] = "OPT"
           /\ \A i \in 1 .. Len(s) : Prefixed(s)[i + 2] = s[i]
<1>1. PICK a \in Words, b \in Words : a = "COG" /\ b = "OPT"
  BY Zenon DEF Words
<1>2. /\ <<a, b>> \o s \in Seq(Words) /\ Len(<<a, b>> \o s) = Len(s) + 2 /\ Len(s) \in Nat
      /\ (<<a, b>> \o s)[1] = a /\ (<<a, b>> \o s)[2] = b
      /\ \A i \in 1 .. Len(s) : (<<a, b>> \o s)[i + 2] = s[i]
  OBVIOUS
<1> QED BY <1>1, <1>2, Zenon DEF Prefixed

\* The prefix does not make two names the same.
LEMMA PrefixedInjective ==
    ASSUME NEW s \in Seq(Words), NEW t \in Seq(Words), Prefixed(s) = Prefixed(t)
    PROVE  s = t
<1>1. Len(s) = Len(t) /\ Len(s) \in Nat
  BY PrefixedWords
<1>2. ASSUME NEW i \in 1 .. Len(s) PROVE s[i] = t[i]
  <2>1. Prefixed(s)[i + 2] = s[i]
    BY PrefixedWords
  <2>2. Prefixed(t)[i + 2] = t[i]
    BY <1>1, PrefixedWords, SMTT(20)
  <2> QED BY <2>1, <2>2
<1> QED BY <1>1, <1>2, SameSequence

LEMMA ExtendedWords ==
    ASSUME NEW s \in Seq(Words), NEW w \in Words
    PROVE  /\ Append(s, w) \in Seq(Words) /\ s # Append(s, w)
           /\ Prefixed(s) \o <<w>> = Prefixed(Append(s, w))
<1>1. Append(s, w) \in Seq(Words) /\ Len(Append(s, w)) = Len(s) + 1 /\ Len(s) \in Nat
  OBVIOUS
<1>2. Prefixed(s) \o <<w>> = Prefixed(Append(s, w))
  <2>1. PICK a \in Words, b \in Words : a = "COG" /\ b = "OPT"
    BY Zenon DEF Words
  <2>2. (<<a, b>> \o s) \o <<w>> = <<a, b>> \o Append(s, w)
    OBVIOUS
  <2> QED BY <2>1, <2>2, Zenon DEF Prefixed
<1>3. s # Append(s, w)
  BY <1>1
<1> QED BY <1>1, <1>2, <1>3

LEMMA RequestTypes ==
    ASSUME NEW request \in Requests
    PROVE  /\ request.args \in 0 .. MaxItems /\ Given(request) \subseteq OptionNames
           /\ \A o \in Given(request) : request.options[o] \in Option
<1>1. request.args \in 0 .. MaxItems
  BY DEF Requests
<1>2. PICK given \in SUBSET OptionNames : request.options \in [given -> Option]
  BY DEF Requests
<1> QED BY <1>1, <1>2, Zenon DEF Given

LEMMA OptionTypes ==
    ASSUME NEW value \in Option
    PROVE  value.list \in BOOLEAN /\ value.len \in Nat /\ 0 .. value.len - 1 \subseteq DOMAIN Digits
<1>1. MaxItems \in Nat /\ 0 .. MaxItems \subseteq DOMAIN Digits
  BY EnvAssumption, Zenon
<1>2. value.list \in BOOLEAN /\ value.len \in 0 .. MaxItems
  <2>1. \/ value.list \in {FALSE} /\ value.len \in {0}
        \/ value.list \in {TRUE} /\ value.len \in 0 .. MaxItems
    BY Zenon DEF Option
  <2>2. 0 \in 0 .. MaxItems
    BY <1>1
  <2> QED BY <2>1, <2>2, Zenon
<1> QED BY <1>1, <1>2

\* The variables an option is passed in.
LEMMA OptionPairs ==
    ASSUME NEW o \in OptionNames, NEW value \in Option, NEW pair \in putOption(o, value)
    PROVE  \/ ~value.list /\ pair = <<Prefixed(Upper(o)), Scalar(o)>>
           \/ value.list /\ pair = <<Prefixed(Append(Upper(o), "COUNT")), Number(value.len)>>
           \/ value.list /\ \E i \in 0 .. value.len - 1 :
                 pair = <<Prefixed(Append(Upper(o), Digits[i])), Item(o, i)>>
<1>1. OptVar(o) = Prefixed(Upper(o))
  BY Zenon DEF OptVar, Prefixed
<1>2. OptVar(o) \o <<"COUNT">> = Prefixed(Append(Upper(o), "COUNT"))
  <2>1. PICK w \in Words : w = "COUNT"
    BY Zenon DEF Words
  <2> QED BY <1>1, <2>1, UpperTypes, ExtendedWords, Zenon
<1>3. ASSUME NEW i \in 0 .. value.len - 1
      PROVE  OptVar(o) \o <<Digits[i]>> = Prefixed(Append(Upper(o), Digits[i]))
  <2>1. Digits[i] \in Words
    BY OptionTypes, Zenon DEF Words
  <2> QED BY <1>1, <2>1, UpperTypes, ExtendedWords, Zenon
<1> QED BY <1>1, <1>2, <1>3, Zenon DEF putOption

\* What has a name of Relay's own is not from the dynamic configuration.
LEMMA OwnPairs ==
    ASSUME NEW request \in Requests, NEW dyn, NEW pair \in compileEnvironment(request, dyn),
           Len(pair[1]) > 1, Head(pair[1]) = "COG"
    PROVE  \/ \E i \in 0 .. request.args - 1 : pair = <<<<"COG", "ARGV", Digits[i]>>, Argument(i)>>
           \/ pair = <<<<"COG", "ARGC">>, Number(request.args)>>
           \/ \E o \in Given(request) : pair \in putOption(o, request.options[o])
           \/ Given(request) # {} /\ pair = <<<<"COG", "OPTS">>, Names(Given(request))>>
<1>1. pair \notin legal(dyn)
  BY Zenon DEF legal
<1>2. pair \in putArgs(request) \/ pair \in putOptions(request) \/ pair \in putNames(request)
  BY <1>1, Zenon DEF compileEnvironment
<1>3. CASE pair \in putArgs(request)
  BY <1>3, Zenon DEF putArgs
<1>4. CASE pair \in putOptions(request)
  BY <1>4, Zenon DEF putOptions
<1>5. CASE pair \in putNames(request)
  BY <1>5, Zenon DEF putNames
<1> QED BY <1>2, <1>3, <1>4, <1>5, Zenon

\* An option's variables have names that begin with COG_OPT_.
LEMMA OptionNamed ==
    ASSUME NEW o \in OptionNames, NEW value \in Option, NEW pair \in putOption(o, value)
    PROVE  \E s \in Seq(Words) : pair[1] = Prefixed(s)
<1>1. Upper(o) \in Seq(Words)
  BY UpperTypes
<1>2. CASE ~value.list /\ pair = <<Prefixed(Upper(o)), Scalar(o)>>
  BY <1>1, <1>2, Zenon
<1>3. CASE value.list /\ pair = <<Prefixed(Append(Upper(o), "COUNT")), Number(value.len)>>
  <2>1. PICK w \in Words : w = "COUNT"
    BY Zenon DEF Words
  <2>2. Append(Upper(o), "COUNT") \in Seq(Words)
    BY <1>1, <2>1, ExtendedWords, Zenon
  <2> QED BY <1>3, <2>2, Zenon
<1>4. ASSUME NEW i \in 0 .. value.len - 1,
             pair = <<Prefixed(Append(Upper(o), Digits[i])), Item(o, i)>>
      PROVE  \E s \in Seq(Words) : pair[1] = Prefixed(s)
  <2>1. Digits[i] \in Words
    BY OptionTypes, Zenon DEF Words
  <2>2. Append(Upper(o), Digits[i]) \in Seq(Words)
    BY <1>1, <2>1, ExtendedWords, Zenon
  <2> QED BY <1>4, <2>2, Zenon
<1> QED BY OptionPairs, <1>2, <1>3, <1>4, Zenon

LEMMA PrefixedHead ==
    ASSUME NEW s \in Seq(Words)
    PROVE  Len(Prefixed(s)) > 1 /\ Head(Prefixed(s)) = "COG"
BY PrefixedWords

LEMMA OtherNames ==
    ASSUME NEW s \in Seq(Words), NEW d
    PROVE  /\ Prefixed(s) # <<"COG", "ARGC">> /\ Prefixed(s) # <<"COG", "OPTS">>
           /\ Prefixed(s) # <<"COG", "ARGV", d>>
<1>1. Prefixed(s)[2] = "OPT"
  BY PrefixedWords
<1>2. <<"COG", "ARGC">>[2] # "OPT" /\ <<"COG", "OPTS">>[2] # "OPT" /\ <<"COG", "ARGV", d>>[2] # "OPT"
  OBVIOUS
<1> QED BY <1>1, <1>2, Zenon

LEMMA FixedNames ==
    ASSUME NEW d
    PROVE  /\ Len(<<"COG", "ARGC">>) > 1 /\ Head(<<"COG", "ARGC">>) = "COG"
           /\ Len(<<"COG", "OPTS">>) > 1 /\ Head(<<"COG", "OPTS">>) = "COG"
           /\ Len(<<"COG", "ARGV", d>>) > 1 /\ Head(<<"COG", "ARGV", d>>) = "COG"
           /\ <<"COG", "ARGC">> # <<"COG", "OPTS">>
           /\ <<"COG", "ARGC">> # <<"COG", "ARGV", d>> /\ <<"COG", "OPTS">> # <<"COG", "ARGV", d>>
           /\ \A e : <<"COG", "ARGV", d>> = <<"COG", "ARGV", e>> => d = e
OBVIOUS

LEMMA OneValue ==
    ASSUME NEW env, NEW name, NEW value, <<name, value>> \in env,
           \A pair \in env : pair[1] = name => pair = <<name, value>>
    PROVE  Values(env, name) = {value}
<1>1. ASSUME NEW v \in Values(env, name) PROVE v = value
  <2>1. PICK pair \in env : pair[1] = name /\ v = pair[2]
    BY <1>1, Zenon DEF Values
  <2>2. pair = <<name, value>>
    BY <2>1
  <2> QED BY <2>1, <2>2
<1>2. value \in Values(env, name)
  <2>1. PICK pair \in env : pair = <<name, value>>
    BY Zenon
  <2>2. pair[1] = name /\ pair[2] = value
    BY <2>1, Zenon
  <2> QED BY <2>2, Zenon DEF Values
<1> QED BY <1>1, <1>2, Zenon

\* The arguments and the list of options.
LEMMA ArgumentsReadable ==
    ASSUME NEW request \in Requests, NEW dyn
    PROVE  LET env == compileEnvironment(request, dyn)
           IN  /\ Values(env, <<"COG", "ARGC">>) = {Number(request.args)}
               /\ \A i \in 0 .. request.args - 1 :
                     Values(env, <<"COG", "ARGV", Digits[i]>>) = {Argument(i)}
               /\ Values(env, <<"COG", "OPTS">>) = {Names(Given(request))} \ {Names({})}
<1> DEFINE env == compileEnvironment(request, dyn)
           Argv(i) == <<"COG", "ARGV", Digits[i]>>
<1>1. ASSUME NEW pair \in env, NEW o \in Given(request), pair \in putOption(o, request.options[o])
      PROVE  /\ pair[1] # <<"COG", "ARGC">> /\ pair[1] # <<"COG", "OPTS">>
             /\ \A d : pair[1] # <<"COG", "ARGV", d>>
  <2>1. o \in OptionNames /\ request.options[o] \in Option
    BY RequestTypes, Zenon
  <2> QED BY <1>1, <2>1, OptionNamed, OtherNames, Zenon
<1>2. Values(env, <<"COG", "ARGC">>) = {Number(request.args)}
  <2>1. <<<<"COG", "ARGC">>, Number(request.args)>> \in env
    BY Zenon DEF compileEnvironment, putArgs
  <2>2. ASSUME NEW pair \in env, pair[1] = <<"COG", "ARGC">>
        PROVE  pair = <<<<"COG", "ARGC">>, Number(request.args)>>
    <3>1. Len(pair[1]) > 1 /\ Head(pair[1]) = "COG"
      BY <2>2, FixedNames, Zenon
    <3>2. /\ pair[1] # <<"COG", "OPTS">>
          /\ \A d : pair[1] # <<"COG", "ARGV", d>>
      BY <2>2, FixedNames, Zenon
    <3>3. \/ \E j \in 0 .. request.args - 1 : pair = <<<<"COG", "ARGV", Digits[j]>>, Argument(j)>>
          \/ pair = <<<<"COG", "ARGC">>, Number(request.args)>>
          \/ Given(request) # {} /\ pair = <<<<"COG", "OPTS">>, Names(Given(request))>>
      BY <1>1, <2>2, <3>1, OwnPairs, Zenon
    <3> QED BY <3>2, <3>3
  <2> QED BY <2>1, <2>2, OneValue, Zenon
<1>3. ASSUME NEW i \in 0 .. request.args - 1
      PROVE  Values(env, <<"COG", "ARGV", Digits[i]>>) = {Argument(i)}
  <2>1. <<<<"COG", "ARGV", Digits[i]>>, Argument(i)>> \in env
    BY Zenon DEF compileEnvironment, putArgs
  <2>2. ASSUME NEW pair \in env, pair[1] = <<"COG", "ARGV", Digits[i]>>
        PROVE  pair = <<<<"COG", "ARGV", Digits[i]>>, Argument(i)>>
    <3>1. PICK j \in 0 .. request.args - 1 : pair = <<<<"COG", "ARGV", Digits[j]>>, Argument(j)>>
      <4>1. Len(pair[1]) > 1 /\ Head(pair[1]) = "COG"
        BY <2>2, FixedNames, Zenon
      <4>2. pair[1] # <<"COG", "OPTS">> /\ pair[1] # <<"COG", "ARGC">>
        BY <2>2, FixedNames, Zenon
      <4>3. \/ \E j \in 0 .. request.args - 1 : pair = <<<<"COG", "ARGV", Digits[j]>>, Argument(j)>>
            \/ pair = <<<<"COG", "ARGC">>, Number(request.args)>>
            \/ Given(request) # {} /\ pair = <<<<"COG", "OPTS">>, Names(Given(request))>>
        BY <1>1, <2>2, <4>1, OwnPairs, Zenon
      <4> QED BY <4>2, <4>3
    <3>2. Digits[i] = Digits[j]
      BY <2>2, <3>1, FixedNames, Zenon
    <3>3. i = j
      <4>1. i \in DOMAIN Digits /\ j \in DOMAIN Digits
        BY RequestTypes, EnvAssumption
      <4> QED BY <3>2, <4>1, EnvAssumption, Zenon
    <3> QED BY <3>1, <3>3
  <2> QED BY <2>1, <2>2, OneValue, Zenon
<1>4. Values(env, <<"COG", "OPTS">>) = {Names(Given(request))} \ {Names({})}
  <2>1. ASSUME NEW pair \in env, pair[1] = <<"COG", "OPTS">>
        PROVE  Given(request) # {} /\ pair = <<<<"COG", "OPTS">>, Names(Given(request))>>
    <3>1. Len(pair[1]) > 1 /\ Head(pair[1]) = "COG"
      BY <2>1, FixedNames, Zenon
    <3>2. /\ pair[1] # <<"COG", "ARGC">>
          /\ \A d : pair[1] # <<"COG", "ARGV", d>>
      BY <2>1, FixedNames, Zenon
    <3>3. \/ \E j \in 0 .. request.args - 1 : pair = <<<<"COG", "ARGV", Digits[j]>>, Argument(j)>>
          \/ pair = <<<<"COG", "ARGC">>, Number(request.args)>>
          \/ Given(request) # {} /\ pair = <<<<"COG", "OPTS">>, Names(Given(request))>>
      BY <1>1, <2>1, <3>1, OwnPairs, Zenon
    <3> QED BY <3>2, <3>3
  <2>2. CASE Given(request) = {}
    <3>1. {p \in env : p[1] = <<"COG", "OPTS">>} = {}
      BY <2>1, <2>2, Zenon
    <3>2. Values(env, <<"COG", "OPTS">>) = {}
      BY <3>1, Zenon DEF Values
    <3> QED BY <2>2, <3>2, Zenon
  <2>3. CASE Given(request) # {}
    <3>1. <<<<"COG", "OPTS">>, Names(Given(request))>> \in env
      <4>1. <<<<"COG", "OPTS">>, Names(Given(request))>> \in putNames(request)
        BY <2>3, Zenon DEF putNames
      <4> QED BY <4>1, Zenon DEF compileEnvironment
    <3>2. Values(env, <<"COG", "OPTS">>) = {Names(Given(request))}
      BY <2>1, <3>1, OneValue, Zenon
    <3>3. Names(Given(request)) # Names({})
      BY <2>3, Zenon DEF Names
    <3> QED BY <3>2, <3>3
  <2> QED BY <2>2, <2>3
<1> QED BY <1>2, <1>3, <1>4, Zenon

(***************************************************************************)
(* Options: what has the name of an option's variable comes from an option.*)
(***************************************************************************)
LEMMA NumbersAsWords ==
    ASSUME NEW value \in Option, NEW i \in 0 .. value.len - 1
    PROVE  i \in DOMAIN Digits /\ Digits[i] \in Words /\ "COUNT" \in Words /\ Digits[i] # "COUNT"
BY OptionTypes, EnvAssumption, Zenon DEF Words

\* The pair is one that option p is passed in, under the name COG_OPT_s.
IsFrom(request, p, s, pair) ==
    LET value == request.options[p]
    IN  \/ ~value.list /\ s = Upper(p) /\ pair = <<Prefixed(s), Scalar(p)>>
        \/ /\ value.list /\ s = Append(Upper(p), "COUNT")
           /\ pair = <<Prefixed(s), Number(value.len)>>
        \/ value.list /\ \E i \in 0 .. value.len - 1 :
              s = Append(Upper(p), Digits[i]) /\ pair = <<Prefixed(s), Item(p, i)>>

LEMMA SourceOfVariable ==
    ASSUME NEW request \in Requests, NEW dyn, NEW s \in Seq(Words),
           NEW pair \in compileEnvironment(request, dyn), pair[1] = Prefixed(s)
    PROVE  \E p \in Given(request) : IsFrom(request, p, s, pair)
<1>1. Len(pair[1]) > 1 /\ Head(pair[1]) = "COG"
  BY PrefixedHead, Zenon
<1>2. PICK p \in Given(request) : pair \in putOption(p, request.options[p])
  <2>1. \/ \E i \in 0 .. request.args - 1 : pair = <<<<"COG", "ARGV", Digits[i]>>, Argument(i)>>
        \/ pair = <<<<"COG", "ARGC">>, Number(request.args)>>
        \/ \E o \in Given(request) : pair \in putOption(o, request.options[o])
        \/ Given(request) # {} /\ pair = <<<<"COG", "OPTS">>, Names(Given(request))>>
    BY <1>1, OwnPairs, Zenon
  <2>2. /\ pair[1] # <<"COG", "ARGC">> /\ pair[1] # <<"COG", "OPTS">>
        /\ \A d : pair[1] # <<"COG", "ARGV", d>>
    BY OtherNames, Zenon
  <2> HIDE DEF putOption
  <2> QED BY <2>1, <2>2
<1> DEFINE value == request.options[p]
<1>3. p \in OptionNames /\ value \in Option
  BY RequestTypes, Zenon
<1>4. Upper(p) \in Seq(Words)
  BY <1>3, UpperTypes
<1>5. ASSUME ~value.list, pair = <<Prefixed(Upper(p)), Scalar(p)>>
      PROVE  IsFrom(request, p, s, pair)
  <2>1. s = Upper(p)
    <3>1. pair[1] = Prefixed(Upper(p))
      BY <1>5
    <3> QED BY <1>4, <3>1, PrefixedInjective, Zenon
  <2> QED BY <1>5, <2>1, Zenon DEF IsFrom
<1>6. ASSUME value.list, pair = <<Prefixed(Append(Upper(p), "COUNT")), Number(value.len)>>
      PROVE  IsFrom(request, p, s, pair)
  <2>1. s = Append(Upper(p), "COUNT")
    <3>1. pair[1] = Prefixed(Append(Upper(p), "COUNT"))
      BY <1>6
    <3>2. PICK w \in Words : w = "COUNT"
      BY Zenon DEF Words
    <3>3. Append(Upper(p), "COUNT") \in Seq(Words)
      BY <1>4, <3>2, ExtendedWords, Zenon
    <3> QED BY <3>1, <3>3, PrefixedInjective, Zenon
  <2> QED BY <1>6, <2>1, Zenon DEF IsFrom
<1>7. ASSUME value.list, NEW i \in 0 .. value.len - 1,
             pair = <<Prefixed(Append(Upper(p), Digits[i])), Item(p, i)>>
      PROVE  s = Append(Upper(p), Digits[i]) /\ pair = <<Prefixed(s), Item(p, i)>>
  <2>1. pair[1] = Prefixed(Append(Upper(p), Digits[i]))
    BY <1>7
  <2>2. Append(Upper(p), Digits[i]) \in Seq(Words)
    BY <1>3, <1>4, NumbersAsWords, ExtendedWords, Zenon
  <2>3. s = Append(Upper(p), Digits[i])
    BY <2>1, <2>2, PrefixedInjective, Zenon
  <2> QED BY <1>7, <2>3, Zenon
<1>8. \/ ~value.list /\ pair = <<Prefixed(Upper(p)), Scalar(p)>>
      \/ value.list /\ pair = <<Prefixed(Append(Upper(p), "COUNT")), Number(value.len)>>
      \/ value.list /\ \E i \in 0 .. value.len - 1 :
            pair = <<Prefixed(Append(Upper(p), Digits[i])), Item(p, i)>>
  BY <1>2, <1>3, OptionPairs, Zenon
<1>9. IsFrom(request, p, s, pair)
  BY <1>5, <1>6, <1>7, <1>8, Zenon DEF IsFrom
<1> QED BY <1>9, Zenon

\* The variables of an option are there.
LEMMA VariablesThere ==
    ASSUME NEW request \in Requests, NEW dyn, NEW o \in Given(request)
    PROVE  LET env == compileEnvironment(request, dyn)
               value == request.options[o]
           IN  /\ ~value.list => <<OptVar(o), Scalar(o)>> \in env
               /\ value.list => <<OptVar(o) \o <<"COUNT">>, Number(value.len)>> \in env
               /\ value.list => \A i \in 0 .. value.len - 1 :
                     <<OptVar(o) \o <<Digits[i]>>, Item(o, i)>> \in env
<1>1. putOption(o, request.options[o]) \subseteq compileEnvironment(request, dyn)
  BY Zenon DEF compileEnvironment, putOptions
<1> QED BY <1>1, Zenon DEF putOption

\* The names of the variables of an option that is not confusable with another:
\* an option that has a variable of one of these names is this one.
LEMMA OwnName ==
    ASSUME NEW o \in OptionNames, NEW p \in OptionNames, ~Confusable(o, p), ~Confusable(p, o),
           NEW v \in {"COUNT"} \cup {Digits[i] : i \in DOMAIN Digits},
           NEW w \in {"COUNT"} \cup {Digits[i] : i \in DOMAIN Digits}
    PROVE  /\ Upper(o) # Upper(p) /\ Upper(o) # Append(Upper(p), w)
           /\ Append(Upper(o), v) # Upper(p) /\ Append(Upper(o), v) # Append(Upper(p), w)
<1>1. /\ Upper(o) # Upper(p) /\ Upper(o) # Append(Upper(p), w) /\ Append(Upper(o), v) # Upper(p)
  BY Zenon DEF Confusable
<1>2. v \in Words /\ w \in Words
  BY Zenon DEF Words
<1>3. Upper(o) \in Seq(Words) /\ Upper(p) \in Seq(Words)
  BY UpperTypes, Zenon
<1>4. ASSUME Append(Upper(o), v) = Append(Upper(p), w) PROVE FALSE
  <2>1. Upper(o) = Upper(p)
    BY <1>2, <1>3, <1>4, AppendedSame, SMTT(30)
  <2> QED BY <1>1, <2>1
<1> QED BY <1>1, <1>4, Zenon

LEMMA SameName ==
    ASSUME NEW o \in OptionNames,
           NEW v \in {"COUNT"} \cup {Digits[i] : i \in DOMAIN Digits},
           NEW w \in {"COUNT"} \cup {Digits[i] : i \in DOMAIN Digits}
    PROVE  /\ Upper(o) # Append(Upper(o), w)
           /\ Append(Upper(o), v) = Append(Upper(o), w) => v = w
<1>1. v \in Words /\ w \in Words
  BY Zenon DEF Words
<1>2. Upper(o) \in Seq(Words)
  BY UpperTypes, Zenon
<1>3. ASSUME Append(Upper(o), v) = Append(Upper(o), w) PROVE v = w
  BY <1>1, <1>2, <1>3, AppendedSame
<1>4. Upper(o) # Append(Upper(o), w)
  BY <1>1, <1>2, ExtendedWords, Zenon
<1> QED BY <1>3, <1>4, Zenon

\* What is found under a variable's name is the option's own.
LEMMA OptionsReadable ==
    ASSUME NEW request \in Requests, NEW dyn, NEW o \in Given(request),
           \A p \in Given(request) \ {o} : ~Confusable(o, p) /\ ~Confusable(p, o)
    PROVE  ReadsAs(compileEnvironment(request, dyn), o, request.options[o])
<1> DEFINE env == compileEnvironment(request, dyn)
           value == request.options[o]
           Suffixes == {"COUNT"} \cup {Digits[i] : i \in DOMAIN Digits}
<1>1. /\ o \in OptionNames /\ Upper(o) \in Seq(Words) /\ value \in Option
      /\ \A p \in Given(request) : p \in OptionNames /\ request.options[p] \in Option
  BY RequestTypes, UpperTypes, Zenon
<1>2. /\ OptVar(o) = Prefixed(Upper(o))
      /\ \A w \in Suffixes : /\ OptVar(o) \o <<w>> = Prefixed(Append(Upper(o), w))
                             /\ Append(Upper(o), w) \in Seq(Words)
  <2>1. OptVar(o) = Prefixed(Upper(o))
    BY Zenon DEF OptVar, Prefixed
  <2>2. Suffixes \subseteq Words
    BY Zenon DEF Words
  <2> QED BY <1>1, <2>1, <2>2, ExtendedWords, Zenon
<1>3. /\ "COUNT" \in Suffixes
      /\ \A p \in Given(request) : \A i \in 0 .. request.options[p].len - 1 :
            i \in DOMAIN Digits /\ Digits[i] \in Suffixes /\ Digits[i] # "COUNT"
  BY <1>1, NumbersAsWords, Zenon
\* Under the option's own name.
<1>4. ASSUME NEW pair \in env, pair[1] = OptVar(o)
      PROVE  ~value.list /\ pair = <<OptVar(o), Scalar(o)>>
  <2>1. PICK p \in Given(request) : IsFrom(request, p, Upper(o), pair)
    <3>1. pair[1] = Prefixed(Upper(o))
      BY <1>2, <1>4, Zenon
    <3> QED BY <1>1, <3>1, SourceOfVariable, Zenon
  <2>2. p = o
    BY <1>1, <1>3, <2>1, OwnName, Zenon DEF IsFrom
  <2> QED BY <1>1, <1>2, <1>3, <2>1, <2>2, SameName, Zenon DEF IsFrom
\* Under its name with a last word added.
<1>5. ASSUME NEW w \in Suffixes, NEW pair \in env, pair[1] = OptVar(o) \o <<w>>
      PROVE  value.list /\ \/ w = "COUNT" /\ pair = <<OptVar(o) \o <<w>>, Number(value.len)>>
                           \/ \E i \in 0 .. value.len - 1 :
                                 w = Digits[i] /\ pair = <<OptVar(o) \o <<w>>, Item(o, i)>>
  <2> DEFINE s == Append(Upper(o), w)
  <2>1. PICK p \in Given(request) : IsFrom(request, p, s, pair)
    <3>1. pair[1] = Prefixed(s) /\ s \in Seq(Words)
      BY <1>2, <1>5, Zenon
    <3> QED BY <3>1, SourceOfVariable, Zenon
  <2>2. p = o
    BY <1>1, <1>3, <2>1, OwnName, Zenon DEF IsFrom
  <2>3. s # Upper(o)
    BY <1>1, SameName, Zenon
  <2> QED BY <1>1, <1>2, <1>3, <2>1, <2>2, <2>3, SameName, ZenonT(30) DEF IsFrom
<1>6. CASE ~value.list
  <2>1. Values(env, OptVar(o)) = {Scalar(o)}
    <3>1. <<OptVar(o), Scalar(o)>> \in env
      BY <1>6, VariablesThere, Zenon
    <3>2. \A pair \in env : pair[1] = OptVar(o) => pair = <<OptVar(o), Scalar(o)>>
      BY <1>4
    <3> QED BY <3>1, <3>2, OneValue, Zenon
  <2>2. Values(env, OptVar(o) \o <<"COUNT">>) = {}
    <3>1. {p \in env : p[1] = OptVar(o) \o <<"COUNT">>} = {}
      BY <1>3, <1>5, <1>6, Zenon
    <3> QED BY <3>1, Zenon DEF Values
  <2> QED BY <1>6, <2>1, <2>2, Zenon DEF ReadsAs
<1>7. CASE value.list
  <2>1. Values(env, OptVar(o) \o <<"COUNT">>) = {Number(value.len)}
    <3>1. <<OptVar(o) \o <<"COUNT">>, Number(value.len)>> \in env
      BY <1>7, VariablesThere, Zenon
    <3>2. ASSUME NEW pair \in env, pair[1] = OptVar(o) \o <<"COUNT">>
          PROVE  pair = <<OptVar(o) \o <<"COUNT">>, Number(value.len)>>
      <4>1. ~ \E i \in 0 .. value.len - 1 : "COUNT" = Digits[i]
        BY <1>3, Zenon
      <4> QED BY <1>3, <1>5, <3>2, <4>1, ZenonT(30)
    <3> QED BY <3>1, <3>2, OneValue, Zenon
  <2>2. ASSUME NEW i \in 0 .. value.len - 1
        PROVE  Values(env, OptVar(o) \o <<Digits[i]>>) = {Item(o, i)}
    <3>1. <<OptVar(o) \o <<Digits[i]>>, Item(o, i)>> \in env
      BY <1>7, VariablesThere, Zenon
    <3>2. ASSUME NEW pair \in env, pair[1] = OptVar(o) \o <<Digits[i]>>
          PROVE  pair = <<OptVar(o) \o <<Digits[i]>>, Item(o, i)>>
      <4>1. PICK j \in 0 .. value.len - 1 :
              Digits[i] = Digits[j] /\ pair = <<OptVar(o) \o <<Digits[i]>>, Item(o, j)>>
        <5>1. Digits[i] \in Suffixes /\ Digits[i] # "COUNT"
          BY <1>3, Zenon
        <5>2. \/ Digits[i] = "COUNT"
              \/ \E j \in 0 .. value.len - 1 :
                    Digits[i] = Digits[j] /\ pair = <<OptVar(o) \o <<Digits[i]>>, Item(o, j)>>
          BY <1>5, <3>2, <5>1, Zenon
        <5> QED BY <5>1, <5>2, Zenon
      <4>2. i = j
        BY <1>3, <4>1, EnvAssumption, Zenon
      <4> QED BY <4>1, <4>2, Zenon
    <3> QED BY <3>1, <3>2, OneValue, Zenon
  <2> QED BY <1>7, <2>1, <2>2, Zenon DEF ReadsAs
<1> QED BY <1>6, <1>7

\* A command can tell what it was called with: what compileEnvironment puts
\* under the names of arguments and options is what the request says, and the
\* dynamic configuration, the names of other options and the numbers of list
\* items do not get in its way, for any option names and lists of any length.
THEOREM RequestsReadable == RequestReadable
BY ArgumentsReadable, OptionsReadable, Zenon DEF RequestReadable

\* The same of every behaviour of Dispatch, as TLC checks it.
THEOREM CommandsAreInformed == Spec => []CommandsInformed
<1>1. CommandsInformed
  BY RequestsReadable DEF CommandsInformed
<1> QED BY <1>1, PTL

(***************************************************************************)
(* The settings Relay starts with.                                         *)
(***************************************************************************)
Engines == {"docker", "native"}
Names3 == {"docker", "native", "other"}

LEMMA ListTypes ==
    ASSUME NEW S, NEW list \in Lists(S)
    PROVE  /\ Len(list) \in Nat /\ DOMAIN list = 1 .. Len(list)
           /\ list \in [1 .. Len(list) -> S]
<1>1. PICK n \in 0 .. MaxList : list \in [1 .. n -> S]
  BY Zenon DEF Lists
<1>2. n \in Nat
  BY ListAssumption
<1>3. list \in Seq(S) /\ Len(list) = n
  BY <1>1, <1>2
<1> QED BY <1>1, <1>2, <1>3

LEMMA AddEngineTypes ==
    ASSUME NEW parsed \in Seq(Engines), NEW engine
    PROVE  addEngine(parsed, engine) \in Seq(Engines)
<1>1. CASE engine \in Engines
  <2>1. Append(parsed, engine) \in Seq(Engines)
    BY <1>1
  <2> QED BY <2>1, Zenon DEF addEngine
<1>2. CASE engine \notin Engines
  BY <1>2, Zenon DEF addEngine, Engines
<1> QED BY <1>1, <1>2

\* The loop of parseEngines.
LEMMA EnginesLoop ==
    ASSUME NEW names \in Lists(Names3)
    PROVE  \E f : /\ f[0] = <<>> /\ parseEngines(names) = f[Len(names)]
                  /\ \A i \in 1 .. Len(names) : f[i] = addEngine(f[i - 1], names[i])
<1> DEFINE n == Len(names)
           parsed[i \in 0 .. n] == IF i = 0 THEN <<>> ELSE addEngine(parsed[i - 1], names[i])
           step == [p \in Seq(Engines) \X Names3 |-> addEngine(p[1], p[2])]
<1>1. n \in Nat /\ names \in [1 .. n -> Names3]
  BY ListTypes, Zenon
<1>2. \E f : f = [i \in 0 .. n |-> IF i = 0 THEN <<>> ELSE addEngine(f[i - 1], names[i])]
  <2>1. step \in [Seq(Engines) \X Names3 -> Seq(Engines)]
    BY AddEngineTypes
  <2>2. <<>> \in Seq(Engines)
    OBVIOUS
  <2>3. PICK f \in [0 .. n -> Seq(Engines)] :
          f[0] = <<>> /\ \A i \in 1 .. n : f[i] = step[<<f[i - 1], names[i]>>]
    <3> DEFINE S == Seq(Engines)
               first == <<>>
    <3>1. IsLoop(S, Names3, step, first, n, names)
      BY <1>1, <2>1, <2>2, Zenon DEF IsLoop
    <3>2. PICK f : Takes(f, S, step, first, n, names)
      <4> HIDE DEF step, n, S, first
      <4> QED BY <3>1, Loop, Zenon
    <3> QED BY <3>2, Zenon DEF Takes
  <2>4. ASSUME NEW i \in 1 .. n PROVE f[i] = addEngine(f[i - 1], names[i])
    <3>1. f[i - 1] \in Seq(Engines) /\ names[i] \in Names3
      <4> HIDE DEF n
      <4> QED BY <1>1, <2>3, SMTT(30)
    <3> QED BY <2>3, <3>1, Zenon
  <2>5. f = [i \in 0 .. n |-> IF i = 0 THEN <<>> ELSE addEngine(f[i - 1], names[i])]
    <3> HIDE DEF n
    <3>1. ASSUME NEW i \in 0 .. n
          PROVE  f[i] = IF i = 0 THEN <<>> ELSE addEngine(f[i - 1], names[i])
      <4>1. i = 0 \/ i \in 1 .. n
        BY <1>1
      <4> QED BY <2>3, <2>4, <4>1, SMTT(30)
    <3> QED BY <2>3, <3>1
  <2> QED BY <2>5
<1>3. parsed = [i \in 0 .. n |-> IF i = 0 THEN <<>> ELSE addEngine(parsed[i - 1], names[i])]
  BY <1>2, Zenon
<1>4. parseEngines(names) = parsed[n]
  BY Zenon DEF parseEngines
<1> HIDE DEF parsed
<1>5. parsed[0] = <<>> /\ \A i \in 1 .. n : parsed[i] = addEngine(parsed[i - 1], names[i])
  <2> HIDE DEF n
  <2> QED BY <1>1, <1>3
<1> QED BY <1>4, <1>5

LEMMA RangeOfAppend ==
    ASSUME NEW S, NEW s \in Seq(S), NEW e \in S
    PROVE  Range(Append(s, e)) = Range(s) \cup {e}
<1> DEFINE t == Append(s, e)
<1>1. /\ Len(s) \in Nat /\ DOMAIN s = 1 .. Len(s) /\ DOMAIN t = 1 .. Len(s) + 1
      /\ t[Len(s) + 1] = e /\ \A i \in 1 .. Len(s) : t[i] = s[i]
  OBVIOUS
<1> HIDE DEF t
<1>2. \A i \in DOMAIN t : i \in DOMAIN s \/ i = Len(s) + 1
  BY <1>1
<1>3. DOMAIN s \subseteq DOMAIN t /\ Len(s) + 1 \in DOMAIN t
  BY <1>1
<1>4. Range(t) = Range(s) \cup {e}
  BY <1>1, <1>2, <1>3, Zenon DEF Range
<1> QED BY <1>4 DEF t

\* A round of it: what is valid and new is added.
LEMMA AddEngine ==
    ASSUME NEW parsed \in Seq(Engines), NEW engine \in Names3,
           IsFiniteSet(Range(parsed)), Len(parsed) = Cardinality(Range(parsed))
    PROVE  LET next == addEngine(parsed, engine)
           IN  /\ next \in Seq(Engines) /\ IsFiniteSet(Range(next))
               /\ Len(next) = Cardinality(Range(next))
               /\ Range(next) = Range(parsed) \cup ({engine} \ {"other"})
<1> DEFINE next == addEngine(parsed, engine)
<1>1. next \in Seq(Engines)
  BY AddEngineTypes
<1>2. CASE engine \in Engines /\ engine \notin Range(parsed)
  <2>1. next = Append(parsed, engine)
    BY <1>2, Zenon DEF addEngine, Engines
  <2>2. Len(next) = Len(parsed) + 1 /\ Len(parsed) \in Nat
    BY <1>2, <2>1
  <2>3. Range(next) = Range(parsed) \cup {engine}
    BY <1>2, <2>1, RangeOfAppend, SMTT(30)
  <2>4. /\ IsFiniteSet(Range(parsed) \cup {engine})
        /\ Cardinality(Range(parsed) \cup {engine}) = Cardinality(Range(parsed)) + 1
    BY <1>2, FS_AddElement, Zenon
  <2>5. engine # "other"
    BY <1>2 DEF Engines
  <2>6. Len(next) = Cardinality(Range(next))
    BY <2>2, <2>3, <2>4, Zenon
  <2> QED BY <1>1, <2>3, <2>4, <2>5, <2>6, Zenon
<1>3. CASE engine \notin Engines \/ engine \in Range(parsed)
  <2>1. next = parsed
    BY <1>3, Zenon DEF addEngine, Engines
  <2>2. Range(parsed) = Range(parsed) \cup ({engine} \ {"other"})
    BY <1>3 DEF Engines, Names3
  <2> QED BY <1>1, <2>1, <2>2, Zenon
<1> QED BY <1>2, <1>3

\* The engines, each once, are those of the list that are valid.
LEMMA EnginesParsed ==
    ASSUME NEW names \in Lists(Names3)
    PROVE  LET engines == parseEngines(names)
           IN  /\ engines \in Seq(Engines) /\ Len(engines) = Cardinality(Range(engines))
               /\ Range(engines) = Range(names) \ {"other"}
<1> DEFINE n == Len(names)
<1>1. PICK f : /\ f[0] = <<>> /\ parseEngines(names) = f[n]
               /\ \A i \in 1 .. n : f[i] = addEngine(f[i - 1], names[i])
  BY EnginesLoop, Zenon
<1>2. n \in Nat /\ DOMAIN names = 1 .. n /\ names \in [1 .. n -> Names3]
  BY ListTypes, Zenon
<1> DEFINE Before(i) == {names[j] : j \in 1 .. i}
           Good(i) == /\ f[i] \in Seq(Engines) /\ IsFiniteSet(Range(f[i]))
                      /\ Len(f[i]) = Cardinality(Range(f[i]))
                      /\ Range(f[i]) = Before(i) \ {"other"}
           S == {i \in 0 .. n : Good(i)}
<1>3. 0 \in S
  <2>1. <<>> \in Seq(Engines) /\ Len(<<>>) = 0 /\ Range(<<>>) = {}
    BY DEF Range
  <2>2. IsFiniteSet({}) /\ Cardinality({}) = 0
    BY FS_EmptySet, Zenon
  <2>3. Before(0) = {}
    OBVIOUS
  <2>4. 0 \in 0 .. n
    BY <1>2
  <2> QED BY <1>1, <2>1, <2>2, <2>3, <2>4, ZenonT(30)
<1>4. ASSUME NEW i \in 1 .. n, i - 1 \in S PROVE i \in S
  <2>1. Good(i - 1) /\ f[i] = addEngine(f[i - 1], names[i]) /\ names[i] \in Names3
    BY <1>1, <1>2, <1>4, Zenon
  <2>2. Before(i) = Before(i - 1) \cup {names[i]}
    <3>1. 1 .. i = (1 .. (i - 1)) \cup {i}
      BY <1>2
    <3> QED BY <3>1, Zenon
  <2>3. /\ f[i] \in Seq(Engines) /\ IsFiniteSet(Range(f[i]))
        /\ Len(f[i]) = Cardinality(Range(f[i]))
        /\ Range(f[i]) = Range(f[i - 1]) \cup ({names[i]} \ {"other"})
    <3> PICK parsed, engine : parsed = f[i - 1] /\ engine = names[i]
      OBVIOUS
    <3>1. /\ parsed \in Seq(Engines) /\ engine \in Names3
          /\ IsFiniteSet(Range(parsed)) /\ Len(parsed) = Cardinality(Range(parsed))
      BY <2>1, Zenon
    <3>2. LET next == addEngine(parsed, engine)
          IN  /\ next \in Seq(Engines) /\ IsFiniteSet(Range(next))
              /\ Len(next) = Cardinality(Range(next))
              /\ Range(next) = Range(parsed) \cup ({engine} \ {"other"})
      BY <3>1, AddEngine, Zenon
    <3> QED BY <2>1, <3>2, Zenon
  <2>4. Range(f[i]) = Before(i) \ {"other"}
    <3> HIDE DEF Before, n
    <3> QED BY <2>1, <2>2, <2>3, SMTT(30)
  <2>5. i \in 0 .. n
    BY <1>2
  <2> QED BY <2>3, <2>4, <2>5, Zenon
<1>5. Good(n)
  <2> HIDE DEF S, Good, n
  <2>1. \A i \in 0 .. n : i \in S
    BY <1>2, <1>3, <1>4, Rounds, Zenon
  <2>2. n \in S
    BY <1>2, <2>1
  <2> QED BY <2>2, Zenon DEF S
<1>6. Range(names) = Before(n)
  BY <1>2, Zenon DEF Range
<1> QED BY <1>1, <1>5, <1>6, Zenon

\* The configuration file is the first that can be read.
LEMMA FirstFile ==
    ASSUME NEW files \in Lists(FileStates)
    PROVE  LET raw == tryLoadingConfig(files)
           IN  \/ raw = "empty" /\ \A i \in DOMAIN files : files[i] \in {"missing", "unreadable"}
               \/ \E i \in DOMAIN files :
                     /\ raw = files[i] /\ files[i] \notin {"missing", "unreadable"}
                     /\ \A j \in DOMAIN files : j < i => files[j] \in {"missing", "unreadable"}
<1> DEFINE found == {i \in DOMAIN files : files[i] \notin {"missing", "unreadable"}}
<1>1. Len(files) \in Nat /\ DOMAIN files = 1 .. Len(files)
  BY ListTypes, Zenon
<1>2. CASE found = {}
  <2>1. tryLoadingConfig(files) = "empty"
    BY <1>2, Zenon DEF tryLoadingConfig
  <2> QED BY <1>2, <2>1, Zenon
<1>3. CASE found # {}
  <2>1. found \in SUBSET Nat
    BY <1>1
  <2>2. PICK x \in found : \A y \in found : x =< y
    <3> HIDE DEF found
    <3> QED BY <1>3, <2>1, Least
  <2>3. Min(found) \in found /\ \A y \in found : Min(found) =< y
    <3> HIDE DEF found
    <3> QED BY <2>2, Zenon DEF Min
  <2>4. tryLoadingConfig(files) = files[Min(found)]
    BY <1>3, Zenon DEF tryLoadingConfig
  <2>5. \A j \in DOMAIN files : j < Min(found) => j \notin found
    <3> HIDE DEF found
    <3>1. PICK m : m = Min(found)
      OBVIOUS
    <3>2. m \in Nat /\ \A y \in found : y \in Nat /\ m =< y
      BY <2>1, <2>3, <3>1, Zenon
    <3> QED BY <3>1, <3>2
  <2> QED BY <2>3, <2>4, <2>5, Zenon
<1> QED BY <1>2, <1>3

LEMMA FieldKinds ==
    ASSUME NEW field \in Fields
    PROVE  field.kind \in {"int", "bool", "string"}
<1>1. CASE field = [kind |-> "int", default |-> "16"]
  BY <1>1, Zenon
<1>2. CASE field = [kind |-> "bool", default |-> "true"]
  BY <1>2, Zenon
<1>3. CASE field = [kind |-> "bool", default |-> "false"]
  BY <1>3, Zenon
<1>4. CASE field = [kind |-> "string", default |-> "docker"]
  BY <1>4, Zenon
<1>5. CASE field = [kind |-> "string", default |-> ""]
  BY <1>5, Zenon
<1> QED BY <1>1, <1>2, <1>3, <1>4, <1>5, Zenon DEF Fields

LEMMA TwoItems ==
    ASSUME NEW a, NEW b
    PROVE  Append(<<a>>, b) = <<a, b>>
<1> DEFINE S == {a, b}
<1>1. PICK s, t : s = Append(<<a>>, b) /\ t = <<a, b>>
  BY Zenon
<1>2. <<a>> \in Seq(S) /\ Len(<<a>>) = 1
  OBVIOUS
<1>3. s \in Seq(S) /\ Len(s) = 2 /\ s[1] = a /\ s[2] = b
  BY <1>1, <1>2
<1>4. t \in Seq(S) /\ Len(t) = 2 /\ t[1] = a /\ t[2] = b
  BY <1>1
<1>5. \A i \in 1 .. 2 : i = 1 \/ i = 2
  OBVIOUS
<1>6. s = t
  BY <1>3, <1>4, <1>5, SameSequence, SMTT(30)
<1> QED BY <1>1, <1>6, Zenon

\* The environment has the last word, then the file, then the default.
LEMMA PrecedenceHolds == Precedence
<1> SUFFICES ASSUME NEW field \in Fields, NEW file \in FileValues(field), NEW env \in EnvValues(field),
                    env # "" \/ ~Overruled(field, file)
             PROVE  populate(field, file, env) =
                      CASE env = Junk /\ field.kind # "string" -> Panic
                        [] env # "" /\ (env = Junk => field.kind = "string") -> env
                        [] env = "" /\ file # NotThere -> file
                        [] OTHER -> IF field.default # "" THEN field.default ELSE Zero(field.kind)
  BY Zenon DEF Precedence
<1> DEFINE value == setDefaultValues(field, Unmarshal(field, file))
<1>1. CASE env = ""
  <2>1. populate(field, file, env) = value /\ ~Overruled(field, file)
    BY <1>1, Zenon DEF populate, setEnvVars
  <2>2. CASE file # NotThere
    <3>1. value = file
      BY <2>1, <2>2, Zenon DEF setDefaultValues, Unmarshal, Overruled
    <3> QED BY <1>1, <2>1, <2>2, <3>1, Zenon DEF Junk
  <2>3. CASE file = NotThere
    <3>1. value = IF field.default # "" THEN field.default ELSE Zero(field.kind)
      BY <2>3, Zenon DEF setDefaultValues, Unmarshal
    <3> QED BY <1>1, <2>1, <2>3, <3>1, Zenon DEF Junk
  <2> QED BY <2>2, <2>3, Zenon
<1>2. CASE env # "" /\ env = Junk /\ field.kind # "string"
  <2>1. env \notin Texts(field.kind)
    <3>1. field.kind \in {"int", "bool", "string"}
      BY FieldKinds, Zenon
    <3>2. CASE field.kind = "int"
      BY <1>2, <3>2 DEF Texts, Junk
    <3>3. CASE field.kind = "bool"
      BY <1>2, <3>3 DEF Texts, Junk
    <3> QED BY <1>2, <3>1, <3>2, <3>3, Zenon
  <2>2. populate(field, file, env) = Panic
    BY <1>2, <2>1, Zenon DEF populate, setEnvVars
  <2> QED BY <1>2, <2>2, Zenon
<1>3. CASE env # "" /\ ~(env = Junk /\ field.kind # "string")
  <2>1. field.kind # "string" => env \in Texts(field.kind)
    BY <1>3, Zenon DEF EnvValues
  <2>2. populate(field, file, env) = env
    BY <1>3, <2>1, Zenon DEF populate, setEnvVars
  <2> QED BY <1>3, <2>2, Zenon
<1> QED BY <1>1, <1>2, <1>3, Zenon

LEMMA StartIsComplete == StartsComplete
<1> SUFFICES ASSUME NEW files \in Lists(FileStates), NEW names \in Lists(Names3),
                    NEW managed \in BOOLEAN, NEW root \in {<<>>, <<"dir">>},
                    start(files, names, managed, root).running
             PROVE  LET relay == start(files, names, managed, root)
                    IN  /\ relay.engines # <<>>
                        /\ Len(relay.engines) = Cardinality(Range(relay.engines))
                        /\ Range(relay.engines) = Range(names) \ {"other"}
                        /\ managed => relay.root = <<"dir", "__managed__">>
                        /\ ~managed => relay.root = root
                        /\ \A i \in DOMAIN files : files[i] \in {"other version", "not YAML"} =>
                              \E j \in 1 .. i - 1 : files[j] \in {"empty", "good"}
  BY Zenon DEF StartsComplete, Names3
<1> DEFINE relay == start(files, names, managed, root)
           engines == parseEngines(names)
           verified == Verify(engines, managed, root)
<1>1. /\ relay.engines = engines /\ relay.root = verified.root /\ verified.ok
      /\ tryLoadingConfig(files) \in {"empty", "good"}
  BY Zenon DEF start
<1>2. engines # <<>> /\ verified.root = IF managed THEN Append(root, "__managed__") ELSE root
  <2> HIDE DEF engines
  <2> QED BY <1>1 DEF Verify
<1>3. managed => root = <<"dir">>
  <2> HIDE DEF engines
  <2> QED BY <1>1, <1>2 DEF Verify
<1>4. Append(<<"dir">>, "__managed__") = <<"dir", "__managed__">>
  BY TwoItems, Zenon
<1>5. ASSUME NEW i \in DOMAIN files, files[i] \in {"other version", "not YAML"}
      PROVE  \E j \in 1 .. i - 1 : files[j] \in {"empty", "good"}
  <2>1. DOMAIN files = 1 .. Len(files) /\ Len(files) \in Nat
    BY ListTypes, Zenon
  <2>2. PICK j \in DOMAIN files :
          /\ tryLoadingConfig(files) = files[j]
          /\ \A k \in DOMAIN files : k < j => files[k] \in {"missing", "unreadable"}
    BY <1>5, FirstFile, Zenon
  <2>3. ~(i < j) /\ i # j
    BY <1>1, <1>5, <2>2, Zenon
  <2>4. j \in 1 .. i - 1
    BY <2>1, <2>3
  <2> QED BY <1>1, <2>2, <2>4, Zenon
<1> HIDE DEF relay, engines, verified
<1>6. /\ relay.engines # <<>>
      /\ managed => relay.root = <<"dir", "__managed__">>
      /\ ~managed => relay.root = root
  BY <1>1, <1>2, <1>3, <1>4, Zenon
<1>7. Len(engines) = Cardinality(Range(engines)) /\ Range(engines) = Range(names) \ {"other"}
  BY EnginesParsed, Zenon DEF engines
<1>8. /\ Len(relay.engines) = Cardinality(Range(relay.engines))
      /\ Range(relay.engines) = Range(names) \ {"other"}
  BY <1>1, <1>7, Zenon
<1> QED BY <1>5, <1>6, <1>8, Zenon DEF relay

\* Relay starts with the settings that environment, file and defaults give it,
\* in this order, except where the file says 0, false or "" of a field whose
\* default is another value, and only with complete ones (populate,
\* parseEngines, tryLoadingConfig, Verify); for lists of engines and of
\* locations of any length.
THEOREM SettingsAsConfigured == Spec => []StartsAsConfigured
<1>1. StartsAsConfigured
  BY PrecedenceHolds, StartIsComplete DEF StartsAsConfigured
<1> QED BY <1>1, PTL

(***************************************************************************)
(* The response to a command's output.                                     *)
(***************************************************************************)
LEMMA OutputTypes ==
    ASSUME NEW out \in Outputs
    PROVE  /\ Len(out) \in Nat /\ DOMAIN out = 1 .. Len(out)
           /\ out \in [1 .. Len(out) -> Kinds]
<1>1. PICK n \in 0 .. MaxLines : out \in [1 .. n -> Kinds]
  BY Zenon DEF Outputs
<1>2. n \in Nat
  BY OutputAssumption
<1>3. out \in Seq(Kinds) /\ Len(out) = n
  BY <1>1, <1>2, SMTT(20)
<1> QED BY <1>1, <1>2, <1>3

\* What the lines can make of a response, and what Parse has when it has
\* read some of them.
Partial == [status : {"ok"}, message : {Empty}, template : Templates \cup {Empty},
            body : {<<>>}, isJSON : BOOLEAN, aborted : BOOLEAN]
Accs == [resp : Partial, retained : Seq(Kinds)]

LEMMA Matched ==
    ASSUME NEW resp \in Partial, NEW line \in Commanding
    PROVE  LET next == matcher(resp, line)
           IN  /\ next \in Partial
               /\ next.isJSON = (resp.isJSON \/ line = "JSON")
               /\ next.aborted = (resp.aborted \/ line = "abort")
               /\ next.template = IF line \in Templates THEN line ELSE resp.template
<1>1. CASE line = "abort"
  BY <1>1, Zenon DEF matcher, Partial, Templates
<1>2. CASE line = "template1"
  BY <1>2 DEF matcher, Partial, Templates
<1>3. CASE line = "template2"
  BY <1>3 DEF matcher, Partial, Templates
<1>4. CASE line = "JSON"
  BY <1>4, Zenon DEF matcher, Partial, Templates
<1>5. CASE line \in {"log", "action"}
  BY <1>5, Zenon DEF matcher, Partial, Templates
<1> QED BY <1>1, <1>2, <1>3, <1>4, <1>5, SMTT(20) DEF Commanding, Templates

\* A line read.
LEMMA LineParsed ==
    ASSUME NEW acc \in Accs, NEW line \in Kinds
    PROVE  LET next == parseLine(acc, line)
               read == ~acc.resp.isJSON
           IN  /\ next \in Accs
               /\ next.resp.isJSON = (acc.resp.isJSON \/ line = "JSON")
               /\ next.resp.aborted = (acc.resp.aborted \/ (read /\ line = "abort"))
               /\ next.resp.template = IF read /\ line \in Templates THEN line
                                       ELSE acc.resp.template
               /\ next.retained = IF read /\ line \in Commanding THEN acc.retained
                                  ELSE Append(acc.retained, line)
<1> DEFINE next == parseLine(acc, line)
<1>1. acc.resp \in Partial /\ acc.retained \in Seq(Kinds) /\ acc.resp.isJSON \in BOOLEAN
      /\ acc.resp.aborted \in BOOLEAN
  BY DEF Accs, Partial
<1>2. CASE ~acc.resp.isJSON /\ line \in Commanding
  <2>1. next = [acc EXCEPT !.resp = matcher(@, line)]
    BY <1>2, Zenon DEF parseLine, Matches
  <2>2. next.resp = matcher(acc.resp, line) /\ next.retained = acc.retained
    BY <2>1 DEF Accs
  <2>3. matcher(acc.resp, line) \in Partial
    BY <1>1, <1>2, Matched, Zenon
  <2>4. next \in Accs
    BY <2>1, <2>3 DEF Accs
  <2>5. /\ matcher(acc.resp, line).isJSON = (acc.resp.isJSON \/ line = "JSON")
        /\ matcher(acc.resp, line).aborted = (acc.resp.aborted \/ line = "abort")
        /\ matcher(acc.resp, line).template = IF line \in Templates THEN line
                                              ELSE acc.resp.template
    <3>1. PICK resp \in Partial : resp = acc.resp
      BY <1>1
    <3>2. line \in Commanding
      BY <1>2
    <3>3. LET after == matcher(resp, line)
          IN  /\ after.isJSON = (resp.isJSON \/ line = "JSON")
              /\ after.aborted = (resp.aborted \/ line = "abort")
              /\ after.template = IF line \in Templates THEN line ELSE resp.template
      BY <3>2, Matched
    <3> QED BY <3>1, <3>3, Zenon
  <2>6. line \in Templates => line \in Commanding
    BY Zenon DEF Commanding
  <2> QED BY <1>2, <2>2, <2>4, <2>5, <2>6, SMTT(20)
<1>3. CASE acc.resp.isJSON \/ line \notin Commanding
  <2>1. next = [acc EXCEPT !.retained = Append(@, line)]
    BY <1>3, Zenon DEF parseLine, Matches
  <2>2. next.resp = acc.resp /\ next.retained = Append(acc.retained, line)
    BY <2>1 DEF Accs
  <2>3. Append(acc.retained, line) \in Seq(Kinds)
    BY <1>1
  <2>4. next \in Accs
    BY <2>1, <2>3, Zenon DEF Accs
  <2>5. line \notin Commanding => line # "JSON" /\ line # "abort" /\ line \notin Templates
    BY Zenon DEF Commanding
  <2> QED BY <1>1, <1>3, <2>2, <2>4, <2>5, Zenon
<1> QED BY <1>2, <1>3

\* Positions up to the i-th.
Upto(P, i) == {j \in P : j <= i}

Grows(P, i) == /\ i \in P => Upto(P, i) = Upto(P, i - 1) \cup {i}
               /\ i \notin P => Upto(P, i) = Upto(P, i - 1)

LEMMA UptoGrows ==
    ASSUME NEW n \in Nat, NEW P \in SUBSET (1 .. n), NEW i \in 1 .. n
    PROVE  Grows(P, i)
<1>1. i <= i /\ \A j \in P : j <= i <=> (j <= i - 1 \/ j = i)
  OBVIOUS
<1>2. i \in P => Upto(P, i) = Upto(P, i - 1) \cup {i}
  BY <1>1, Zenon DEF Upto
<1>3. i \notin P => Upto(P, i) = Upto(P, i - 1)
  BY <1>1, Zenon DEF Upto
<1> QED BY <1>2, <1>3, Zenon DEF Grows

LEMMA UptoStep ==
    ASSUME NEW n \in Nat, NEW P \in SUBSET (1 .. n), NEW i \in 1 .. n
    PROVE  /\ IsFiniteSet(Upto(P, i - 1)) /\ Cardinality(Upto(P, i - 1)) \in Nat
           /\ i \in P => Cardinality(Upto(P, i)) = Cardinality(Upto(P, i - 1)) + 1
<1>1. IsFiniteSet(1 .. n)
  BY FS_Interval
<1>2. Upto(P, i - 1) \in SUBSET (1 .. n)
  BY Zenon DEF Upto
<1>3. IsFiniteSet(Upto(P, i - 1))
  BY <1>1, <1>2, FS_Subset, Zenon
<1>4. Cardinality(Upto(P, i - 1)) \in Nat
  BY <1>3, FS_CardinalityType, Zenon
<1>5. i \notin Upto(P, i - 1)
  BY DEF Upto
<1>6. Cardinality(Upto(P, i - 1) \cup {i}) = Cardinality(Upto(P, i - 1)) + 1
  BY <1>3, <1>5, FS_AddElement, Zenon
<1>7. i \in P => Upto(P, i) = Upto(P, i - 1) \cup {i}
  <2>1. Grows(P, i)
    BY UptoGrows, Zenon
  <2> QED BY <2>1, Zenon DEF Grows
<1> QED BY <1>3, <1>4, <1>6, <1>7, Zenon

\* The lines at the positions up to the i-th, in their order.
Ranked(lines, out, P, i) ==
    /\ Len(lines) = Cardinality(Upto(P, i))
    /\ \A j \in Upto(P, i) : lines[Cardinality(Upto(P, j))] = out[j]

LEMMA RankedStep ==
    ASSUME NEW n \in Nat, NEW P \in SUBSET (1 .. n), NEW i \in 1 .. n, NEW out,
           NEW lines \in Seq(Kinds), NEW line \in Kinds, line = out[i],
           Ranked(lines, out, P, i - 1)
    PROVE  Ranked(IF i \in P THEN Append(lines, line) ELSE lines, out, P, i)
<1>1. CASE i \notin P
  <2>1. Upto(P, i) = Upto(P, i - 1)
    <3>1. Grows(P, i)
      BY UptoGrows, Zenon
    <3> QED BY <1>1, <3>1, Zenon DEF Grows
  <2> QED BY <1>1, <2>1, Zenon DEF Ranked
<1>2. CASE i \in P
  <2> DEFINE count == Cardinality(Upto(P, i - 1))
             longer == Append(lines, line)
  <2>1. /\ Upto(P, i) = Upto(P, i - 1) \cup {i} /\ Cardinality(Upto(P, i)) = count + 1
        /\ count \in Nat /\ IsFiniteSet(Upto(P, i - 1))
    <3>1. Upto(P, i) = Upto(P, i - 1) \cup {i}
      <4>1. Grows(P, i)
        BY UptoGrows, Zenon
      <4> QED BY <1>2, <4>1, Zenon DEF Grows
    <3>2. Cardinality(Upto(P, i)) = count + 1
      BY <1>2, UptoStep, ZenonT(30)
    <3>3. count \in Nat /\ IsFiniteSet(Upto(P, i - 1))
      BY UptoStep, Zenon
    <3> QED BY <3>1, <3>2, <3>3, Zenon
  <2>2. Len(lines) = count
    BY Zenon DEF Ranked
  <2>3. /\ Len(longer) = count + 1 /\ longer[count + 1] = line
        /\ \A k \in 1 .. count : longer[k] = lines[k]
    <3> HIDE DEF count
    <3> QED BY <2>1, <2>2, SMTT(20)
  <2>4. ASSUME NEW j \in Upto(P, i - 1)
        PROVE  Cardinality(Upto(P, j)) \in 1 .. count
    <3>1. j \in P /\ j \in 1 .. n /\ j <= i - 1
      BY Zenon DEF Upto
    <3>2. Cardinality(Upto(P, j)) = Cardinality(Upto(P, j - 1)) + 1
          /\ Cardinality(Upto(P, j - 1)) \in Nat
      BY <3>1, UptoStep, ZenonT(30)
    <3>3. Upto(P, j) \in SUBSET Upto(P, i - 1)
      <4>1. \A k \in P : k <= j => k <= i - 1
        BY <3>1
      <4> QED BY <4>1, Zenon DEF Upto
    <3>4. Cardinality(Upto(P, j)) <= count
      BY <2>1, <3>3, FS_Subset, Zenon
    <3> HIDE DEF count
    <3> QED BY <2>1, <3>2, <3>4, SMTT(20)
  <2>5. ASSUME NEW j \in Upto(P, i) PROVE longer[Cardinality(Upto(P, j))] = out[j]
    <3>1. CASE j = i
      BY <2>1, <2>3, <3>1, Zenon
    <3>2. CASE j \in Upto(P, i - 1)
      <4>1. lines[Cardinality(Upto(P, j))] = out[j]
        BY <3>2, Zenon DEF Ranked
      <4> QED BY <2>3, <2>4, <3>2, <4>1, Zenon
    <3> QED BY <2>1, <3>1, <3>2, Zenon
  <2> HIDE DEF longer
  <2>6. Ranked(longer, out, P, i)
    BY <2>1, <2>3, <2>5, Zenon DEF Ranked
  <2> QED BY <1>2, <2>6, Zenon DEF longer
<1> QED BY <1>1, <1>2

\* A line more for the decoder.
AllBlank(lines) == \A i \in DOMAIN lines : lines[i] = "blank"

LEMMA DecodeMore ==
    ASSUME NEW lines \in Seq(Kinds), NEW line \in Kinds
    PROVE  /\ Decodable(Append(lines, line)) <=>
                 (Decodable(lines) \/ (AllBlank(lines) /\ line = "value"))
           /\ AllBlank(Append(lines, line)) <=> (AllBlank(lines) /\ line = "blank")
<1> DEFINE longer == Append(lines, line)
           n == Len(lines)
<1>1. /\ n \in Nat /\ DOMAIN lines = 1 .. n /\ DOMAIN longer = 1 .. n + 1
      /\ longer[n + 1] = line /\ \A i \in 1 .. n : longer[i] = lines[i]
  OBVIOUS
<1> HIDE DEF longer, n
<1>2. AllBlank(longer) <=> (AllBlank(lines) /\ line = "blank")
  BY <1>1 DEF AllBlank
<1>3. ASSUME Decodable(lines) PROVE Decodable(longer)
  <2>1. PICK i \in 1 .. n : lines[i] = "value" /\ \A j \in 1 .. i - 1 : lines[j] = "blank"
    BY <1>1, <1>3, Zenon DEF Decodable
  <2>2. i \in 1 .. n + 1 /\ \A j \in 1 .. i - 1 : j \in 1 .. n
    BY <1>1
  <2> QED BY <1>1, <2>1, <2>2, Zenon DEF Decodable
<1>4. ASSUME AllBlank(lines), line = "value" PROVE Decodable(longer)
  <2>1. n + 1 \in 1 .. n + 1 /\ \A j \in 1 .. (n + 1) - 1 : j \in 1 .. n
    BY <1>1
  <2> QED BY <1>1, <1>4, <2>1, Zenon DEF Decodable, AllBlank
<1>5. ASSUME Decodable(longer) PROVE Decodable(lines) \/ (AllBlank(lines) /\ line = "value")
  <2>1. PICK i \in 1 .. n + 1 : longer[i] = "value" /\ \A j \in 1 .. i - 1 : longer[j] = "blank"
    BY <1>1, <1>5, Zenon DEF Decodable
  <2>2. CASE i = n + 1
    <3>1. \A j \in 1 .. n : j \in 1 .. i - 1
      BY <1>1, <2>2
    <3> QED BY <1>1, <2>1, <2>2, <3>1, ZenonT(30) DEF AllBlank
  <2>3. CASE i # n + 1
    <3>1. i \in 1 .. n /\ \A j \in 1 .. i - 1 : j \in 1 .. n
      BY <1>1, <2>3
    <3> QED BY <1>1, <2>1, <3>1, Zenon DEF Decodable
  <2> QED BY <2>2, <2>3
<1>6. Decodable(longer) <=> (Decodable(lines) \/ (AllBlank(lines) /\ line = "value"))
  BY <1>3, <1>4, <1>5
<1> QED BY <1>2, <1>6 DEF longer

\* The loop of Parse.
LEMMA LinesLoop ==
    ASSUME NEW out \in Outputs
    PROVE  \E f : /\ f \in [0 .. Len(out) -> Accs] /\ readLines(out) = f[Len(out)]
                  /\ f[0] = [resp |-> NoResponse, retained |-> <<>>]
                  /\ \A i \in 1 .. Len(out) : f[i] = parseLine(f[i - 1], out[i])
<1> DEFINE n == Len(out)
           first == [resp |-> NoResponse, retained |-> <<>>]
           acc[i \in 0 .. n] == IF i = 0 THEN first ELSE parseLine(acc[i - 1], out[i])
           step == [p \in Accs \X Kinds |-> parseLine(p[1], p[2])]
<1>1. n \in Nat /\ out \in [1 .. n -> Kinds]
  BY OutputTypes, Zenon
<1>2. first \in Accs
  <2>1. NoResponse \in Partial
    BY Zenon DEF NoResponse, Partial
  <2>2. <<>> \in Seq(Kinds)
    OBVIOUS
  <2> QED BY <2>1, <2>2, Zenon DEF Accs
<1>3. \A a \in Accs, line \in Kinds : parseLine(a, line) \in Accs
  BY LineParsed, Zenon
<1>4. step \in [Accs \X Kinds -> Accs]
  BY <1>3
<1>5. IsLoop(Accs, Kinds, step, first, n, out)
  BY <1>1, <1>2, <1>4, Zenon DEF IsLoop
<1>6. PICK f : Takes(f, Accs, step, first, n, out)
  <2> HIDE DEF step, n, first
  <2> QED BY <1>5, Loop, Zenon
<1>7. f \in [0 .. n -> Accs] /\ f[0] = first
  BY <1>6, Zenon DEF Takes
<1>8. ASSUME NEW i \in 1 .. n PROVE f[i] = parseLine(f[i - 1], out[i])
  <2>1. f[i] = step[<<f[i - 1], out[i]>>]
    BY <1>6, Zenon DEF Takes
  <2>2. f[i - 1] \in Accs /\ out[i] \in Kinds
    <3> HIDE DEF n
    <3> QED BY <1>1, <1>7, SMTT(20)
  <2> QED BY <2>1, <2>2, Zenon
<1>9. f = [i \in 0 .. n |-> IF i = 0 THEN first ELSE parseLine(f[i - 1], out[i])]
  <2> HIDE DEF n, first
  <2>1. ASSUME NEW i \in 0 .. n
        PROVE  f[i] = IF i = 0 THEN first ELSE parseLine(f[i - 1], out[i])
    <3>1. i = 0 \/ i \in 1 .. n
      BY <1>1
    <3> QED BY <1>7, <1>8, <3>1, SMTT(20)
  <2> QED BY <1>7, <2>1, SMTT(30)
<1>10. acc = [i \in 0 .. n |-> IF i = 0 THEN first ELSE parseLine(acc[i - 1], out[i])]
  BY <1>9, Zenon
<1>11. readLines(out) = acc[n]
  BY Zenon DEF readLines
<1> HIDE DEF acc
<1>12. acc[0] = first /\ \A i \in 1 .. n : acc[i] = parseLine(acc[i - 1], out[i])
  <2> HIDE DEF n, first
  <2> QED BY <1>1, <1>10
<1>13. \A i \in 0 .. n : acc[i] \in Accs
  <2> DEFINE S == {i \in 0 .. n : acc[i] \in Accs}
  <2>1. 0 \in S
    <3>1. 0 \in 0 .. n
      BY <1>1
    <3> QED BY <1>2, <1>12, <3>1, Zenon
  <2>2. ASSUME NEW i \in 1 .. n, i - 1 \in S PROVE i \in S
    <3>1. out[i] \in Kinds
      BY <1>1, Zenon
    <3>2. i \in 0 .. n
      BY <1>1
    <3>3. acc[i] = parseLine(acc[i - 1], out[i]) /\ acc[i - 1] \in Accs
      BY <1>12, <2>2, Zenon
    <3> QED BY <1>3, <3>1, <3>2, <3>3, Zenon
  <2>3. \A i \in 0 .. n : i \in S
    <3> HIDE DEF S, n
    <3> QED BY <1>1, <2>1, <2>2, Rounds, ZenonT(30)
  <2> QED BY <2>3, Zenon
<1>14. acc \in [0 .. n -> Accs]
  <2> HIDE DEF n
  <2> QED BY <1>10, <1>13
<1> QED BY <1>11, <1>12, <1>14, Zenon

\* Which line is what depends on whether the JSON mark was before it.
JSONBy(out, i) == \E j \in 1 .. i : out[j] = "JSON"

LEMMA Positions ==
    ASSUME NEW out \in Outputs, NEW i \in 1 .. Len(out)
    PROVE  /\ JSONBy(out, i) <=> (JSONBy(out, i - 1) \/ out[i] = "JSON")
           /\ i \in Lead(out) <=> (~JSONBy(out, i - 1) /\ out[i] # "JSON")
           /\ i \in Payload(out) <=> (JSONBy(out, i - 1) \/ out[i] \notin Commanding)
<1>1. Len(out) \in Nat /\ DOMAIN out = 1 .. Len(out)
  BY OutputTypes, Zenon
<1>2. i \in 1 .. i /\ \A j \in 1 .. i : j \in 1 .. i - 1 \/ j = i
  BY <1>1
<1>3. \A j \in 1 .. i - 1 : j \in 1 .. i
  BY <1>1
<1>4. JSONBy(out, i) <=> (JSONBy(out, i - 1) \/ out[i] = "JSON")
  BY <1>2, <1>3, Zenon DEF JSONBy
<1>5. i \in Lead(out) <=> ~JSONBy(out, i)
  BY <1>1, Zenon DEF Lead, JSONBy
<1>6. i \in Payload(out) <=> /\ i \in Lead(out) => out[i] \notin Commanding
                             /\ i \notin Lead(out) => JSONBy(out, i - 1)
  BY <1>1, Zenon DEF Payload, JSONBy
<1>7. out[i] = "JSON" => out[i] \in Commanding
  BY Zenon DEF Commanding
<1> QED BY <1>4, <1>5, <1>6, <1>7, ZenonT(30)

\* What Parse knows of the lines it has read.
LastTemplate(template, out, P) ==
    LET templates == {j \in P : out[j] \in Templates}
    IN  IF templates = {} THEN template = Empty
        ELSE \E k \in templates : template = out[k] /\ \A j \in templates : j <= k

ValueAt(out, P, k) == out[k] = "value" /\ \A j \in P : j < k => out[j] = "blank"

Knows(acc, out, i) ==
    /\ acc.resp.isJSON <=> JSONBy(out, i)
    /\ acc.resp.aborted <=> \E j \in Upto(Lead(out), i) : out[j] = "abort"
    /\ LastTemplate(acc.resp.template, out, Upto(Lead(out), i))
    /\ Ranked(acc.retained, out, Payload(out), i)
    /\ Decodable(acc.retained) <=> \E k \in Upto(Payload(out), i) : ValueAt(out, Payload(out), k)
    /\ AllBlank(acc.retained) <=> \A k \in Upto(Payload(out), i) : out[k] = "blank"

LEMMA KnowsAtFirst ==
    ASSUME NEW out \in Outputs
    PROVE  Knows([resp |-> NoResponse, retained |-> <<>>], out, 0)
<1> DEFINE acc == [resp |-> NoResponse, retained |-> <<>>]
<1>1. DOMAIN out = 1 .. Len(out) /\ Len(out) \in Nat
  BY OutputTypes, Zenon
<1>2. Lead(out) \subseteq 1 .. Len(out) /\ Payload(out) \subseteq 1 .. Len(out)
  BY <1>1, Zenon DEF Lead, Payload
<1>3. \A j \in 1 .. Len(out) : ~(j <= 0)
  BY <1>1
<1>4. Upto(Lead(out), 0) = {} /\ Upto(Payload(out), 0) = {}
  BY <1>2, <1>3, Zenon DEF Upto
<1>5. ~JSONBy(out, 0)
  <2>1. 1 .. 0 = {}
    OBVIOUS
  <2> QED BY <2>1, Zenon DEF JSONBy
<1>6. /\ acc.resp.isJSON = FALSE /\ acc.resp.aborted = FALSE /\ acc.resp.template = Empty
      /\ acc.retained = <<>>
  BY Zenon DEF NoResponse
<1>7. Len(<<>>) = 0 /\ DOMAIN <<>> = {}
  OBVIOUS
<1>8. Cardinality({}) = 0
  BY FS_EmptySet, Zenon
<1>9. ~Decodable(<<>>) /\ AllBlank(<<>>)
  BY <1>7, Zenon DEF Decodable, AllBlank
<1>10. Ranked(<<>>, out, Payload(out), 0)
  BY <1>4, <1>7, <1>8, Zenon DEF Ranked
<1>11. LastTemplate(Empty, out, {})
  BY Zenon DEF LastTemplate
<1> HIDE DEF acc
<1>12. Knows(acc, out, 0)
  BY <1>4, <1>5, <1>6, <1>9, <1>10, <1>11, ZenonT(30) DEF Knows
<1> QED BY <1>12, Zenon DEF acc

\* The last template, when another line has been read.
LEMMA TemplateStep ==
    ASSUME NEW n \in Nat, NEW P \in SUBSET (1 .. n), NEW i \in 1 .. n, NEW out, NEW template,
           LastTemplate(template, out, Upto(P, i - 1))
    PROVE  LastTemplate(IF i \in P /\ out[i] \in Templates THEN out[i] ELSE template,
                        out, Upto(P, i))
<1> DEFINE before == {j \in Upto(P, i - 1) : out[j] \in Templates}
           now == {j \in Upto(P, i) : out[j] \in Templates}
<1>1. CASE i \in P /\ out[i] \in Templates
  <2>1. Upto(P, i) = Upto(P, i - 1) \cup {i}
    <3>1. Grows(P, i)
      BY UptoGrows, Zenon
    <3> QED BY <1>1, <3>1, Zenon DEF Grows
  <2>2. \A j \in Upto(P, i) : j <= i
    BY Zenon DEF Upto
  <2>3. i \in now /\ \A j \in now : j <= i
    BY <1>1, <2>1, <2>2, ZenonT(30)
  <2> QED BY <1>1, <2>3, ZenonT(30) DEF LastTemplate
<1>2. CASE ~(i \in P /\ out[i] \in Templates)
  <2>1. now = before
    <3>1. CASE i \notin P
      <4>1. Upto(P, i) = Upto(P, i - 1)
        <5>1. Grows(P, i)
          BY UptoGrows, Zenon
        <5> QED BY <3>1, <5>1, Zenon DEF Grows
      <4> QED BY <4>1, Zenon
    <3>2. CASE i \in P
      <4>1. Upto(P, i) = Upto(P, i - 1) \cup {i}
        <5>1. Grows(P, i)
          BY UptoGrows, Zenon
        <5> QED BY <3>2, <5>1, Zenon DEF Grows
      <4> QED BY <1>2, <3>2, <4>1, Zenon
    <3> QED BY <3>1, <3>2
  <2> QED BY <1>2, <2>1, Zenon DEF LastTemplate
<1> QED BY <1>1, <1>2

LEMMA KnowsMore ==
    ASSUME NEW out \in Outputs, NEW i \in 1 .. Len(out), NEW acc \in Accs, Knows(acc, out, i - 1)
    PROVE  Knows(parseLine(acc, out[i]), out, i)
<1> DEFINE n == Len(out)
           next == parseLine(acc, out[i])
           line == out[i]
           P == Payload(out)
<1>1. n \in Nat /\ DOMAIN out = 1 .. n /\ line \in Kinds
  BY OutputTypes, Zenon
<1>2. Lead(out) \in SUBSET (1 .. n) /\ P \in SUBSET (1 .. n)
  BY <1>1, Zenon DEF Lead, Payload
<1>3. /\ JSONBy(out, i) <=> (JSONBy(out, i - 1) \/ line = "JSON")
      /\ i \in Lead(out) <=> (~JSONBy(out, i - 1) /\ line # "JSON")
      /\ i \in P <=> (JSONBy(out, i - 1) \/ line \notin Commanding)
  BY Positions, Zenon
<1>4. /\ next.resp.isJSON <=> (acc.resp.isJSON \/ line = "JSON")
      /\ next.resp.aborted <=> (acc.resp.aborted \/ (~acc.resp.isJSON /\ line = "abort"))
      /\ next.resp.template = IF ~acc.resp.isJSON /\ line \in Templates THEN line
                              ELSE acc.resp.template
      /\ next.retained = IF ~acc.resp.isJSON /\ line \in Commanding THEN acc.retained
                         ELSE Append(acc.retained, line)
  <2>1. PICK l \in Kinds : l = line
    BY <1>1, SMTT(20)
  <2>2. LET more == parseLine(acc, l)
        IN  /\ more.resp.isJSON = (acc.resp.isJSON \/ l = "JSON")
            /\ more.resp.aborted = (acc.resp.aborted \/ (~acc.resp.isJSON /\ l = "abort"))
            /\ more.resp.template = IF ~acc.resp.isJSON /\ l \in Templates THEN l
                                    ELSE acc.resp.template
            /\ more.retained = IF ~acc.resp.isJSON /\ l \in Commanding THEN acc.retained
                               ELSE Append(acc.retained, l)
    BY LineParsed
  <2> QED BY <2>1, <2>2, Zenon
<1>5. /\ acc.resp.isJSON <=> JSONBy(out, i - 1)
      /\ acc.resp.aborted <=> \E j \in Upto(Lead(out), i - 1) : out[j] = "abort"
      /\ LastTemplate(acc.resp.template, out, Upto(Lead(out), i - 1))
      /\ Ranked(acc.retained, out, P, i - 1)
      /\ Decodable(acc.retained) <=> \E k \in Upto(P, i - 1) : ValueAt(out, P, k)
      /\ AllBlank(acc.retained) <=> \A k \in Upto(P, i - 1) : out[k] = "blank"
  BY Zenon DEF Knows
<1>6. "JSON" # "abort" /\ "JSON" \notin Templates
  BY DEF Templates
<1>7. acc.retained \in Seq(Kinds)
  BY SMTT(20) DEF Accs
<1> HIDE DEF next, P, line, n
<1>8. /\ i \in Lead(out) => Upto(Lead(out), i) = Upto(Lead(out), i - 1) \cup {i}
      /\ i \notin Lead(out) => Upto(Lead(out), i) = Upto(Lead(out), i - 1)
      /\ i \in P => Upto(P, i) = Upto(P, i - 1) \cup {i}
      /\ i \notin P => Upto(P, i) = Upto(P, i - 1)
  <2>1. n \in Nat /\ i \in 1 .. n
    BY <1>1, Zenon DEF n
  <2>2. Grows(Lead(out), i) /\ Grows(P, i)
    BY <1>2, <2>1, UptoGrows, Zenon
  <2> QED BY <2>2, Zenon DEF Grows
<1>9. next.resp.isJSON <=> JSONBy(out, i)
  BY <1>3, <1>4, <1>5, ZenonT(30)
<1>10. next.resp.aborted <=> \E j \in Upto(Lead(out), i) : out[j] = "abort"
  <2>1. ~acc.resp.isJSON /\ line = "abort" <=> i \in Lead(out) /\ line = "abort"
    BY <1>3, <1>5, <1>6, Zenon
  <2>2. CASE i \in Lead(out)
    BY <1>4, <1>5, <1>8, <2>1, <2>2, ZenonT(30) DEF line
  <2>3. CASE i \notin Lead(out)
    BY <1>4, <1>5, <1>8, <2>1, <2>3, ZenonT(30)
  <2> QED BY <2>2, <2>3
<1>11. LastTemplate(next.resp.template, out, Upto(Lead(out), i))
  <2>1. ~acc.resp.isJSON /\ line \in Templates <=> i \in Lead(out) /\ line \in Templates
    BY <1>3, <1>5, <1>6, Zenon
  <2>2. LastTemplate(IF i \in Lead(out) /\ out[i] \in Templates THEN out[i] ELSE acc.resp.template,
                     out, Upto(Lead(out), i))
    BY <1>1, <1>2, <1>5, TemplateStep, ZenonT(30) DEF n
  <2>3. next.resp.template =
          IF i \in Lead(out) /\ out[i] \in Templates THEN out[i] ELSE acc.resp.template
    BY <1>4, <2>1, Zenon DEF line
  <2> QED BY <2>2, <2>3, Zenon
<1>12. next.retained = IF i \in P THEN Append(acc.retained, line) ELSE acc.retained
  BY <1>3, <1>4, <1>5, Zenon
<1>13. Ranked(next.retained, out, P, i)
  <2>1. Ranked(IF i \in P THEN Append(acc.retained, line) ELSE acc.retained, out, P, i)
    <3>1. n \in Nat /\ i \in 1 .. n /\ line = out[i]
      BY <1>1, SMTT(20) DEF n, line
    <3> QED BY <1>1, <1>2, <1>5, <1>7, <3>1, RankedStep, SMTT(20)
  <2> QED BY <1>12, <2>1, ZenonT(30)
<1>14. /\ Decodable(next.retained) <=> \E k \in Upto(P, i) : ValueAt(out, P, k)
       /\ AllBlank(next.retained) <=> \A k \in Upto(P, i) : out[k] = "blank"
  <2>1. CASE i \notin P
    BY <1>5, <1>8, <1>12, <2>1, ZenonT(30)
  <2>2. CASE i \in P
    <3>1. /\ Decodable(next.retained) <=>
                (Decodable(acc.retained) \/ (AllBlank(acc.retained) /\ line = "value"))
          /\ AllBlank(next.retained) <=> (AllBlank(acc.retained) /\ line = "blank")
      <4>1. next.retained = Append(acc.retained, line)
        BY <1>12, <2>2, Zenon
      <4>2. PICK lines \in Seq(Kinds) : lines = acc.retained
        BY <1>7
      <4>3. /\ Decodable(Append(lines, line)) <=>
                 (Decodable(lines) \/ (AllBlank(lines) /\ line = "value"))
            /\ AllBlank(Append(lines, line)) <=> (AllBlank(lines) /\ line = "blank")
        BY <1>1, DecodeMore, Zenon
      <4> QED BY <4>1, <4>2, <4>3, Zenon
    <3>2. \A j \in P : j < i <=> j \in Upto(P, i - 1)
      BY <1>1, <1>2 DEF Upto
    <3>3. ValueAt(out, P, i) <=> (AllBlank(acc.retained) /\ line = "value")
      <4>1. Upto(P, i - 1) \subseteq P
        BY Zenon DEF Upto
      <4> QED BY <1>5, <3>2, <4>1, Zenon DEF ValueAt, line
    <3>4. Upto(P, i) = Upto(P, i - 1) \cup {i}
      BY <1>8, <2>2, Zenon
    <3>5. Decodable(next.retained) <=> \E k \in Upto(P, i) : ValueAt(out, P, k)
      BY <1>5, <3>1, <3>3, <3>4, Zenon
    <3>6. AllBlank(next.retained) <=> \A k \in Upto(P, i) : out[k] = "blank"
      BY <1>5, <3>1, <3>4, Zenon DEF line
    <3> QED BY <3>5, <3>6
  <2> QED BY <2>1, <2>2
<1>15. Knows(next, out, i)
  BY <1>9, <1>10, <1>11, <1>13, <1>14, ZenonT(30) DEF Knows, P
<1> QED BY <1>15, Zenon DEF next, line

\* When all are read.
LEMMA LinesRead ==
    ASSUME NEW out \in Outputs
    PROVE  LET acc == readLines(out)
           IN  /\ acc \in Accs
               /\ acc.resp.isJSON <=> IsJSON(out)
               /\ acc.resp.aborted <=> Aborts(out)
               /\ LastTemplate(acc.resp.template, out, Lead(out))
               /\ InOrder(acc.retained, out, Payload(out))
               /\ Decodable(acc.retained) <=> GoodJSON(out)
<1> DEFINE n == Len(out)
<1>1. n \in Nat /\ DOMAIN out = 1 .. n
  BY OutputTypes, Zenon
<1>2. PICK f : /\ f \in [0 .. n -> Accs] /\ readLines(out) = f[n]
               /\ f[0] = [resp |-> NoResponse, retained |-> <<>>]
               /\ \A i \in 1 .. n : f[i] = parseLine(f[i - 1], out[i])
  BY LinesLoop, Zenon
<1> DEFINE S == {i \in 0 .. n : Knows(f[i], out, i)}
<1>3. 0 \in S
  <2>1. 0 \in 0 .. n
    BY <1>1
  <2> QED BY <1>2, <2>1, KnowsAtFirst, Zenon
<1>4. ASSUME NEW i \in 1 .. n, i - 1 \in S PROVE i \in S
  <2>1. i \in 0 .. n /\ i - 1 \in 0 .. n
    BY <1>1, SMTT(30)
  <2>2. f[i - 1] \in Accs
    BY <1>2, <2>1, Zenon
  <2>3. Knows(parseLine(f[i - 1], out[i]), out, i)
    BY <1>4, <2>2, KnowsMore, ZenonT(30)
  <2> QED BY <1>2, <2>1, <2>3, Zenon
<1>5. n \in 0 .. n
  BY <1>1
<1>6. Knows(f[n], out, n) /\ f[n] \in Accs
  <2>1. \A i \in 0 .. n : i \in S
    <3> HIDE DEF S, n
    <3> QED BY <1>1, <1>3, <1>4, Rounds, ZenonT(30)
  <2> QED BY <1>2, <1>5, <2>1, Zenon
<1>7. Upto(Lead(out), n) = Lead(out) /\ Upto(Payload(out), n) = Payload(out)
  <2>1. \A j \in DOMAIN out : j <= n
    BY <1>1
  <2>2. Lead(out) \subseteq DOMAIN out /\ Payload(out) \subseteq DOMAIN out
    BY Zenon DEF Lead, Payload
  <2> QED BY <2>1, <2>2, Zenon DEF Upto
<1>8. JSONBy(out, n) <=> IsJSON(out)
  <2>1. ASSUME NEW j \in 1 .. n, out[j] = "JSON" PROVE IsJSON(out)
    <3>1. j \in 1 .. j
      BY <1>1, SMTT(30)
    <3>2. j \notin Lead(out)
      BY <2>1, <3>1, Zenon DEF Lead
    <3> QED BY <1>1, <3>2, Zenon DEF IsJSON
  <2>2. ASSUME IsJSON(out) PROVE \E j \in 1 .. n : out[j] = "JSON"
    <3>1. PICK i \in DOMAIN out : i \notin Lead(out)
      BY <2>2, Zenon DEF IsJSON, Lead
    <3>2. PICK j \in 1 .. i : out[j] = "JSON"
      BY <3>1, Zenon DEF Lead
    <3>3. j \in 1 .. n
      BY <1>1, <3>1, <3>2, SMTT(20)
    <3> QED BY <3>2, <3>3, Zenon
  <2> QED BY <2>1, <2>2, Zenon DEF JSONBy
<1>9. InOrder(f[n].retained, out, Payload(out))
  BY <1>6, <1>7, Zenon DEF Knows, Ranked, InOrder, Upto
<1>10. Decodable(f[n].retained) <=> GoodJSON(out)
  BY <1>6, <1>7, Zenon DEF Knows, GoodJSON, ValueAt
<1>11. f[n].resp.aborted <=> Aborts(out)
  BY <1>6, <1>7, Zenon DEF Knows, Aborts
<1>12. (f[n].resp.isJSON <=> IsJSON(out)) /\ LastTemplate(f[n].resp.template, out, Lead(out))
  BY <1>6, <1>7, <1>8, ZenonT(30) DEF Knows
<1> QED BY <1>2, <1>6, <1>9, <1>10, <1>11, <1>12, ZenonT(30)

\* What Parse makes of what it has read.
LEMMA FailedResponse ==
    ASSUME NEW resp \in Partial, NEW message
    PROVE  LET failed == Failed(resp, message)
           IN  /\ failed.status = "error" /\ failed.template = resp.template
               /\ failed.body = <<>> /\ failed.aborted = resp.aborted
<1>1. /\ DOMAIN resp = {"status", "message", "template", "body", "isJSON", "aborted"}
      /\ resp.body = <<>>
  BY DEF Partial
<1>2. PICK failed : failed = Failed(resp, message)
  OBVIOUS
<1>3. /\ failed.status = "error" /\ failed.template = resp.template
      /\ failed.body = resp.body /\ failed.aborted = resp.aborted
  BY <1>1, <1>2, ZenonT(30) DEF Failed
<1> QED BY <1>1, <1>2, <1>3, ZenonT(30)

LEMMA Concluded ==
    ASSUME NEW out \in Outputs, NEW success \in BOOLEAN, NEW err \in BOOLEAN
    PROVE  LET resp == Parse(out, success, err)
               acc == readLines(out)
               bad == acc.resp.isJSON /\ ~Decodable(acc.retained)
           IN  /\ resp.status = IF err \/ ~success \/ bad THEN "error"
                                ELSE IF acc.resp.aborted THEN "abort" ELSE "ok"
               /\ resp.template = IF err THEN Empty ELSE acc.resp.template
               /\ resp.body = IF err \/ ~success \/ bad THEN <<>>
                              ELSE IF acc.resp.isJSON THEN <<"value">> ELSE acc.retained
<1> DEFINE resp == Parse(out, success, err)
<1>1. PICK acc \in Accs : acc = readLines(out)
  BY LinesRead, Zenon
<1> DEFINE full == setBody(acc.resp, acc.retained)
           bad == acc.resp.isJSON /\ ~Decodable(acc.retained)
<1>2. acc.resp \in Partial /\ acc.resp.isJSON \in BOOLEAN /\ acc.resp.aborted \in BOOLEAN
      /\ acc.resp.status = "ok" /\ acc.resp.body = <<>>
  BY DEF Accs, Partial
<1>3. CASE err
  <2>1. resp = Failed(NoResponse, "err")
    BY <1>3 DEF Parse
  <2>2. NoResponse \in Partial /\ NoResponse.template = Empty
    BY Zenon DEF NoResponse, Partial
  <2>3. resp.status = "error" /\ resp.template = Empty /\ resp.body = <<>>
    <3> HIDE DEF resp
    <3> QED BY <2>1, <2>2, FailedResponse, ZenonT(30)
  <2> QED BY <1>1, <1>3, <2>3, Zenon
<1>4. CASE ~err /\ ~success
  <2>1. resp = Failed(acc.resp, "stderr")
    BY <1>1, <1>4 DEF Parse
  <2>2. resp.status = "error" /\ resp.template = acc.resp.template /\ resp.body = <<>>
    <3> HIDE DEF resp
    <3> QED BY <1>2, <2>1, FailedResponse, ZenonT(30)
  <2> QED BY <1>1, <1>4, <2>2, ZenonT(30)
<1>5. CASE ~err /\ success
  <2>1. resp = IF full.status = "ok" /\ full.aborted THEN [full EXCEPT !.status = "abort"] ELSE full
    BY <1>1, <1>5, SMTT(20) DEF Parse
  <2>2. CASE bad
    <3>1. full = Failed(acc.resp, "Command returned invalid JSON.")
      BY <2>2, Zenon DEF setBody
    <3>2. full.status = "error" /\ full.template = acc.resp.template /\ full.body = <<>>
      <4> HIDE DEF full
      <4> QED BY <1>2, <3>1, FailedResponse, Zenon
    <3>3. resp = full
      <4> HIDE DEF full
      <4> QED BY <2>1, <3>2
    <3> QED BY <1>1, <1>5, <2>2, <3>2, <3>3, ZenonT(30)
  <2>3. CASE ~bad
    <3> DEFINE body == IF acc.resp.isJSON THEN <<"value">> ELSE acc.retained
    <3>1. full = [acc.resp EXCEPT !.body = body]
      BY <2>3, Zenon DEF setBody
    <3> HIDE DEF body
    <3>2. PICK r \in Partial : r = acc.resp
      BY <1>2
    <3>3. full = [r EXCEPT !.body = body]
      BY <3>1, <3>2, Zenon
    <3> HIDE DEF full
    <3>4. /\ full.status = "ok" /\ full.aborted = r.aborted /\ full.template = r.template
          /\ full.body = body
      BY <3>3 DEF Partial
    <3>5. /\ [full EXCEPT !.status = "abort"].status = "abort"
          /\ [full EXCEPT !.status = "abort"].template = r.template
          /\ [full EXCEPT !.status = "abort"].body = body
      BY <3>3, SMTT(20) DEF Partial
    <3>6. /\ resp.status = IF r.aborted THEN "abort" ELSE "ok"
          /\ resp.template = r.template /\ resp.body = body
      <4> HIDE DEF resp
      <4>1. CASE r.aborted
        <5>1. resp = [full EXCEPT !.status = "abort"]
          BY <2>1, <3>4, <4>1, Zenon
        <5> QED BY <3>5, <4>1, <5>1, Zenon
      <4>2. CASE ~r.aborted
        <5>1. resp = full
          BY <2>1, <3>4, <4>2, Zenon
        <5> QED BY <3>4, <4>2, <5>1, Zenon
      <4> QED BY <4>1, <4>2, Zenon
    <3> QED BY <1>1, <1>5, <2>3, <3>2, <3>6, ZenonT(30) DEF body
  <2> QED BY <2>2, <2>3, Zenon
<1> QED BY <1>3, <1>4, <1>5, Zenon

LEMMA MeaningHolds == OutputMeaning
<1> SUFFICES ASSUME NEW out \in Outputs, NEW success \in BOOLEAN, NEW err \in BOOLEAN
             PROVE  LET resp == Parse(out, success, err)
                        templates == {i \in Lead(out) : out[i] \in Templates}
                    IN  /\ (resp.status = "error") <=> Fails(out, success, err)
                        /\ (resp.status = "abort") <=> (~Fails(out, success, err) /\ Aborts(out))
                        /\ IF err \/ templates = {} THEN resp.template = Empty
                           ELSE \E i \in templates : /\ resp.template = out[i]
                                                     /\ \A j \in templates : j <= i
                        /\ Fails(out, success, err) => resp.body = <<>>
                        /\ ~Fails(out, success, err) /\ IsJSON(out) => resp.body = <<"value">>
                        /\ ~Fails(out, success, err) /\ ~IsJSON(out) =>
                              InOrder(resp.body, out, Payload(out))
  BY Zenon DEF OutputMeaning
<1>1. PICK resp, acc : resp = Parse(out, success, err) /\ acc = readLines(out)
  BY Zenon
<1>2. /\ acc.resp.isJSON <=> IsJSON(out)
      /\ acc.resp.aborted <=> Aborts(out)
      /\ LastTemplate(acc.resp.template, out, Lead(out))
      /\ InOrder(acc.retained, out, Payload(out))
      /\ Decodable(acc.retained) <=> GoodJSON(out)
  BY <1>1, LinesRead, Zenon
<1>3. Fails(out, success, err) <=> err \/ ~success \/ (acc.resp.isJSON /\ ~Decodable(acc.retained))
  BY <1>2, Zenon DEF Fails
<1>4. /\ resp.status = IF Fails(out, success, err) THEN "error"
                       ELSE IF acc.resp.aborted THEN "abort" ELSE "ok"
      /\ resp.template = IF err THEN Empty ELSE acc.resp.template
      /\ resp.body = IF Fails(out, success, err) THEN <<>>
                     ELSE IF acc.resp.isJSON THEN <<"value">> ELSE acc.retained
  <2>1. LET bad == acc.resp.isJSON /\ ~Decodable(acc.retained)
        IN  /\ resp.status = IF err \/ ~success \/ bad THEN "error"
                             ELSE IF acc.resp.aborted THEN "abort" ELSE "ok"
            /\ resp.template = IF err THEN Empty ELSE acc.resp.template
            /\ resp.body = IF err \/ ~success \/ bad THEN <<>>
                           ELSE IF acc.resp.isJSON THEN <<"value">> ELSE acc.retained
    BY <1>1, Concluded, ZenonT(30)
  <2> QED BY <1>3, <2>1, Zenon
<1>5. "error" # "abort" /\ "error" # "ok" /\ "abort" # "ok"
  OBVIOUS
<1>6. /\ (resp.status = "error") <=> Fails(out, success, err)
      /\ (resp.status = "abort") <=> (~Fails(out, success, err) /\ Aborts(out))
  BY <1>2, <1>4, <1>5, Zenon
<1>7. LET templates == {i \in Lead(out) : out[i] \in Templates}
      IN  IF err \/ templates = {} THEN resp.template = Empty
          ELSE \E i \in templates : /\ resp.template = out[i]
                                    /\ \A j \in templates : j <= i
  BY <1>2, <1>4, Zenon DEF LastTemplate
<1>8. /\ Fails(out, success, err) => resp.body = <<>>
      /\ ~Fails(out, success, err) /\ IsJSON(out) => resp.body = <<"value">>
      /\ ~Fails(out, success, err) /\ ~IsJSON(out) => InOrder(resp.body, out, Payload(out))
  BY <1>2, <1>4, ZenonT(30)
<1> QED BY <1>1, <1>6, <1>7, <1>8, Zenon

\* A response means what the command's output says: it is an error, an abort
\* or a success as the lines and the exit of the command say, has the last
\* template before the JSON mark, and has as its body the JSON value or the
\* lines that say nothing to Relay (OutputParserV1.Parse); for outputs of any
\* number of lines.
THEOREM ResponsesMeanOutput == Spec => []ResponsesMeant
<1>1. ResponsesMeant
  BY MeaningHolds DEF ResponsesMeant
<1> QED BY <1>1, PTL
=============================================================================
