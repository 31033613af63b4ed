----------------------------- MODULE MCToolServers -----------------------------
(***************************************************************************)
(* The small sets of inputs and answers that the servers are checked with. *)
(***************************************************************************)
EXTENDS ToolServers, FiniteSetsExt

\* What the tools can be given does not depend on what they are given here.
Policy == INSTANCE EndpointPolicy
Reads == INSTANCE TwitterReads WITH Inputs <- {}

Texts == {<<"">>, <<"BTC">>, <<"BTC", "USD">>}

CheckedPairs ==
  [is : {"string"}, text : Texts]
  \cup [is : {"array"}, items : {<<<<"BTC">>, <<"USD">>>>, <<<<"">>, <<"USD">>>>, <<<<"BTC">>>>}]
  \cup [is : {"number"}]
CheckedQuotes == {<<"">>, <<"USD">>}
CheckedStatuses ==
  {200, 304, 400, 401, 402, 403, 404, 408, 409, 418, 422, 429, 500, 502, 503, 504}
CheckedErrorTypes == {"not_found", "faucet_limit_exceeded", "internal_server_error", "teapot"}

Var(x) == [is |-> "var", id |-> x]
Str(n) == [is |-> "str", size |-> n]
Num(k) == [is |-> "int", n |-> k]
Op(o, l, r) == [is |-> "binop", op |-> o, left |-> l, right |-> r]
Filter(f, e, a) == [is |-> "filter", name |-> f, expr |-> e, args |-> a]

Leaves == {Var("x"), Var("y"), Str(1)}
Flat ==
  {Op(o, l, r) : o \in {"~", "+", "-"}, l \in Leaves, r \in Leaves}
  \cup {Op("*", l, r) : l \in Leaves \cup {Num(3)}, r \in Leaves \cup {Num(0), Num(3)}}
  \cup {Filter(f, e, <<>>) : f \in {"upper", "trim", "length", "tojson", "default", "join"}, e \in Leaves}
  \cup {Filter("default", e, <<d>>) : e \in Leaves, d \in Leaves}
  \cup {Filter("replace", e, <<Str(1), d>>) : e \in Leaves, d \in Leaves}
Exprs ==
  Leaves \cup Flat \cup {Num(0), Num(3), [is |-> "other"]}
  \cup {Filter(f, e, <<>>) : f \in {"upper", "trim"}, e \in Flat}
  \cup {Filter("trim", Filter("trim", e, <<>>), <<>>) : e \in Leaves}
  \cup {Op("*", e, Num(3)) : e \in Flat}
  \cup {Filter("trim", Filter("trim", e, <<>>), <<>>) : e \in Flat}
  \cup {Filter("trim", Filter("trim", Filter("trim", e, <<>>), <<>>), <<>>) : e \in Leaves \cup Flat}
  \cup {Filter(f, Var("x"), <<Op("*", Filter("default", Var("y"), <<e>>), Num(3))>>) :
           f \in {"default", "trim"}, e \in Leaves}
CheckedExpressions == Exprs

Data == [is |-> "data", size |-> 5]
Braces(e) == [is |-> "expression", expr |-> e, size |-> 6]

CheckedNames == {"x", "y", "z"}
CheckedArgSizes == {0, 7}
CheckedTemplates ==
  {<<Braces(e)>> : e \in Exprs}
  \cup {<<Data, Braces(d), Braces(e)>> : d \in Leaves, e \in Leaves}
  \cup {<<Braces(Var("x")), Braces(Var("x")), Braces(Var("x"))>>,
        <<Data, [is |-> "comment", size |-> 7], Data>>,
        <<Data, [is |-> "unsupported", size |-> 4]>>,
        <<Data, Data, Data, Data, Data>>}

CheckedSleeps == {0, 5000, 10000, 60000, 60001}
CheckedPayloads == {0, 61000, 61288}
CheckedRates == {-1, 0, 1, 500, 1000, 1001}

\* The addresses at the edges of the reserved blocks and their neighbours outside,
\* in every form, and the same of native v6.
Before(a) ==
  LET i == Max({j \in DOMAIN a : a[j] > 0}) IN
  [j \in DOMAIN a |-> IF j < i THEN a[j] ELSE IF j = i THEN a[j] - 1 ELSE 255]
After(a) ==
  LET i == Max({j \in DOMAIN a : a[j] < 255}) IN
  [j \in DOMAIN a |-> IF j < i THEN a[j] ELSE IF j = i THEN a[j] + 1 ELSE 0]
Edges ==
  UNION {{b[1], b[2]} : b \in Policy!Reserved}
  \cup {Before(b[1]) : b \in {c \in Policy!Reserved : c[1] # <<0, 0, 0, 0>>}}
  \cup {After(b[2]) : b \in {c \in Policy!Reserved : c[2] # <<255, 255, 255, 255>>}}
Word(a, i) == 256 * a[i] + a[i + 1]
Forms(a) ==
  {<<0, 0, 0, 0, 0, m, Word(a, 1), Word(a, 3)>> : m \in {0, 65535}}
  \cup {<<8194, Word(a, 1), Word(a, 3), 0, 0, 0, 0, 1>>,
        <<100, 65435, 0, 0, 0, 0, Word(a, 1), Word(a, 3)>>}
Native ==
  {<<a, b, 0, 0, 0, 0, 0, 1>> :
     a \in {0, 100, 8191, 8192, 8193, 8195, 16382, 16383, 16384, 65152},
     b \in {0, 511, 512, 3511, 3512, 3513, 4095, 4096}}
V4(a) == [v |-> 4, n |-> a]
V6(a) == [v |-> 6, n |-> a]
Literals == {V4(a) : a \in Edges} \cup {V6(a) : a \in UNION {Forms(e) : e \in Edges} \cup Native}
HostNames == {<<"aggregator", "org">>, <<"metadata">>, <<"metadata", "internal">>, <<"cafe", "local">>}
Https(h) == [scheme |-> "https", parts |-> {}, host |-> h]
Name(labels) == [is |-> "name", name |-> labels]
Literal(ip) == [is |-> "ip", ip |-> ip]
Public == V4(<<1, 1, 1, 1>>)

CheckedUrls ==
  {Https(Literal(ip)) : ip \in Literals} \cup {Https(Name(n)) : n \in HostNames}
  \cup {[Https(h) EXCEPT !.scheme = "http"] : h \in {Name(<<"aggregator", "org">>), Literal(Public)}}
  \cup {[Https(Literal(Public)) EXCEPT !.parts = {p}] : p \in {"user", "password", "query", "fragment"}}
CheckedAddress ==
  {Public, V4(<<10, 0, 0, 1>>), V6(<<8193, 512, 0, 0, 0, 0, 0, 1>>),
   V6(<<8194, 2560, 1, 0, 0, 0, 0, 1>>)}
CheckedBytes == {"noise", "odd", "good"}
CheckedJson == {"odd", "good"}
CheckedConforming == {"good"}

Link(user, h, path) ==
  [blank |-> FALSE, parses |-> TRUE, user |-> user, host |-> h, path |-> path]
CloudRun == {<<"run", "app">>, <<"svc", "run", "app">>}
Other == {<<"own", "org">>, <<"run", "app", "org">>, <<"svcrun", "app">>, <<"svc", "run", "app", "">>}

CheckedPublisherUrls ==
  {Link(<<>>, h, <<>>) : h \in CloudRun \cup Other}
  \cup {Link(<<"svc", "run", "app">>, h, <<>>) : h \in Other}
  \cup {Link(<<>>, h, <<"", "run", "app">>) : h \in Other}
  \cup {[Link(<<>>, <<>>, <<>>) EXCEPT !.blank = b, !.parses = FALSE] : b \in BOOLEAN}
CheckedRedirectHosts == CloudRun \cup Other

(***************************************************************************)
(* The reads of social-twitter: each option alone and all of them, values  *)
(* at the bounds of the checks, and every expansion with and without the   *)
(* fields of users and polls.                                              *)
(***************************************************************************)
ValuesOf(o) ==
  CASE o = "max_results" -> {0, 1, 9, 10, 100, 101}
    [] o \in {"start_time", "end_time"} -> {"rfc3339", "other"}
    [] o \in {"next_token", "pagination_token"} -> {[skips |-> 0, length |-> n] : n \in {15, 16}}
    [] OTHER -> {"some"}
UsualOf(t, o) ==
  CASE o \in Reads!Lists -> Reads!Choices(t, o)
    [] o = "max_results" -> 10
    [] o \in {"start_time", "end_time"} -> "rfc3339"
    [] o \in {"next_token", "pagination_token"} -> [skips |-> 0, length |-> 16]
    [] OTHER -> "some"

NoOptions == [o \in {} |-> {}]
Alone(t, o) ==
  {[p \in {o} |-> v] :
     v \in IF o \in Reads!Lists
           THEN {{}} \cup {{n} : n \in Reads!Choices(t, o)} ELSE ValuesOf(o)}
Expanding(t) ==
  {[o \in {"expansions"} \cup u.has \cup p.has |->
      CASE o = "expansions" -> {e} [] o = "user_fields" -> u.names [] OTHER -> p.names] :
     e \in Reads!Choices(t, "expansions"),
     u \in {[has |-> {}, names |-> {}]} \cup
           {[has |-> {"user_fields"}, names |-> n] : n \in {{"name"}, {"protected"}}},
     p \in {[has |-> {}, names |-> {}]} \cup
           IF "poll_fields" \notin Reads!Options(t) THEN {}
           ELSE {[has |-> {"poll_fields"}, names |-> n] :
                   n \in {{"end_datetime"},
                          {"duration_minutes", "end_datetime", "voting_status"}}}}
Givens(t) ==
  {NoOptions, [o \in Reads!Options(t) |-> UsualOf(t, o)]}
  \cup UNION {Alone(t, o) : o \in Reads!Options(t)}
  \cup IF {"expansions", "user_fields"} \subseteq Reads!Options(t) THEN Expanding(t) ELSE {}

CheckedInputs == UNION {{[tool |-> t, given |-> g] : g \in Givens(t)} : t \in ReadTools}

=============================================================================
