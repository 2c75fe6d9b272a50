----------------------------- MODULE MCTranslation -----------------------------
(* Small instances of Translation for TLC. *)
EXTENDS Translation, TLC

CONSTANTS e1, e2, t1, t2, dns, w1, w2, w3, a1, a2, seg, other

Select(t, g) == [target |-> t, group |-> g]

\* Nothing, one target without a group, a whole group, half of it, the other group,
\* both groups.
Configs == {<<>>, <<Select(t1, NoGroup)>>, <<Select(t1, w1), Select(t2, w2)>>,
            <<Select(t2, w2)>>, <<Select(t1, w3)>>, <<Select(t1, w1), Select(t2, w2), Select(t1, w3)>>}

RouteAs(n) ==
    [name : {n}, inbound : {<<>>, <<seg>>}, envs : {<<>>, <<e1>>, <<e2, e1>>}, config : Configs,
     timeout : {1500}]

Overridden == {<<>>, a1 :> (w1 :> 100), a1 :> (w1 :> 50 @@ w2 :> 50) @@ a2 :> (w2 :> 100)}

FirstGroups == [weights : {w1 :> 70 @@ w2 :> 30}, overrides : Overridden]
SecondGroups == [weights : {w3 :> 100, w1 :> 100}, overrides : {<<>>, a2 :> (w3 :> 100)}]

Groups == {<<>>} \cup {<<g>> : g \in FirstGroups}
          \cup {<<g, h>> : g \in FirstGroups, h \in SecondGroups}

Timed(n) ==
    [name : {n}, inbound : {<<seg>>}, envs : {<<e1>>}, config : {<<>>, <<Select(t1, NoGroup)>>},
     timeout : {0, 1, 2, 800, 1200, 2000, 3000000}]

\* The timeouts vary, or everything else does.
SmallConfigs ==
    [envs : {<<e1>>}, routes : {<<r, s>> : r \in Timed("r1"), s \in Timed("r2")},
     targets : {<<>>, t1 :> NoDNS}, groups : {<<>>, <<[weights |-> w3 :> 100, overrides |-> <<>>]>>}]
    \cup
    [envs : {<<e1>>, <<e1, e2>>},
     routes : {<<>>} \cup {<<r>> : r \in RouteAs("r1")} \cup {<<r, s>> : r \in RouteAs("r1"), s \in RouteAs("r2")},
     targets : {<<>>, t1 :> NoDNS @@ t2 :> dns},
     groups : Groups]

\* One route, which is in one of two environments or in both.
TwoEnvironments ==
    [envs : {<<e1, e2>>},
     routes : {<<r>> : r \in [name : {"r1"}, inbound : {<<>>, <<seg>>}, envs : {<<e1>>, <<e2>>, <<e1, e2>>},
                              config : {<<>>}, timeout : {1500}]},
     targets : {<<>>}, groups : {<<>>}]

SmallPaths == {<<>>, <<seg>>, <<seg, other>>, <<other>>}

-----------------------------------------------------------------------------

Quota(name, path, methods, headers, max, period) ==
    [name |-> name, path |-> path, methods |-> methods, headers |-> headers, max |-> max,
     period |-> period]

Read == Quota(<<"q">>, <<seg, "*">>, {}, {}, 3, "1s")
Header(value, condition) == [name |-> "h", value |-> value, condition |-> condition]

Write == Quota(<<"q", Colon, "q">>, <<".*">>, {<<"post", "mixed">>}, {Header(<<"y">>, "suffix")}, 5, "1m")
Deep == Quota(<<"g", "q">>, <<"*", other>>, {<<"get", "lower">>},
              {Header(<<"x">>, "prefix"), Header(<<"y">>, "contains")}, 2, "1s")
Negative == Quota(<<"n">>, <<seg>>, {<<"get", "upper">>, <<"post", "upper">>}, {}, 0 - 1, "1h")
Bad == Quota(<<"b">>, <<"*">>, {}, {}, 4, Unparsable)
Exact == Quota(<<"e">>, <<"*">>, {}, {Header(<<"x", "y">>, "exact")}, 7, "1s")
Regex == Quota(<<"r">>, <<"*">>, {}, {Header(<<".*", "x">>, "regex")}, 6, "1s")
Misspelt == Quota(<<"m">>, <<"*">>, {}, {Header(<<"x">>, "Prefix")}, 1, "1s")
Dotted == Quota(<<"d">>, <<seg, ".">>, {}, {}, 3, "1s")

\* The dot is also any other word.
SmallOperators == {"."}
SmallUnescaped == {<<<<seg, ".">>, <<seg, ".">>>>, <<<<seg, ".">>, <<seg, other>>>>}

QuotaLists == {<<Read>>, <<Read, Write>>, <<Write, Deep>>, <<Deep, Read, Bad>>, <<Negative, Read>>,
               <<Exact, Regex>>, <<Misspelt>>, <<Dotted, Read>>}
Names == {<<"g">>, <<"g", "g">>, <<"g", Colon, "q">>}
Apps == {<<<<"a">>>>, <<<<"a">>, <<"b", Colon, "a">>>>, <<<<>>, <<"a">>>>}

TotalGroups ==
    [name : Names, envs : {{e1, e2}}, quotas : QuotaLists]
    \cup [name : {<<"g">>}, envs : {{e2}}, quotas : {<<Read>>}]
AppGroups == [name : Names, envs : {{e1}}, apps : Apps, quotas : QuotaLists]

SmallWords == {"q", "g", "n", "b", "e", "r", "m", "d", "a", Colon}

\* One group of each kind, two of one kind, or none.
SmallQuotaGroups ==
    [total : {<<>>} \cup {<<g>> : g \in TotalGroups}, app : {<<g>> : g \in AppGroups}]
    \cup [total : {<<g, h>> : g, h \in TotalGroups}, app : {<<>>}]
    \cup [total : {<<>>}, app : {<<g, h>> : g, h \in {k \in AppGroups : Len(k.apps) = 1}}]

SmallCalls ==
    [method : {<<"get", "upper">>, <<"post", "upper">>},
     headers : [path : SmallPaths \cup {<<seg, ".">>}, client : {<<"a">>, <<"b", Colon, "a">>, <<"c">>},
                h : {<<>>, <<"x", "y">>, <<"y", "x">>, <<"x", "y", "x">>}]]

SmallWorkloads ==
    {[app |-> "app", ports |-> <<"8080">>], [app |-> "green", ports |-> <<"8443", "8080">>],
     [app |-> NoLabel, ports |-> <<>>]}

Plain == [total |-> <<>>, app |-> <<>>]
AllQuotaGroups == SmallQuotaGroups \cup {Plain}
Deployed == [app |-> "app", ports |-> <<"8080">>]
AnyConfig == [envs |-> <<e1>>, routes |-> <<[name |-> "r1", inbound |-> <<>>, envs |-> <<e1>>,
              config |-> <<>>, timeout |-> 1500]>>, targets |-> <<>>, groups |-> <<>>]

\* The rules, the quotas or the workloads vary.
MCInit ==
    /\ \/ quotaGroup \in {Plain, NoQuotaGroup} /\ tc = AnyConfig
       \/ quotaGroup \in SmallQuotaGroups /\ tc = AnyConfig
          /\ deployment = Deployed /\ rollout = NoWorkload /\ left = 0
       \/ quotaGroup = Plain /\ deployment = NoWorkload /\ rollout = NoWorkload /\ left = 0
    /\ BothInit

MCSpec == MCInit /\ [][BothNext]_<<vars, ruleVars>>
=============================================================================
