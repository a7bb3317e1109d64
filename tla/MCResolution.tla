---------------------------- MODULE MCResolution ----------------------------
(* Small instances of Resolution for TLC: three levels, every kind of      *)
(* target, and at each level a file with an opinion about the rule, about  *)
(* maxDiagnostics, about ignoring, or none.                                *)
EXTENDS Resolution

Plain(kind) ==
    [kind |-> kind, rule |-> "none", options |-> FALSE, max |-> FALSE, ignore |-> <<>>]

RuleConfigs ==
    {[Plain("valid") EXCEPT !.rule = r, !.options = o, !.max = m] :
        r \in Severities \ {"warning"}, o \in BOOLEAN, m \in BOOLEAN}

Globs == {{0}, {1}, {0, 1, 2}}

IgnoreConfigs ==
    {[Plain("valid") EXCEPT !.ignore = s] :
        s \in {<<[negate |-> n, depths |-> g]>> : n \in BOOLEAN, g \in Globs}
            \cup {<<[negate |-> n, depths |-> {0, 1, 2}], [negate |-> ~n, depths |-> {1}]>> :
                     n \in BOOLEAN}}

SmallConfigs ==
    {Plain(k) : k \in {"absent", "unreadable", "broken", "valid"}} \cup RuleConfigs \cup IgnoreConfigs

Invocation(p, k, l) == [project |-> p, kind |-> k, level |-> l]

SmallInvocations ==
    {Invocation(NoLevel, k, 2) : k \in {"file", "dir", "dir/"}}
        \cup {Invocation(NoLevel, "dir", 0), Invocation(1, "none", 0), Invocation(1, "file", 2)}

(* For the run that looks for one counterexample.                          *)
TinyConfigs == {Plain("absent"), Plain("valid")}
=============================================================================
