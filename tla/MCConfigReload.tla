--------------------------- MODULE MCConfigReload ---------------------------
\* ConfigReload with interchangeable reload goroutines and a few contents.
EXTENDS ConfigReload, TLC

ReloadSymmetry == Permutations(Reloads)

Unset == [s \in Settings |-> 0]
Weighted(w) == <<[name |-> "a", addressed |-> TRUE, weight |-> w, enabled |-> TRUE],
                 [name |-> "b", addressed |-> TRUE, weight |-> 1, enabled |-> FALSE]>>
RuleOf(type, pattern) == [type |-> type, action |-> "known", pattern |-> pattern]
Final == RuleOf("FINAL", "none")

\* The defaults; an interval no longer than the default timeout; a weight below zero;
\* a text that is no YAML; rules of its own, and a database.
Plain == [readable |-> TRUE, nodes |-> Weighted(0), set |-> Unset, level |-> TRUE,
          routing |-> "file", rules |-> <<>>, database |-> FALSE]
HastyProbes == [Plain EXCEPT !.set.interval = 5]
Backward == [Plain EXCEPT !.nodes = Weighted(-1)]
Unreadable == [Plain EXCEPT !.readable = FALSE]
Inline == [Plain EXCEPT !.routing = "inline", !.database = TRUE,
                        !.rules = <<RuleOf("GEOIP", "text"), Final>>]
SomeMains == {Plain, HastyProbes, Backward, Unreadable, Inline}

\* A rule that start-up would refuse; one that needs a database; an end in the middle;
\* no rules; a text that is no YAML.
Lists == {<<RuleOf("IP-CIDR", "text"), Final>>, <<RuleOf("GEOIP", "text"), Final>>,
          <<Final, RuleOf("DOMAIN", "text")>>, <<>>}
SomeRules == [readable : {TRUE}, rules : Lists, database : {FALSE}]
               \cup {[readable |-> FALSE, rules |-> <<>>, database |-> FALSE]}

\* Enough of them for longer histories of edits.
FewMains == {Plain, Inline, Backward}
FewRules == {file \in SomeRules : ~file.readable \/ file.rules \in
               {<<RuleOf("IP-CIDR", "text"), Final>>, <<Final, RuleOf("DOMAIN", "text")>>}}
=============================================================================
