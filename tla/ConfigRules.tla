----------------------------- MODULE ConfigRules -----------------------------
(***************************************************************************)
(* What a configuration says and which ones Load accepts: the merge of the *)
(* rules file (internal/config/loader.go), SetDefaults and Validate        *)
(* (types.go), and the check of rules that only start-up makes             *)
(* (internal/router/router.go).                                            *)
(*                                                                         *)
(* Numbers are kept, since zero, negative ones and their order matter.  Of *)
(* a text it matters only whether it is empty or well-formed, and of names *)
(* whether they are equal.                                                 *)
(***************************************************************************)
EXTENDS Integers, Sequences

\* The numeric settings and what SetDefaults puts for zero.
Default == [timeout |-> 30, maxConcurrent |-> 20, maxIdle |-> 10, maxActive |-> 100,
            interval |-> 30, probeTimeout |-> 5, failureThreshold |-> 3, maxSize |-> 100]
Settings == DOMAIN Default
DefaultWeight == 10

RuleTypes == {"DOMAIN", "DOMAIN-SUFFIX", "IP-CIDR", "GEOIP", "FINAL"}
Patterns == {"none", "text", "CIDR"}
Rule == [type : RuleTypes \cup {"unknown"}, action : {"known", "unknown"}, pattern : Patterns]

\* `addressed` stands for server, port and password, `level` for a known log level.
Node == [name : STRING, addressed : BOOLEAN, weight : Int, enabled : BOOLEAN]
Config == [readable : BOOLEAN, nodes : Seq(Node), set : [Settings -> Int], level : BOOLEAN,
           routing : {"absent", "inline", "file"}, rules : Seq(Rule), database : BOOLEAN]
RulesFile == [readable : BOOLEAN, rules : Seq(Rule), database : BOOLEAN]

----------------------------------------------------------------------------
\* The rules of the file take the place of those in the main file; its database
\* is second to that of the main file.
Merged(cfg, file) ==
    CASE cfg.routing = "file"   -> [cfg EXCEPT !.rules = file.rules,
                                               !.database = @ \/ file.database]
      [] cfg.routing = "inline" -> cfg
      [] OTHER                  -> [cfg EXCEPT !.rules = <<>>]

WithDefault(node) == IF node.weight = 0 THEN [node EXCEPT !.weight = DefaultWeight] ELSE node
SetDefaults(cfg) ==
    [cfg EXCEPT !.nodes = [i \in DOMAIN cfg.nodes |-> WithDefault(cfg.nodes[i])],
                !.set = [s \in Settings |-> IF cfg.set[s] = 0 THEN Default[s] ELSE cfg.set[s]]]

NodesValid(nodes) ==
    /\ \A i \in DOMAIN nodes :
        /\ nodes[i].name # "" /\ nodes[i].addressed /\ nodes[i].weight > 0
        /\ \A j \in DOMAIN nodes : nodes[j].name = nodes[i].name => i = j
    /\ \E i \in DOMAIN nodes : nodes[i].enabled

\* A list of rules that only has to have a FINAL somewhere (a mutant).
Bug_RulesValid(rules, database) ==
    /\ \A i \in DOMAIN rules :
        /\ rules[i].type \in RuleTypes /\ rules[i].action = "known"
        /\ rules[i].type # "FINAL" => rules[i].pattern # "none"
        /\ rules[i].type = "GEOIP" => database
    /\ \E i \in DOMAIN rules : rules[i].type = "FINAL"

\* validateRoutingRules
RulesValid(rules, database) ==
    /\ \A i \in DOMAIN rules :
        /\ rules[i].type \in RuleTypes /\ rules[i].action = "known"
        /\ rules[i].type # "FINAL" => rules[i].pattern # "none"
        /\ rules[i].type = "FINAL" => i = Len(rules)
        /\ rules[i].type = "GEOIP" => database
    /\ \E i \in DOMAIN rules : rules[i].type = "FINAL"

\* The two limits of the pools are not looked at.
SettingsValid(set) ==
    /\ \A s \in Settings \ {"maxIdle", "maxActive"} : set[s] > 0
    /\ set.probeTimeout < set.interval

Validate(cfg) ==
    /\ NodesValid(cfg.nodes)
    /\ cfg.rules # <<>> => RulesValid(cfg.rules, cfg.database)
    /\ SettingsValid(cfg.set)
    /\ cfg.level

\* Load, once both files have been read.
Loaded(cfg, file) == SetDefaults(Merged(cfg, file))

\* router.ValidateRules, which start-up calls for a list that is not empty.
ValidateRules(rules) ==
    \A i \in DOMAIN rules :
        /\ rules[i].type \in RuleTypes /\ rules[i].action = "known"
        /\ rules[i].type = "FINAL" <=> i = Len(rules)
        /\ rules[i].type # "FINAL" => rules[i].pattern # "none"
        /\ rules[i].type = "IP-CIDR" => rules[i].pattern = "CIDR"
=============================================================================
