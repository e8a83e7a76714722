---------------------------- MODULE ConfigReload ----------------------------
(***************************************************************************)
(* Hot reload: the configuration file and its rules file, the fsnotify     *)
(* events of their directory, the debounced Watcher                        *)
(* (internal/config/watcher.go), Load (loader.go) and the onChange         *)
(* callback of main (cmd/proxy/main.go) that hands the new configuration   *)
(* to the selector, the health checker and the router, one after the       *)
(* other.                                                                  *)
(*                                                                         *)
(* A file is the sequence of its contents: its last element is what a read *)
(* returns, and a version is an index.  What a content says and whether    *)
(* Load accepts it is in ConfigRules.                                      *)
(***************************************************************************)
EXTENDS ConfigRules

CONSTANTS
    MainContents,   \* what may be in config.yaml
    RulesContents,  \* what may be in the rules file
    Reloads,    \* goroutines of time.AfterFunc: how many reloads may overlap
    MaxEdits,   \* bound: edits of the two files
    MaxEvents   \* bound: events fsnotify has not delivered

ASSUME MaxEditsAssumption == MaxEdits \in Nat
ASSUME ContentsAssumption == MainContents \subseteq Config /\ RulesContents \subseteq RulesFile

VARIABLES
    mainFile,   \* contents of config.yaml
    rulesFile,  \* contents of the file of routing.rules_file
    events,     \* Watcher.watcher.Events
    timer,      \* debounceTimer
    stopped,    \* Watcher.stopCh is closed
    reloader,   \* the reload goroutines
    selector,   \* version of the nodes the selector has
    checker,    \* version of the nodes the health checker has
    router      \* versions of the files its rules are from, NoRouter without one

vars == <<mainFile, rulesFile, events, timer, stopped, reloader, selector, checker, router>>
files == <<mainFile, rulesFile>>
watcher == <<events, timer, stopped>>
applied == <<selector, checker, router>>

Ops == {"write", "create", "other"}
NotRead == 0
Versions == 1..MaxEdits + 1
Sources == [main : Versions, rules : Versions \cup {NotRead}]
NoRouter == [main |-> NotRead, rules |-> NotRead]

Steps == {"idle", "readMain", "readRules", "selector", "checker", "router"}
\* `alone' records of a reload that no other one was under way since it began.
Reloading == [pc : Steps, main : Versions \cup {NotRead}, rules : Versions \cup {NotRead},
              alone : BOOLEAN]
NoReload == [pc |-> "idle", main |-> NotRead, rules |-> NotRead, alone |-> FALSE]

TypeOK ==
    /\ mainFile \in Seq(MainContents) /\ Len(mainFile) \in Versions
    /\ rulesFile \in Seq(RulesContents) /\ Len(rulesFile) \in Versions
    /\ events \in Seq([file : {"main", "rules"}, op : Ops])
    /\ timer \in {"off", "armed"}
    /\ stopped \in BOOLEAN
    /\ reloader \in [Reloads -> Reloading]
    /\ selector \in 1..Len(mainFile) /\ checker \in 1..Len(mainFile)
    /\ router \in Sources \cup {NoRouter}
    /\ router.main <= Len(mainFile) /\ router.rules <= Len(rulesFile)

\* The configuration that Load makes of version m of the main file and, if that one
\* names a rules file, version r of it; the merge reads nothing of it otherwise.
NoFile == [readable |-> TRUE, rules |-> <<>>, database |-> FALSE]
Loads(m, r) == Loaded(mainFile[m], IF r = NotRead THEN NoFile ELSE rulesFile[r])
NamesFile(m) == mainFile[m].routing = "file"
RulesFrom(v) == Loads(v.main, v.rules).rules

\* main has started: Load accepted the files, and so did router.ValidateRules.
Init ==
    /\ \E content \in MainContents : content.readable /\ mainFile = <<content>>
    /\ \E content \in RulesContents :
        (mainFile[1].routing = "file" => content.readable) /\ rulesFile = <<content>>
    /\ LET used == [main |-> 1, rules |-> IF NamesFile(1) THEN 1 ELSE NotRead]
       IN  /\ Validate(Loads(used.main, used.rules))
           /\ ValidateRules(RulesFrom(used))
           /\ router = IF RulesFrom(used) = <<>> THEN NoRouter ELSE used
    /\ events = <<>>
    /\ timer = "off"
    /\ stopped = FALSE
    /\ reloader = [g \in Reloads |-> NoReload]
    /\ selector = 1
    /\ checker = 1

----------------------------------------------------------------------------
(* The administrator *)

Notify(file, op) ==
    /\ Len(events) < MaxEvents
    /\ events' = Append(events, [file |-> file, op |-> op])

MoreEdits == Len(mainFile) + Len(rulesFile) < MaxEdits + 2

\* A write in place, or a new file renamed over the old one; any other event is that of
\* a file moved away or made readable, or of a link that leads elsewhere.  A slow
\* writer shows as several versions, and a file saved as it was as one more.
EditMain(content, op) ==
    /\ MoreEdits
    /\ mainFile' = Append(mainFile, content)
    /\ Notify("main", op)
    /\ UNCHANGED <<rulesFile, timer, stopped, reloader>> /\ UNCHANGED applied

EditRules(content) ==
    /\ MoreEdits
    /\ rulesFile' = Append(rulesFile, content)
    /\ Notify("rules", "write")
    /\ UNCHANGED <<mainFile, timer, stopped, reloader>> /\ UNCHANGED applied

----------------------------------------------------------------------------
(* Watcher.watch *)

\* Watched are writes, and the creations that a rename over the file shows as.
Concerns(event) == event.file = "main" /\ event.op \in {"write", "create"}

\* A mutant: the timer of the event before is stopped and not set again.
Bug_WatchEvent ==
    /\ ~stopped /\ events # <<>>
    /\ events' = Tail(events)
    /\ timer' = IF Concerns(Head(events)) THEN (IF timer = "armed" THEN "off" ELSE "armed")
                                          ELSE timer
    /\ UNCHANGED <<stopped, reloader>> /\ UNCHANGED files /\ UNCHANGED applied

\* An event of the main file stops the timer and sets a new one.  Stop has no
\* effect on a timer that has fired: its reload goes on.
WatchEvent ==
    /\ ~stopped /\ events # <<>>
    /\ events' = Tail(events)
    /\ timer' = IF Concerns(Head(events)) THEN "armed" ELSE timer
    /\ UNCHANGED <<stopped, reloader>> /\ UNCHANGED files /\ UNCHANGED applied

\* One second without a new event.  Nothing keeps the reload from overlapping others.
TimerFires(g) ==
    /\ timer = "armed" /\ reloader[g].pc = "idle"
    /\ timer' = "off"
    /\ reloader' = [h \in Reloads |->
           IF h = g
             THEN [NoReload EXCEPT !.pc = "readMain",
                                   !.alone = \A other \in Reloads : reloader[other].pc = "idle"]
             ELSE [reloader[h] EXCEPT !.alone = FALSE]]
    /\ UNCHANGED <<events, stopped>> /\ UNCHANGED files /\ UNCHANGED applied

\* Watcher.Stop leaves a timer that is set alone.
Stop ==
    /\ ~stopped
    /\ stopped' = TRUE
    /\ UNCHANGED <<events, timer, reloader>> /\ UNCHANGED files /\ UNCHANGED applied

----------------------------------------------------------------------------
(* Watcher.reload *)

At(g, step) == reloader[g].pc = step
Becomes(g, state) == reloader' = [reloader EXCEPT ![g] = state]

\* A reload that goes on with what it has after an error (a mutant).
Bug_Accepts(m, r) == TRUE

\* SetDefaults and Validate, on the two files together.
Accepts(m, r) == Validate(Loads(m, r))

\* A mutant: instead of a refused configuration, that of start-up is applied.
Bug_Then(g, m, r) ==
    Becomes(g, [reloader[g] EXCEPT
                  !.pc = "selector",
                  !.main = IF Accepts(m, r) THEN m ELSE 1,
                  !.rules = IF Accepts(m, r) THEN r ELSE IF NamesFile(1) THEN 1 ELSE NotRead])

Then(g, m, r) ==
    Becomes(g, [reloader[g] EXCEPT !.pc = IF Accepts(m, r) THEN "selector" ELSE "idle",
                                   !.main = m, !.rules = r])

\* Load reads the main file, and an error in it ends the reload.
ReadMain(g) ==
    LET m == Len(mainFile)
    IN  /\ At(g, "readMain")
        /\ \/ mainFile[m].readable /\ ~NamesFile(m) /\ Then(g, m, NotRead)
           \/ /\ mainFile[m].readable => NamesFile(m)
              /\ Becomes(g, [reloader[g] EXCEPT
                                !.pc = IF mainFile[m].readable THEN "readRules" ELSE "idle",
                                !.main = m])
        /\ UNCHANGED files /\ UNCHANGED watcher /\ UNCHANGED applied

\* It goes on with the rules file that the main file names.
ReadRules(g) ==
    LET m == reloader[g].main
        r == Len(rulesFile)
    IN  /\ At(g, "readRules")
        /\ \/ rulesFile[r].readable /\ Then(g, m, r)
           \/ ~rulesFile[r].readable /\ Becomes(g, [reloader[g] EXCEPT !.pc = "idle"])
        /\ UNCHANGED files /\ UNCHANGED watcher /\ UNCHANGED applied

\* onChange: Selector.UpdateNodes, whose only error Validate has excluded ...
UpdateSelector(g) ==
    /\ At(g, "selector")
    /\ selector' = reloader[g].main
    /\ Becomes(g, [reloader[g] EXCEPT !.pc = "checker"])
    /\ UNCHANGED <<checker, router>> /\ UNCHANGED files /\ UNCHANGED watcher

\* A reload that leaves the rest to the one that is about to come (a mutant).
Bug_UpdateChecker(g) ==
    /\ At(g, "checker")
    /\ checker' = IF timer = "armed" THEN checker ELSE reloader[g].main
    /\ Becomes(g, [reloader[g] EXCEPT !.pc = "router"])
    /\ UNCHANGED <<selector, router>> /\ UNCHANGED files /\ UNCHANGED watcher

\* ... Checker.UpdateNodes ...
UpdateChecker(g) ==
    /\ At(g, "checker")
    /\ checker' = reloader[g].main
    /\ Becomes(g, [reloader[g] EXCEPT !.pc = "router"])
    /\ UNCHANGED <<selector, router>> /\ UNCHANGED files /\ UNCHANGED watcher

\* ... and Router.UpdateRules if there is a router and a rule.  ValidateRules is
\* not called again.
UpdateRules(g) ==
    LET used == [main |-> reloader[g].main, rules |-> reloader[g].rules]
    IN  /\ At(g, "router")
        /\ router' = IF router # NoRouter /\ RulesFrom(used) # <<>> THEN used ELSE router
        /\ Becomes(g, [reloader[g] EXCEPT !.pc = "idle"])
        /\ UNCHANGED <<selector, checker>> /\ UNCHANGED files /\ UNCHANGED watcher

ReloadStep(g) ==
    ReadMain(g) \/ ReadRules(g) \/ UpdateSelector(g) \/ UpdateChecker(g) \/ UpdateRules(g)

Next ==
    \/ \E content \in MainContents, op \in Ops : EditMain(content, op)
    \/ \E content \in RulesContents : EditRules(content)
    \/ WatchEvent
    \/ Stop
    \/ \E g \in Reloads : TimerFires(g) \/ ReloadStep(g)

Spec == Init /\ [][Next]_vars

\* The watch goroutine and the reloads are scheduled, and a timer fires.
Fairness ==
    /\ WF_vars(WatchEvent)
    /\ WF_vars(\E g \in Reloads : TimerFires(g))
    /\ \A g \in Reloads : WF_vars(ReloadStep(g))

FairSpec == Spec /\ Fairness

----------------------------------------------------------------------------
\* What the components count on.  The round-robin divides by the weights and keeps
\* nodes by name (selector.go:136); some list with an end must decide each request.
NodesServe(nodes) ==
    /\ \A i \in DOMAIN nodes : nodes[i].weight > 0
    /\ \A i, j \in DOMAIN nodes : nodes[i].name = nodes[j].name => i = j
    /\ \E i \in DOMAIN nodes : nodes[i].enabled
RulesDecide(rules) ==
    /\ rules # <<>>
    /\ \A i \in DOMAIN rules : rules[i].type = "FINAL" <=> i = Len(rules)

\* The selector and the health checker always have nodes, and the router a list, that
\* they can work with, however edits of the two files fall between the two reads and
\* the three updates of reloads that overlap, and although start-up checks more.
NodesOf(v) == SetDefaults(mainFile[v]).nodes
AppliedServes ==
    /\ NodesServe(NodesOf(selector)) /\ NodesServe(NodesOf(checker))
    /\ router # NoRouter => RulesDecide(RulesFrom(router))

\* config-schema.md:250-264: a list of rules is refused if its last rule is not FINAL,
\* a GEOIP rule has no database, the pattern of an IP-CIDR rule is no CIDR or a type is
\* unknown; and a reload that refuses a configuration keeps the old one.
AsDocumented(rules, database) ==
    /\ RulesDecide(rules)
    /\ \A i \in DOMAIN rules :
        /\ rules[i].type \in RuleTypes
        /\ rules[i].type = "GEOIP" => database
        /\ rules[i].type = "IP-CIDR" => rules[i].pattern = "CIDR"
BrokenNeverApplied ==
    /\ NodesServe(NodesOf(selector)) /\ NodesServe(NodesOf(checker))
    /\ router # NoRouter =>
         AsDocumented(RulesFrom(router), Loads(router.main, router.rules).database)

\* Nothing is pending.
Quiet == timer = "off" /\ \A g \in Reloads : At(g, "idle")

\* research.md:372, reloads are atomic: once no reload is under way, the selector
\* and the health checker have the nodes of the same configuration.
ComponentsAgree == Quiet => selector = checker

\* Only reloads that overlap put back the nodes or the rules of an older configuration:
\* while one is under way that ran alone all the time, every component moves forward.
Alone(g) == reloader[g].alone /\ ~At(g, "idle")
Forward ==
    /\ selector' >= selector /\ checker' >= checker
    /\ router'.main >= router.main
    /\ router'.rules >= router.rules \/ router'.main > router.main
OnlyOverlapsGoBack == [][(\E g \in Reloads : Alone(g)) => Forward]_vars

\* What overlapping reloads have left apart, the next reload that runs alone brings
\* together again: the selector and the health checker then have the nodes it read.
AloneAgrees ==
    \A g \in Reloads : Alone(g) /\ At(g, "router")
        => selector = reloader[g].main /\ checker = reloader[g].main

\* The debounce loses no change of the main file that comes as a write or a creation:
\* as long as such an event waits, a reload is still to come that reads what the file
\* says by then, unless one has read it already.
EditsRead ==
    (\E i \in DOMAIN events : Concerns(events[i]))
      ~> stopped \/ \E g \in Reloads : reloader[g].main = Len(mainFile)
=============================================================================
