------------------------- MODULE ConfigReloadProofs -------------------------
(***************************************************************************)
(* What reloads promise for any number of them, that may overlap, and any  *)
(* number of edits.  That the components can work with what they get is    *)
(* not inductive: an update applies what its reload read some steps        *)
(* before, so one must know that a reload past its two reads carries       *)
(* contents that Load accepted, and that contents are only appended.  That *)
(* Validate refuses whatever the components cannot work with is a lemma    *)
(* about ConfigRules.                                                      *)
(*                                                                         *)
(* What a reload promises that ran alone comes last: it takes no component *)
(* back, and all agree after it whatever they had before.  Ordered carries *)
(* it: nobody moves beside such a reload, and what it has read is at least *)
(* as new as what is in use.                                               *)
(***************************************************************************)
EXTENDS ConfigReload, TLAPS

\* Two versions that a read may have returned.
Exist(m, r) == m \in 1..Len(mainFile) /\ r \in (1..Len(rulesFile)) \cup {NotRead}

\* A reload that has passed its reads carries versions that Load accepted.
Accepted ==
    \A g \in Reloads :
        /\ reloader[g].pc = "readRules" => Exist(reloader[g].main, NotRead)
        /\ reloader[g].pc \in {"selector", "checker", "router"}
             => /\ Exist(reloader[g].main, reloader[g].rules)
                /\ Accepts(reloader[g].main, reloader[g].rules)

Inv ==
    /\ TypeOK
    /\ AppliedServes
    /\ Accepted

----------------------------------------------------------------------------
\* The merge does not change the nodes: those of Load are those of the main file, with
\* their defaults (loader.go:70-116, types.go:110-124).
LEMMA LoadedNodes ==
  ASSUME NEW cfg \in Config, NEW file
  PROVE  Loaded(cfg, file).nodes = SetDefaults(cfg).nodes
<1>1. /\ DOMAIN cfg = {"readable", "nodes", "set", "level", "routing", "rules", "database"}
      /\ cfg = [x \in DOMAIN cfg |-> cfg[x]]
  BY DEF Config
<1>2. Merged(cfg, file).nodes = cfg.nodes
  BY <1>1 DEF Merged
<1>3. DOMAIN Merged(cfg, file) = DOMAIN cfg
  BY <1>1 DEF Merged
<1>4. ASSUME NEW c, DOMAIN c = DOMAIN cfg
      PROVE  SetDefaults(c).nodes = [i \in DOMAIN c.nodes |-> WithDefault(c.nodes[i])]
  BY <1>1, <1>4 DEF SetDefaults
<1> QED BY <1>2, <1>3, <1>4 DEF Loaded

\* What Validate accepts the selector and the health checker can work with
\* (types.go:159-198), and a list of rules that is not empty has its end where the
\* router needs it (types.go:233-284).
LEMMA ValidServes ==
  ASSUME NEW cfg, Validate(cfg)
  PROVE  NodesServe(cfg.nodes) /\ (cfg.rules # <<>> => RulesDecide(cfg.rules))
<1>1. NodesServe(cfg.nodes)
  BY DEF Validate, NodesValid, NodesServe
<1>2. ASSUME cfg.rules # <<>> PROVE RulesDecide(cfg.rules)
  <2>1. RulesValid(cfg.rules, cfg.database)
    BY <1>2 DEF Validate
  <2>2. PICK i \in DOMAIN cfg.rules : cfg.rules[i].type = "FINAL"
    BY <2>1 DEF RulesValid
  <2>3. i = Len(cfg.rules)
    BY <2>1, <2>2 DEF RulesValid
  <2> QED BY <1>2, <2>1, <2>2, <2>3 DEF RulesValid, RulesDecide
<1> QED BY <1>1, <1>2

\* So does every pair of versions that a reload has accepted.
LEMMA AcceptedServe ==
  ASSUME TypeOK, NEW m, NEW r, Exist(m, r), Accepts(m, r)
  PROVE  /\ NodesServe(NodesOf(m))
         /\ RulesFrom([main |-> m, rules |-> r]) # <<>>
              => RulesDecide(RulesFrom([main |-> m, rules |-> r]))
<1>1. mainFile[m] \in Config
  BY ContentsAssumption DEF TypeOK, Exist
<1>2. Loads(m, r).nodes = NodesOf(m)
  BY <1>1, LoadedNodes DEF Loads, NodesOf
<1>3. Validate(Loads(m, r))
  BY DEF Accepts
<1>4. RulesFrom([main |-> m, rules |-> r]) = Loads(m, r).rules
  BY DEF RulesFrom
<1> QED BY <1>2, <1>3, <1>4, ValidServes

\* Files are only appended to: what a version was, it stays.
LEMMA FileAppended ==
  ASSUME NEW S, NEW f \in Seq(S), NEW x \in S
  PROVE  /\ Append(f, x) \in Seq(S) /\ Len(Append(f, x)) = Len(f) + 1
         /\ \A i \in 1..Len(f) : i \in 1..Len(Append(f, x)) /\ Append(f, x)[i] = f[i]
<1> QED OBVIOUS

\* What start-up has checked is accepted and in use everywhere (main.go:36-120).
LEMMA InitInv == Init => Inv
<1> SUFFICES ASSUME Init PROVE Inv
  OBVIOUS
<1>1. PICK content \in MainContents : mainFile = <<content>>
  BY DEF Init
<1>2. mainFile \in Seq(MainContents) /\ Len(mainFile) = 1
  BY <1>1
<1>3. PICK rules \in RulesContents : rulesFile = <<rules>>
  BY DEF Init
<1>4. rulesFile \in Seq(RulesContents) /\ Len(rulesFile) = 1
  BY <1>3
<1>5. 1 \in Versions
  BY MaxEditsAssumption DEF Versions
<1>6. reloader \in [Reloads -> Reloading] /\ \A g \in Reloads : reloader[g].pc = "idle"
  BY DEF Init, Reloading, NoReload, Steps, NotRead
<1> DEFINE r == IF NamesFile(1) THEN 1 ELSE NotRead
           used == [main |-> 1, rules |-> r]
<1>7. /\ Validate(Loads(1, r))
      /\ router = IF RulesFrom(used) = <<>> THEN NoRouter ELSE used
  BY DEF Init
<1>8. r \in {1, NotRead}
  OBVIOUS
<1> HIDE DEF r
<1>9. TypeOK
  <2>1. events \in Seq([file : {"main", "rules"}, op : Ops]) /\ timer = "off" /\ stopped = FALSE
        /\ selector = 1 /\ checker = 1
    BY DEF Init
  <2>2. used \in Sources /\ used.main = 1 /\ used.rules <= 1
    BY <1>5, <1>8 DEF Sources, NotRead
  <2>3. NoRouter.main = 0 /\ NoRouter.rules = 0
    BY DEF NoRouter, NotRead
  <2> HIDE DEF used
  <2>4. router \in Sources \cup {NoRouter} /\ router.main <= 1 /\ router.rules <= 1
    BY <1>7, <2>2, <2>3
  <2>5. Len(mainFile) \in Versions /\ Len(rulesFile) \in Versions
    BY <1>2, <1>4, <1>5
  <2>6. selector \in 1..Len(mainFile) /\ checker \in 1..Len(mainFile)
    BY <1>2, <2>1
  <2> QED BY <1>2, <1>4, <1>6, <2>1, <2>4, <2>5, <2>6 DEF TypeOK
<1>10. Exist(1, r) /\ Accepts(1, r)
  BY <1>2, <1>4, <1>7, <1>8 DEF Exist, Accepts
<1>11. AppliedServes
  <2>1. selector = 1 /\ checker = 1
    BY DEF Init
  <2>2. router # NoRouter => router = used /\ RulesFrom(used) # <<>>
    BY <1>7
  <2> QED BY <1>9, <1>10, <2>1, <2>2, AcceptedServe DEF AppliedServes
<1>12. Accepted
  BY <1>6 DEF Accepted
<1> QED BY <1>9, <1>11, <1>12 DEF Inv

\* A reload that does no step; one that begins beside it may end its being alone.
SameReload(g) ==
    /\ reloader'[g].pc = reloader[g].pc
    /\ reloader'[g].main = reloader[g].main
    /\ reloader'[g].rules = reloader[g].rules

\* The timer begins one reload, alone if no other is under way, and those are not any more.
LEMMA Fired ==
  ASSUME reloader \in [Reloads -> Reloading], NEW g \in Reloads, TimerFires(g)
  PROVE  /\ reloader' \in [Reloads -> Reloading]
         /\ reloader'[g].pc = "readMain"
         /\ reloader'[g].alone => \A h \in Reloads : reloader[h].pc = "idle"
         /\ \A h \in Reloads \ {g} : SameReload(h) /\ ~reloader'[h].alone
<1> DEFINE single == \A other \in Reloads : reloader[other].pc = "idle"
           k == [NoReload EXCEPT !.pc = "readMain", !.alone = single]
<1>1. reloader' = [h \in Reloads |-> IF h = g THEN k ELSE [reloader[h] EXCEPT !.alone = FALSE]]
  BY DEF TimerFires
<1>2. k \in Reloading /\ k.pc = "readMain" /\ k.alone = single
  BY DEF NoReload, Reloading, Steps
<1>3. ASSUME NEW h \in Reloads \ {g}
      PROVE  reloader'[h] \in Reloading /\ SameReload(h) /\ ~reloader'[h].alone
  <2>1. reloader'[h] = [reloader[h] EXCEPT !.alone = FALSE] /\ reloader[h] \in Reloading
    BY <1>1
  <2> QED BY <2>1 DEF Reloading, SameReload
<1> HIDE DEF k
<1>4. reloader'[g] = k
  BY <1>1
<1> QED BY <1>1, <1>2, <1>3, <1>4

\* Steps of the administrator and of the watcher: no component changes, and no
\* reload gets further.
LEMMA OutsideInv ==
  ASSUME Inv, UNCHANGED applied,
         mainFile' \in Seq(MainContents), Len(mainFile') \in Versions,
         Len(mainFile') >= Len(mainFile),
         \A i \in 1..Len(mainFile) : mainFile'[i] = mainFile[i],
         rulesFile' \in Seq(RulesContents), Len(rulesFile') \in Versions,
         Len(rulesFile') >= Len(rulesFile),
         \A i \in 1..Len(rulesFile) : rulesFile'[i] = rulesFile[i],
         events' \in Seq([file : {"main", "rules"}, op : Ops]),
         timer' \in {"off", "armed"}, stopped' \in BOOLEAN,
         reloader' \in [Reloads -> Reloading],
         \A g \in Reloads : SameReload(g) \/ reloader'[g].pc = "readMain"
  PROVE  Inv'
<1>1. /\ Len(mainFile) \in Nat /\ Len(rulesFile) \in Nat
      /\ Len(mainFile') \in Nat /\ Len(rulesFile') \in Nat
      /\ selector \in 1..Len(mainFile) /\ checker \in 1..Len(mainFile)
      /\ router \in Sources \cup {NoRouter}
      /\ router.main <= Len(mainFile) /\ router.rules <= Len(rulesFile)
  BY DEF Inv, TypeOK
<1>2. selector' = selector /\ checker' = checker /\ router' = router
  BY DEF applied
<1>3. /\ 1..Len(mainFile) \subseteq 1..Len(mainFile')
      /\ 1..Len(rulesFile) \subseteq 1..Len(rulesFile')
  BY <1>1
<1>4. router.main \in Nat /\ router.rules \in Nat
  BY <1>1 DEF Sources, NoRouter, Versions, NotRead
<1>5. router'.main <= Len(mainFile') /\ router'.rules <= Len(rulesFile')
  BY <1>1, <1>2, <1>4
<1>6. TypeOK'
  BY <1>1, <1>2, <1>3, <1>5 DEF TypeOK
<1>7. \A m, r : Exist(m, r) =>
         /\ Exist(m, r)'
         /\ mainFile'[m] = mainFile[m] /\ Loads(m, r)' = Loads(m, r)
  BY <1>3 DEF Exist, Loads
<1>8. router # NoRouter => Exist(router.main, router.rules)
  <2> SUFFICES ASSUME router # NoRouter PROVE Exist(router.main, router.rules)
    OBVIOUS
  <2>1. router.main \in Versions /\ router.rules \in Versions \cup {NotRead}
    BY <1>1 DEF Sources
  <2> QED BY <1>1, <2>1 DEF Exist, Versions
<1>9. AppliedServes'
  <2>1. Exist(selector, NotRead) /\ Exist(checker, NotRead)
    BY <1>1 DEF Exist
  <2>2. mainFile'[selector] = mainFile[selector] /\ mainFile'[checker] = mainFile[checker]
    BY <1>7, <2>1
  <2>3. router # NoRouter => RulesFrom(router)' = RulesFrom(router)
    BY <1>2, <1>7, <1>8 DEF RulesFrom, Loads
  <2> QED BY <1>2, <2>2, <2>3 DEF Inv, AppliedServes, NodesOf
<1>10. Accepted'
  <2> SUFFICES ASSUME NEW g \in Reloads
      PROVE  (/\ reloader[g].pc = "readRules" => Exist(reloader[g].main, NotRead)
              /\ reloader[g].pc \in {"selector", "checker", "router"}
                   => /\ Exist(reloader[g].main, reloader[g].rules)
                      /\ Accepts(reloader[g].main, reloader[g].rules))'
    BY DEF Accepted
  <2>1. CASE reloader'[g].pc = "readMain"
    BY <2>1
  <2>2. CASE SameReload(g)
    BY <1>3, <2>2 DEF Inv, Accepted, Exist, Accepts, Loads, SameReload
  <2> QED BY <2>1, <2>2
<1> QED BY <1>6, <1>9, <1>10 DEF Inv

\* Steps of one reload: the files stay as they are.
LEMMA ReloadInv ==
  ASSUME Inv, NEW g \in Reloads, UNCHANGED files, UNCHANGED watcher,
         NEW k \in Reloading, reloader' = [reloader EXCEPT ![g] = k],
         k.pc = "readRules" => Exist(k.main, NotRead),
         k.pc \in {"selector", "checker", "router"}
           => Exist(k.main, k.rules) /\ Accepts(k.main, k.rules),
         selector' \in 1..Len(mainFile), NodesServe(NodesOf(selector')),
         checker' \in 1..Len(mainFile), NodesServe(NodesOf(checker')),
         router' \in Sources \cup {NoRouter},
         router'.main <= Len(mainFile), router'.rules <= Len(rulesFile),
         router' # NoRouter => RulesDecide(RulesFrom(router'))
  PROVE  Inv'
<1>1. UNCHANGED <<mainFile, rulesFile, events, timer, stopped>>
  BY DEF files, watcher
<1>2. reloader \in [Reloads -> Reloading]
  BY DEF Inv, TypeOK
<1>3. reloader' \in [Reloads -> Reloading] /\ reloader'[g] = k
      /\ \A h \in Reloads \ {g} : reloader'[h] = reloader[h]
  BY <1>2
<1>4. TypeOK'
  BY <1>1, <1>3 DEF Inv, TypeOK
<1>5. AppliedServes'
  BY <1>1 DEF AppliedServes, NodesOf, RulesFrom, Loads
<1>6. Accepted'
  BY <1>1, <1>3 DEF Inv, Accepted, Exist, Accepts, Loads
<1> QED BY <1>4, <1>5, <1>6 DEF Inv

\* Every step, one case per action, keeps the invariant.
LEMMA NextInv == Inv /\ [Next]_vars => Inv'
<1> SUFFICES ASSUME Inv, [Next]_vars PROVE Inv'
  OBVIOUS
<1>1. /\ mainFile \in Seq(MainContents) /\ Len(mainFile) \in Versions
      /\ rulesFile \in Seq(RulesContents) /\ Len(rulesFile) \in Versions
      /\ events \in Seq([file : {"main", "rules"}, op : Ops])
      /\ timer \in {"off", "armed"} /\ stopped \in BOOLEAN
      /\ reloader \in [Reloads -> Reloading]
      /\ selector \in 1..Len(mainFile) /\ checker \in 1..Len(mainFile)
      /\ router \in Sources \cup {NoRouter}
      /\ router.main <= Len(mainFile) /\ router.rules <= Len(rulesFile)
  BY DEF Inv, TypeOK
<1>2. /\ NodesServe(NodesOf(selector)) /\ NodesServe(NodesOf(checker))
      /\ router # NoRouter => RulesDecide(RulesFrom(router))
  BY DEF Inv, AppliedServes
<1>3. \A file \in {"main", "rules"}, op \in Ops :
         Append(events, [file |-> file, op |-> op])
           \in Seq([file : {"main", "rules"}, op : Ops])
  BY <1>1
<1> DEFINE same == \A g \in Reloads : SameReload(g)
<1>0. UNCHANGED reloader => same
  BY DEF SameReload
<1> HIDE DEF same
<1>4. ASSUME NEW content \in MainContents, NEW op \in Ops, EditMain(content, op)
      PROVE  Inv'
  <2>1. /\ mainFile' = Append(mainFile, content)
        /\ Len(mainFile) + Len(rulesFile) < MaxEdits + 2
        /\ events' = Append(events, [file |-> "main", op |-> op])
        /\ UNCHANGED <<rulesFile, timer, stopped, reloader>> /\ UNCHANGED applied
    BY <1>4 DEF EditMain, Notify, MoreEdits
  <2>2. /\ mainFile' \in Seq(MainContents) /\ Len(mainFile') = Len(mainFile) + 1
        /\ \A i \in 1..Len(mainFile) : mainFile'[i] = mainFile[i]
    BY <1>1, <2>1, FileAppended
  <2>3. Len(mainFile') \in Versions
    BY <1>1, <2>1, <2>2, MaxEditsAssumption DEF Versions
  <2>4. events' \in Seq([file : {"main", "rules"}, op : Ops])
    BY <1>3, <2>1 DEF Ops
  <2>5. Len(mainFile') >= Len(mainFile) /\ Len(rulesFile') >= Len(rulesFile)
    BY <1>1, <2>1, <2>2 DEF Versions
  <2> QED BY <1>0, <1>1, <2>1, <2>2, <2>3, <2>4, <2>5, OutsideInv DEF same
<1>5. ASSUME NEW content \in RulesContents, EditRules(content) PROVE Inv'
  <2>1. /\ rulesFile' = Append(rulesFile, content)
        /\ Len(mainFile) + Len(rulesFile) < MaxEdits + 2
        /\ events' = Append(events, [file |-> "rules", op |-> "write"])
        /\ UNCHANGED <<mainFile, timer, stopped, reloader>> /\ UNCHANGED applied
    BY <1>5 DEF EditRules, Notify, MoreEdits
  <2>2. /\ rulesFile' \in Seq(RulesContents) /\ Len(rulesFile') = Len(rulesFile) + 1
        /\ \A i \in 1..Len(rulesFile) : rulesFile'[i] = rulesFile[i]
    BY <1>1, <2>1, FileAppended
  <2>3. Len(rulesFile') \in Versions
    BY <1>1, <2>1, <2>2, MaxEditsAssumption DEF Versions
  <2>4. events' \in Seq([file : {"main", "rules"}, op : Ops])
    BY <1>3, <2>1 DEF Ops
  <2>5. Len(mainFile') >= Len(mainFile) /\ Len(rulesFile') >= Len(rulesFile)
    BY <1>1, <2>1, <2>2 DEF Versions
  <2> QED BY <1>0, <1>1, <2>1, <2>2, <2>3, <2>4, <2>5, OutsideInv DEF same
<1>6. Len(mainFile) >= Len(mainFile) /\ Len(rulesFile) >= Len(rulesFile)
  BY <1>1 DEF Versions
<1>8. CASE WatchEvent
  <2>1. /\ events # <<>> /\ events' = Tail(events)
        /\ timer' \in {"armed", timer}
        /\ UNCHANGED <<mainFile, rulesFile, stopped, reloader>> /\ UNCHANGED applied
    BY <1>8 DEF WatchEvent, files
  <2>2. events' \in Seq([file : {"main", "rules"}, op : Ops]) /\ timer' \in {"off", "armed"}
    BY <1>1, <2>1
  <2> QED BY <1>0, <1>1, <1>6, <2>1, <2>2, OutsideInv DEF same
<1>9. CASE Stop
  BY <1>0, <1>1, <1>6, <1>9, OutsideInv DEF Stop, files, same
<1>10. ASSUME NEW g \in Reloads, TimerFires(g) PROVE Inv'
  <2>1. timer' = "off" /\ UNCHANGED <<mainFile, rulesFile, events, stopped>> /\ UNCHANGED applied
    BY <1>10 DEF TimerFires, files
  <2>2. /\ reloader' \in [Reloads -> Reloading]
        /\ \A h \in Reloads : SameReload(h) \/ reloader'[h].pc = "readMain"
    BY <1>1, <1>10, Fired
  <2> QED BY <1>1, <1>6, <2>1, <2>2, OutsideInv
<1>11. ASSUME NEW g \in Reloads, ReloadStep(g) PROVE Inv'
  <2>1. /\ reloader[g] \in Reloading
        /\ reloader[g].pc = "readRules" => Exist(reloader[g].main, NotRead)
        /\ reloader[g].pc \in {"selector", "checker", "router"}
             => /\ Exist(reloader[g].main, reloader[g].rules)
                /\ Accepts(reloader[g].main, reloader[g].rules)
    BY <1>1 DEF Inv, Accepted
  <2>2. /\ Len(mainFile) \in 1..Len(mainFile) /\ Len(rulesFile) \in 1..Len(rulesFile)
        /\ 1..Len(mainFile) \subseteq Versions /\ 1..Len(rulesFile) \subseteq Versions
    BY <1>1, MaxEditsAssumption DEF Versions
  <2>3. ASSUME NEW k \in Reloading, Becomes(g, k),
               UNCHANGED files, UNCHANGED watcher, UNCHANGED applied,
               k.pc = "readRules" => Exist(k.main, NotRead),
               k.pc \in {"selector", "checker", "router"}
                 => Exist(k.main, k.rules) /\ Accepts(k.main, k.rules)
        PROVE  Inv'
    BY <1>1, <1>2, <2>3, ReloadInv DEF Becomes, applied
  <2>4. ASSUME NEW m, NEW r, Exist(m, r), Then(g, m, r),
               UNCHANGED files, UNCHANGED watcher, UNCHANGED applied
        PROVE  Inv'
    <3> DEFINE to == IF Accepts(m, r) THEN "selector" ELSE "idle"
               k == [reloader[g] EXCEPT !.pc = to, !.main = m, !.rules = r]
    <3>1. to \in {"selector", "idle"} /\ (to = "selector" => Accepts(m, r))
      OBVIOUS
    <3>2. m \in Versions /\ r \in Versions \cup {NotRead}
      BY <2>2, <2>4 DEF Exist
    <3>3. Becomes(g, k)
      BY <2>4 DEF Then
    <3> HIDE DEF to
    <3>4. k \in Reloading /\ k.pc = to /\ k.main = m /\ k.rules = r
      BY <2>1, <3>1, <3>2 DEF Reloading, Steps
    <3> HIDE DEF k
    <3> QED BY <2>3, <2>4, <3>1, <3>3, <3>4
  <2>5. CASE ReadMain(g)
    <3> DEFINE m == Len(mainFile)
               to == IF mainFile[m].readable THEN "readRules" ELSE "idle"
               k == [reloader[g] EXCEPT !.pc = to, !.main = m]
    <3>1. UNCHANGED files /\ UNCHANGED watcher /\ UNCHANGED applied
      BY <2>5 DEF ReadMain
    <3>2. Exist(m, NotRead)
      BY <2>2 DEF Exist
    <3>3. CASE Then(g, m, NotRead)
      BY <2>4, <3>1, <3>2, <3>3
    <3>4. CASE Becomes(g, k)
      <4>1. to \in {"readRules", "idle"}
        OBVIOUS
      <4> HIDE DEF to
      <4>2. k \in Reloading /\ k.pc = to /\ k.main = m
        BY <2>1, <2>2, <4>1 DEF Reloading, Steps
      <4> HIDE DEF k
      <4> QED BY <2>3, <3>1, <3>2, <3>4, <4>1, <4>2
    <3> QED BY <2>5, <3>3, <3>4 DEF ReadMain
  <2>6. CASE ReadRules(g)
    <3> DEFINE m == reloader[g].main
               r == Len(rulesFile)
               k == [reloader[g] EXCEPT !.pc = "idle"]
    <3>1. UNCHANGED files /\ UNCHANGED watcher /\ UNCHANGED applied
      BY <2>6 DEF ReadRules
    <3>2. Exist(m, r)
      BY <2>1, <2>2, <2>6 DEF Exist, ReadRules, At
    <3>3. CASE Then(g, m, r)
      BY <2>4, <3>1, <3>2, <3>3
    <3>4. CASE Becomes(g, k)
      <4>1. k \in Reloading /\ k.pc = "idle"
        BY <2>1 DEF Reloading, Steps
      <4> HIDE DEF k
      <4> QED BY <2>3, <3>1, <3>4, <4>1
    <3> QED BY <2>6, <3>3, <3>4 DEF ReadRules
  <2>7. ASSUME NEW to \in {"checker", "router", "idle"},
               Becomes(g, [reloader[g] EXCEPT !.pc = to]),
               reloader[g].pc \in {"selector", "checker", "router"},
               UNCHANGED files, UNCHANGED watcher,
               selector' \in {selector, reloader[g].main},
               checker' \in {checker, reloader[g].main},
               \/ router' = router
               \/ /\ router' = [main |-> reloader[g].main, rules |-> reloader[g].rules]
                  /\ RulesFrom(router') # <<>>
        PROVE  Inv'
    <3> DEFINE m == reloader[g].main
               r == reloader[g].rules
               k == [reloader[g] EXCEPT !.pc = to]
               used == [main |-> m, rules |-> r]
    <3>1. k \in Reloading /\ k.pc = to /\ k.main = m /\ k.rules = r
      BY <2>1 DEF Reloading, Steps
    <3>2. reloader' = [reloader EXCEPT ![g] = k]
      BY <2>7 DEF Becomes
    <3> HIDE DEF k
    <3>3. Exist(m, r) /\ Accepts(m, r)
      BY <2>1, <2>7
    <3>4. TypeOK
      BY DEF Inv
    <3>5. NodesServe(NodesOf(m)) /\ (RulesFrom(used) # <<>> => RulesDecide(RulesFrom(used)))
      BY <3>3, <3>4, AcceptedServe
    <3>6. selector' \in 1..Len(mainFile) /\ NodesServe(NodesOf(selector'))
      BY <1>1, <1>2, <2>7, <3>3, <3>5 DEF Exist
    <3>7. checker' \in 1..Len(mainFile) /\ NodesServe(NodesOf(checker'))
      BY <1>1, <1>2, <2>7, <3>3, <3>5 DEF Exist
    <3>8. /\ router' \in Sources \cup {NoRouter}
          /\ router'.main <= Len(mainFile) /\ router'.rules <= Len(rulesFile)
          /\ router' # NoRouter => RulesDecide(RulesFrom(router'))
      <4>1. used \in Sources /\ used.main <= Len(mainFile) /\ used.rules <= Len(rulesFile)
        BY <1>1, <2>2, <3>3 DEF Exist, Sources, NotRead, Versions
      <4> QED BY <1>1, <1>2, <2>7, <3>5, <4>1
    <3>9. UNCHANGED files /\ UNCHANGED watcher
      BY <2>7
    <3> HIDE DEF m, r, used
    <3> QED BY <2>7, <3>1, <3>2, <3>3, <3>6, <3>7, <3>8, <3>9, ReloadInv
  <2>8. CASE UpdateSelector(g)
    BY <2>7, <2>8 DEF UpdateSelector, At
  <2>9. CASE UpdateChecker(g)
    BY <2>7, <2>9 DEF UpdateChecker, At
  <2>10. CASE UpdateRules(g)
    BY <2>7, <2>10 DEF UpdateRules, At
  <2> QED BY <1>11, <2>5, <2>6, <2>8, <2>9, <2>10 DEF ReloadStep
<1>12. CASE UNCHANGED vars
  BY <1>0, <1>1, <1>6, <1>12, OutsideInv DEF vars, applied, same
<1> QED BY <1>4, <1>5, <1>8, <1>9, <1>10, <1>11, <1>12 DEF Next

\* The inductive invariant holds of every behaviour.
LEMMA AlwaysInv == Spec => []Inv
<1> QED BY InitInv, NextInv, PTL DEF Spec

\* Whatever the two files say, and however edits and overlapping reloads fall between
\* the two reads and the three updates, the components get nodes and rules that they
\* can work with (loader.go:15-45, watcher.go:96-113, main.go:153-169).
THEOREM AppliedAlwaysServes == Spec => []AppliedServes
<1>1. Inv => AppliedServes
  BY DEF Inv
<1> QED BY <1>1, AlwaysInv, PTL

\* Every component has a version of its file that exists.
THEOREM ReloadTypeCorrect == Spec => []TypeOK
<1>1. Inv => TypeOK
  BY DEF Inv
<1> QED BY <1>1, AlwaysInv, PTL

----------------------------------------------------------------------------
(* Reloads that run alone.  The debounce does not see to it that all do: a load that
   takes longer than its second overlaps the next one.  *)

\* A pair of versions read the rules file if, and only if, the main file names one.
ReadsAsNamed(m, r) == r = NotRead <=> ~NamesFile(m)

Named(g) ==
    /\ reloader[g].pc = "readRules" => NamesFile(reloader[g].main)
    /\ reloader[g].pc \in {"selector", "checker", "router"}
         => ReadsAsNamed(reloader[g].main, reloader[g].rules)

\* What a reload that runs alone carries is not older than what is in use ...
Newer(g) ==
    Alone(g) =>
        /\ reloader[g].pc \in {"readRules", "selector", "checker", "router"}
             => /\ selector <= reloader[g].main /\ checker <= reloader[g].main
                /\ router.main <= reloader[g].main
        /\ reloader[g].pc \in {"selector", "checker", "router"}
             => \/ router.rules <= reloader[g].rules
                \/ router.main < reloader[g].main

\* ... and what it has updated so far is of its version.
InStep(g) ==
    Alone(g) =>
        /\ reloader[g].pc \in {"checker", "router"} => selector = reloader[g].main
        /\ reloader[g].pc = "router" => checker = reloader[g].main

\* Nobody else moves beside it.
Exclusive == \A g, h \in Reloads : Alone(g) /\ h # g => At(h, "idle")

Ordered ==
    /\ router # NoRouter => ReadsAsNamed(router.main, router.rules)
    /\ \A g \in Reloads : Named(g) /\ Newer(g) /\ InStep(g)
    /\ Exclusive

\* Nothing is under way at the start, and everything is of the first versions.
LEMMA InitOrdered == Init => Ordered
<1> SUFFICES ASSUME Init PROVE Ordered
  OBVIOUS
<1>1. \A g \in Reloads : reloader[g].pc = "idle"
  BY DEF Init, NoReload
<1>2. \A g \in Reloads : Named(g) /\ Newer(g) /\ InStep(g)
  BY <1>1 DEF Named, Newer, InStep
<1>3. Exclusive
  BY <1>1 DEF Exclusive, At
<1>4. router # NoRouter => ReadsAsNamed(router.main, router.rules)
  BY DEF Init, ReadsAsNamed, NotRead
<1> QED BY <1>2, <1>3, <1>4 DEF Ordered

\* The administrator, the watcher and the timer apply nothing, and what a version says
\* of the rules file does not change.
LEMMA OutsideOrdered ==
  ASSUME Inv, Ordered, UNCHANGED applied,
         \A i \in 1..Len(mainFile) : mainFile'[i] = mainFile[i],
         UNCHANGED reloader \/ \E g \in Reloads : TimerFires(g)
  PROVE  Ordered' /\ Forward
<1>1. /\ Len(mainFile) \in Nat /\ Len(rulesFile) \in Nat
      /\ selector \in 1..Len(mainFile) /\ checker \in 1..Len(mainFile)
      /\ router \in Sources \cup {NoRouter} /\ router.main <= Len(mainFile)
      /\ reloader \in [Reloads -> Reloading]
  BY DEF Inv, TypeOK
<1>2. selector' = selector /\ checker' = checker /\ router' = router
  BY DEF applied
<1>3. router.main \in Nat /\ router.rules \in Nat
  BY <1>1 DEF Sources, NoRouter, Versions, NotRead
<1>4. \A m \in 1..Len(mainFile) : \A r : ReadsAsNamed(m, r)' <=> ReadsAsNamed(m, r)
  BY DEF ReadsAsNamed, NamesFile
<1>5. \A m \in 1..Len(mainFile) : NamesFile(m)' <=> NamesFile(m)
  BY DEF NamesFile
<1>6. router # NoRouter => router.main \in 1..Len(mainFile)
  BY <1>1 DEF Sources, Versions
<1>7. (router # NoRouter => ReadsAsNamed(router.main, router.rules))'
  BY <1>2, <1>4, <1>6 DEF Ordered
<1>8. ASSUME NEW g \in Reloads
      PROVE  \/ reloader'[g].pc = "readMain"
             \/ SameReload(g) /\ (reloader'[g].alone => reloader[g].alone)
  <2>1. CASE UNCHANGED reloader
    BY <2>1 DEF SameReload
  <2>2. CASE \E h \in Reloads : TimerFires(h)
    BY <1>1, <2>2, Fired
  <2> QED BY <2>1, <2>2
<1>9. ASSUME NEW g \in Reloads PROVE (Named(g) /\ Newer(g) /\ InStep(g))'
  <2>1. CASE reloader'[g].pc = "readMain"
    BY <2>1 DEF Named, Newer, InStep
  <2>2. CASE SameReload(g) /\ (reloader'[g].alone => reloader[g].alone)
    <3>1. reloader[g].pc \in {"readRules", "selector", "checker", "router"}
            => reloader[g].main \in 1..Len(mainFile)
      BY DEF Inv, Accepted, Exist
    <3>2. Named(g) /\ Newer(g) /\ InStep(g)
      BY DEF Ordered
    <3>3. Named(g)'
      BY <1>4, <1>5, <2>2, <3>1, <3>2 DEF Named, SameReload
    <3>4. (Newer(g) /\ InStep(g))'
      BY <1>2, <2>2, <3>2 DEF Newer, InStep, SameReload, Alone, At
    <3> QED BY <3>3, <3>4
  <2> QED BY <1>8, <2>1, <2>2
<1>10. Exclusive'
  <2>1. CASE UNCHANGED reloader
    BY <2>1 DEF Ordered, Exclusive, Alone, At
  <2>2. ASSUME NEW f \in Reloads, TimerFires(f) PROVE Exclusive'
    <3> SUFFICES ASSUME NEW g \in Reloads, NEW h \in Reloads, Alone(g)', h # g
                 PROVE  At(h, "idle")'
      BY DEF Exclusive
    <3>1. g = f /\ \A x \in Reloads : reloader[x].pc = "idle"
      BY <1>1, <2>2, Fired DEF Alone
    <3>2. SameReload(h)
      BY <1>1, <2>2, <3>1, Fired
    <3> QED BY <3>1, <3>2 DEF SameReload, At
  <2> QED BY <2>1, <2>2
<1>11. Forward
  BY <1>1, <1>2, <1>3 DEF Forward
<1> QED BY <1>7, <1>9, <1>10, <1>11 DEF Ordered

\* A step of a reload: if it runs alone nobody else is under way, and if another one
\* does it could not be at work.
LEMMA ReloadOrdered ==
  ASSUME Inv, Ordered, NEW g \in Reloads, ReloadStep(g)
  PROVE  Ordered' /\ ((\E h \in Reloads : Alone(h)) => Forward)
<1>1. /\ Len(mainFile) \in Nat /\ Len(rulesFile) \in Nat
      /\ selector \in 1..Len(mainFile) /\ checker \in 1..Len(mainFile)
      /\ router \in Sources \cup {NoRouter}
      /\ router.main <= Len(mainFile) /\ router.rules <= Len(rulesFile)
      /\ reloader \in [Reloads -> Reloading] /\ reloader[g] \in Reloading
  BY DEF Inv, TypeOK
<1>2. router.main \in Nat /\ router.rules \in Nat /\ selector \in Nat /\ checker \in Nat
  BY <1>1 DEF Sources, NoRouter, Versions, NotRead
<1>3. ~At(g, "idle")
  BY DEF ReloadStep, ReadMain, ReadRules, UpdateSelector, UpdateChecker, UpdateRules, At
<1>4. /\ router # NoRouter => ReadsAsNamed(router.main, router.rules)
      /\ Named(g) /\ Newer(g) /\ InStep(g)
  BY DEF Ordered
<1>5. UNCHANGED files
  BY DEF ReloadStep, ReadMain, ReadRules, UpdateSelector, UpdateChecker, UpdateRules
<1>6. \A m, r : ReadsAsNamed(m, r)' <=> ReadsAsNamed(m, r)
  BY <1>5 DEF ReadsAsNamed, NamesFile, files
<1>7. \A m : NamesFile(m)' <=> NamesFile(m)
  BY <1>5 DEF NamesFile, files
<1>8. reloader[g].main \in Nat /\ reloader[g].rules \in Nat
  BY <1>1 DEF Reloading, Versions, NotRead
<1>9. \A h \in Reloads \ {g} : ~Alone(h)
  BY <1>3 DEF Ordered, Exclusive
\* It is enough to look at this reload.
<1>10. ASSUME NEW k \in Reloading, Becomes(g, k), k.alone = reloader[g].alone,
              Named(g)', (router # NoRouter => ReadsAsNamed(router.main, router.rules))',
              Alone(g) => Newer(g)' /\ InStep(g)' /\ Forward
       PROVE  Ordered' /\ ((\E h \in Reloads : Alone(h)) => Forward)
  <2>1. reloader'[g] = k /\ \A h \in Reloads \ {g} : reloader'[h] = reloader[h]
    BY <1>1, <1>10 DEF Becomes
  <2>2. Alone(g)' => Alone(g)
    BY <1>3, <1>10, <2>1 DEF Alone
  <2>3. \A h \in Reloads \ {g} : ~Alone(h)'
    BY <1>9, <2>1 DEF Alone, At
  <2>4. ASSUME NEW h \in Reloads PROVE (Named(h) /\ Newer(h) /\ InStep(h))'
    <3>1. CASE h = g
      BY <1>10, <2>2, <3>1 DEF Newer, InStep
    <3>2. CASE h # g
      <4>1. Named(h)'
        BY <1>6, <1>7, <2>1, <3>2 DEF Ordered, Named
      <4> QED BY <2>3, <3>2, <4>1 DEF Newer, InStep
    <3> QED BY <3>1, <3>2
  <2>5. Exclusive'
    <3> SUFFICES ASSUME NEW x \in Reloads, NEW y \in Reloads, Alone(x)', y # x
                 PROVE  At(y, "idle")'
      BY DEF Exclusive
    <3>1. x = g /\ Alone(g)
      BY <2>2, <2>3
    <3>2. At(y, "idle")
      BY <3>1 DEF Ordered, Exclusive
    <3> QED BY <2>1, <3>1, <3>2 DEF At
  <2> QED BY <1>9, <1>10, <2>4, <2>5 DEF Ordered
\* A reload that has read version m of the main file, and version r of the rules file.
<1>11. ASSUME NEW to \in {"readRules", "selector", "idle"},
              NEW m \in Versions, NEW r \in Versions \cup {NotRead},
              Becomes(g, [reloader[g] EXCEPT !.pc = to, !.main = m, !.rules = r]),
              UNCHANGED applied,
              to = "readRules" => NamesFile(m),
              to = "selector" => ReadsAsNamed(m, r),
              Alone(g) => selector <= m /\ checker <= m /\ router.main <= m,
              Alone(g) /\ to = "selector" => router.rules <= r \/ router.main < m
       PROVE  Ordered' /\ ((\E h \in Reloads : Alone(h)) => Forward)
  <2> DEFINE k == [reloader[g] EXCEPT !.pc = to, !.main = m, !.rules = r]
  <2>1. /\ k \in Reloading /\ k.alone = reloader[g].alone
        /\ k.pc = to /\ k.main = m /\ k.rules = r
    BY <1>1, <1>11 DEF Reloading, Steps
  <2>2. Becomes(g, k)
    BY <1>11
  <2> HIDE DEF k
  <2>3. reloader'[g] = k
    BY <1>1, <2>2 DEF Becomes
  <2>4. selector' = selector /\ checker' = checker /\ router' = router
    BY <1>11 DEF applied
  <2>5. Named(g)'
    BY <1>6, <1>7, <1>11, <2>1, <2>3 DEF Named
  <2>6. Alone(g) => Newer(g)'
    BY <1>11, <2>1, <2>3, <2>4 DEF Newer
  <2>7. InStep(g)'
    BY <1>11, <2>1, <2>3 DEF InStep
  <2>8. (router # NoRouter => ReadsAsNamed(router.main, router.rules))'
    BY <1>4, <1>6, <2>4
  <2>9. Forward
    BY <1>2, <2>4 DEF Forward
  <2> QED BY <1>10, <2>1, <2>2, <2>5, <2>6, <2>7, <2>8, <2>9
<1>12. CASE ReadMain(g)
  <2> DEFINE m == Len(mainFile)
  <2>1. UNCHANGED applied /\ reloader[g].rules \in Versions \cup {NotRead}
    BY <1>1, <1>12 DEF ReadMain, Reloading
  <2>2. selector <= m /\ checker <= m /\ router.main <= m /\ m \in Versions
    BY <1>1 DEF Inv, TypeOK
  <2>3. CASE ~NamesFile(m) /\ Then(g, m, NotRead)
    <3> DEFINE to == IF Accepts(m, NotRead) THEN "selector" ELSE "idle"
    <3>1. to \in {"readRules", "selector", "idle"} /\ to # "readRules"
      OBVIOUS
    <3>2. ReadsAsNamed(m, NotRead)
      BY <2>3 DEF ReadsAsNamed
    <3>3. router.rules <= NotRead \/ router.main < m
      <4>1. CASE router = NoRouter
        BY <4>1 DEF NoRouter, NotRead
      <4>2. CASE router # NoRouter /\ router.main = m
        <5>1. router.rules = NotRead
          BY <1>4, <2>3, <4>2 DEF ReadsAsNamed
        <5> QED BY <5>1 DEF NotRead
      <4> QED BY <1>1, <1>2, <2>2, <4>1, <4>2
    <3>4. Becomes(g, [reloader[g] EXCEPT !.pc = to, !.main = m, !.rules = NotRead])
      BY <2>3 DEF Then
    <3> HIDE DEF to, m
    <3> QED BY <1>11, <2>1, <2>2, <3>1, <3>2, <3>3, <3>4
  <2>4. CASE /\ mainFile[m].readable => NamesFile(m)
             /\ Becomes(g, [reloader[g] EXCEPT
                              !.pc = IF mainFile[m].readable THEN "readRules" ELSE "idle",
                              !.main = m])
    <3> DEFINE to == IF mainFile[m].readable THEN "readRules" ELSE "idle"
    <3>1. to \in {"readRules", "selector", "idle"} /\ to # "selector"
          /\ (to = "readRules" => NamesFile(m))
      BY <2>4
    <3>2. [reloader[g] EXCEPT !.pc = to, !.main = m]
            = [reloader[g] EXCEPT !.pc = to, !.main = m, !.rules = reloader[g].rules]
      BY <1>1 DEF Reloading
    <3>3. Becomes(g, [reloader[g] EXCEPT !.pc = to, !.main = m, !.rules = reloader[g].rules])
      BY <2>4, <3>2
    <3> HIDE DEF to, m
    <3> QED BY <1>11, <2>1, <2>2, <3>1, <3>3
  <2> QED BY <1>12, <2>3, <2>4 DEF ReadMain
<1>13. CASE ReadRules(g)
  <2> DEFINE m == reloader[g].main
             r == Len(rulesFile)
  <2>1. reloader[g].pc = "readRules" /\ UNCHANGED applied
    BY <1>13 DEF ReadRules, At
  <2>2. /\ NamesFile(m) /\ m \in Versions
        /\ Alone(g) => selector <= m /\ checker <= m /\ router.main <= m
    <3>1. m \in 1..Len(mainFile) /\ Len(mainFile) \in Versions
      BY <2>1 DEF Inv, Accepted, Exist, TypeOK
    <3>2. m \in Versions
      BY <3>1, MaxEditsAssumption DEF Versions
    <3> QED BY <1>4, <2>1, <3>2 DEF Named, Newer
  <2>3. r # NotRead /\ r \in Versions /\ router.rules <= r
    BY <1>1 DEF NotRead, Inv, TypeOK, Versions
  <2>4. CASE Then(g, m, r)
    <3> DEFINE to == IF Accepts(m, r) THEN "selector" ELSE "idle"
    <3>1. to \in {"readRules", "selector", "idle"} /\ to # "readRules"
      OBVIOUS
    <3>2. ReadsAsNamed(m, r)
      BY <2>2, <2>3 DEF ReadsAsNamed
    <3>3. Becomes(g, [reloader[g] EXCEPT !.pc = to, !.main = m, !.rules = r])
      BY <2>4 DEF Then
    <3> HIDE DEF to, m, r
    <3> QED BY <1>11, <2>1, <2>2, <2>3, <3>1, <3>2, <3>3
  <2>5. CASE Becomes(g, [reloader[g] EXCEPT !.pc = "idle"])
    <3>1. [reloader[g] EXCEPT !.pc = "idle"]
            = [reloader[g] EXCEPT !.pc = "idle", !.main = m, !.rules = reloader[g].rules]
          /\ reloader[g].rules \in Versions \cup {NotRead}
      BY <1>1 DEF Reloading
    <3>2. Becomes(g, [reloader[g] EXCEPT !.pc = "idle", !.main = m, !.rules = reloader[g].rules])
      BY <2>5, <3>1
    <3> HIDE DEF m
    <3> QED BY <1>11, <2>1, <2>2, <3>1, <3>2
  <2> QED BY <1>13, <2>4, <2>5 DEF ReadRules
\* A reload past its reads, which keeps what it has read.
<1>14. ASSUME NEW to \in {"checker", "router", "idle"},
              Becomes(g, [reloader[g] EXCEPT !.pc = to])
       PROVE  LET k == [reloader[g] EXCEPT !.pc = to]
              IN  /\ k \in Reloading /\ k.alone = reloader[g].alone /\ k.pc = to
                  /\ k.main = reloader[g].main /\ k.rules = reloader[g].rules
                  /\ reloader'[g] = k
  BY <1>1, <1>14 DEF Reloading, Steps, Becomes
<1>15. CASE UpdateSelector(g)
  <2> DEFINE k == [reloader[g] EXCEPT !.pc = "checker"]
  <2>1. /\ reloader[g].pc = "selector" /\ selector' = reloader[g].main
        /\ checker' = checker /\ router' = router /\ Becomes(g, k)
    BY <1>15 DEF UpdateSelector, At
  <2>2. /\ k \in Reloading /\ k.alone = reloader[g].alone /\ k.pc = "checker"
        /\ k.main = reloader[g].main /\ k.rules = reloader[g].rules /\ reloader'[g] = k
    BY <1>14, <2>1
  <2> HIDE DEF k
  <2>3. Named(g)'
    BY <1>4, <1>6, <2>1, <2>2 DEF Named
  <2>4. Alone(g) => Newer(g)'
    BY <1>4, <1>8, <2>1, <2>2 DEF Newer
  <2>5. InStep(g)'
    BY <2>1, <2>2 DEF InStep
  <2>6. (router # NoRouter => ReadsAsNamed(router.main, router.rules))'
    BY <1>4, <1>6, <2>1
  <2>7. Alone(g) => Forward
    BY <1>2, <1>4, <1>8, <2>1 DEF Forward, Newer
  <2> QED BY <1>10, <2>1, <2>2, <2>3, <2>4, <2>5, <2>6, <2>7
<1>16. CASE UpdateChecker(g)
  <2> DEFINE k == [reloader[g] EXCEPT !.pc = "router"]
  <2>1. /\ reloader[g].pc = "checker" /\ checker' = reloader[g].main
        /\ selector' = selector /\ router' = router /\ Becomes(g, k)
    BY <1>16 DEF UpdateChecker, At
  <2>2. /\ k \in Reloading /\ k.alone = reloader[g].alone /\ k.pc = "router"
        /\ k.main = reloader[g].main /\ k.rules = reloader[g].rules /\ reloader'[g] = k
    BY <1>14, <2>1
  <2> HIDE DEF k
  <2>3. Named(g)'
    BY <1>4, <1>6, <2>1, <2>2 DEF Named
  <2>4. Alone(g) => Newer(g)'
    BY <1>4, <1>8, <2>1, <2>2 DEF Newer
  <2>5. Alone(g) => InStep(g)'
    BY <1>4, <2>1, <2>2 DEF InStep
  <2>6. (router # NoRouter => ReadsAsNamed(router.main, router.rules))'
    BY <1>4, <1>6, <2>1
  <2>7. Alone(g) => Forward
    BY <1>2, <1>4, <1>8, <2>1 DEF Forward, Newer
  <2> QED BY <1>10, <2>1, <2>2, <2>3, <2>4, <2>5, <2>6, <2>7
<1>17. CASE UpdateRules(g)
  <2> DEFINE used == [main |-> reloader[g].main, rules |-> reloader[g].rules]
             k == [reloader[g] EXCEPT !.pc = "idle"]
  <2>1. /\ reloader[g].pc = "router" /\ router' \in {router, used}
        /\ selector' = selector /\ checker' = checker /\ Becomes(g, k)
    BY <1>17 DEF UpdateRules, At
  <2>2. /\ k \in Reloading /\ k.alone = reloader[g].alone /\ k.pc = "idle"
        /\ reloader'[g] = k
    BY <1>14, <2>1
  <2>3. used.main = reloader[g].main /\ used.rules = reloader[g].rules
    OBVIOUS
  <2> HIDE DEF k, used
  <2>4. Named(g)' /\ Newer(g)' /\ InStep(g)'
    BY <2>2 DEF Named, Newer, InStep
  <2>5. ReadsAsNamed(used.main, used.rules)
    BY <1>4, <2>1, <2>3 DEF Named
  <2>6. (router # NoRouter => ReadsAsNamed(router.main, router.rules))'
    BY <1>4, <1>6, <2>1, <2>5
  <2>7. Alone(g) => Forward
    <3>1. Alone(g) => /\ router.main <= used.main
                      /\ router.rules <= used.rules \/ router.main < used.main
      BY <1>4, <2>1, <2>3 DEF Newer
    <3> QED BY <1>2, <1>8, <2>1, <2>3, <3>1 DEF Forward
  <2> QED BY <1>10, <2>1, <2>2, <2>4, <2>6, <2>7
<1> QED BY <1>12, <1>13, <1>15, <1>16, <1>17 DEF ReloadStep

\* Every step keeps the order, and takes no component back while a reload runs alone.
LEMMA OrderedStep ==
  ASSUME Inv, Ordered, [Next]_vars
  PROVE  Ordered' /\ ((\E g \in Reloads : Alone(g)) => Forward)
<1>1. mainFile \in Seq(MainContents)
  BY DEF Inv, TypeOK
<1>2. CASE \E g \in Reloads : ReloadStep(g)
  BY <1>2, ReloadOrdered
<1>3. CASE \/ \E content \in MainContents, op \in Ops : EditMain(content, op)
           \/ \E content \in RulesContents : EditRules(content)
           \/ WatchEvent \/ Stop \/ UNCHANGED vars
  <2>1. UNCHANGED applied /\ UNCHANGED reloader
    BY <1>3 DEF EditMain, EditRules, WatchEvent, Stop, vars, applied
  <2>2. \A i \in 1..Len(mainFile) : mainFile'[i] = mainFile[i]
    BY <1>1, <1>3 DEF EditMain, EditRules, WatchEvent, Stop, vars, files
  <2> QED BY <2>1, <2>2, OutsideOrdered
<1>4. CASE \E g \in Reloads : TimerFires(g)
  <2>1. UNCHANGED applied /\ UNCHANGED files
    BY <1>4 DEF TimerFires
  <2> QED BY <1>4, <2>1, OutsideOrdered DEF files
<1> QED BY <1>2, <1>3, <1>4 DEF Next

\* A component goes back to an older configuration only if two reloads overlap, for any
\* number of reloads and whatever edits fall between the reads and the updates
\* (watcher.go:69-113, main.go:153-169).
THEOREM AloneGoesForward == Spec => OnlyOverlapsGoBack
<1> DEFINE Step == (\E g \in Reloads : Alone(g)) => Forward
<1>1. Inv /\ Ordered /\ [Next]_vars => Ordered' /\ [Step]_vars
  BY OrderedStep
<1> HIDE DEF Step
<1>2. Spec => [][Step]_vars
  BY <1>1, InitOrdered, AlwaysInv, PTL DEF Spec
<1> QED BY <1>2 DEF OnlyOverlapsGoBack, Step

\* However far overlapping reloads have left the selector and the health checker apart,
\* a reload that runs alone gives both the nodes it has read (main.go:153-161).
THEOREM AloneBringsTogether == Spec => []AloneAgrees
<1>1. Inv /\ Ordered /\ [Next]_vars => Ordered'
  BY OrderedStep
<1>2. Ordered => AloneAgrees
  BY DEF Ordered, InStep, AloneAgrees, At
<1> QED BY <1>1, <1>2, InitOrdered, AlwaysInv, PTL DEF Spec
=============================================================================
