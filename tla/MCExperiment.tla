---------------------------- MODULE MCExperiment ----------------------------
EXTENDS Experiment, TLC
CONSTANTS a, b
Raw(id, reason) == [id |-> id, reason |-> reason]
Fits(id) == Raw(id, "")
BothModes == <<"baseline", "tree">>
OneMode == <<"tree">>
BothFiles == {"delivery", "cross_domain"}
RawTasks == {Fits(a), Fits(b), Raw(a, "missing_stores"), Raw(b, "missing_stores")}
Files == {<<>>} \cup {<<x>> : x \in RawTasks} \cup {<<x, y>> : x, y \in RawTasks}

\* what is loaded: small files that fit or not, and all that may be asked of them
Loading ==
  [data : [delivery : {f \in Files : DistinctIds(f)}, cross_domain : {f \in Files : DistinctIds(f)}],
   sources : {BothFiles, {"delivery"}, {"cross_domain"}},
   wanted : {{}, {a}, {<<"delivery", b>>, <<"cross_domain", b>>}}, limit : {None, -1, 0, 1, 2, 3},
   modes : {OneMode}, trials : {1}, parallelism : {1}, interfered : {FALSE}, faulty : {FALSE}]

Asked(data, modes, trials, threads, faulty) ==
  [data |-> data, sources |-> BothFiles, wanted |-> {}, limit |-> None, modes |-> modes,
   trials |-> trials, parallelism |-> threads, interfered |-> faulty, faulty |-> faulty]

\* a task of each file, under one name, and a third
ThreeTasks == [delivery |-> <<Fits(a), Fits(b)>>, cross_domain |-> <<Fits(a)>>]
TwoTasks == [delivery |-> <<Fits(a)>>, cross_domain |-> <<Fits(a)>>]
OneTask == [delivery |-> <<Fits(a)>>, cross_domain |-> <<>>]
AllRequests ==
  Loading \cup {Asked(ThreeTasks, BothModes, 1, 2, TRUE), Asked(TwoTasks, BothModes, 2, 2, TRUE),
                Asked(OneTask, OneMode, 6, 1, FALSE),
                Asked(OneTask, BothModes, 0, 1, FALSE)}
=============================================================================
