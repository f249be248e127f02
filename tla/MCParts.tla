------------------------------ MODULE MCParts ------------------------------
(***************************************************************************)
(* Six parts that share nothing, in one run: an initial state picks one    *)
(* of them, and only that one moves.                                       *)
(* The calendar has two months (4 and 3 days), weeks of 3 days, days of 3  *)
(* hours of 4 minutes, and two ticks to a minute.                          *)
(***************************************************************************)
EXTENDS Cron, AtomicFile, Sessions, Snapshots, Prediction, EventBus

VARIABLE machine

parts == <<vars, fileVars, sessionVars, snapshotVars, predictionVars, eventVars>>
mcVars == <<machine, parts>>

MCMonthLengths == <<4, 3>>

MinuteFields == {<<Star>>, <<One(2)>>, <<Every(One(1), 2)>>, <<Span(1, 2), One(3)>>}
HourFields == {<<Star>>, <<One(1)>>, <<Every(Star, 2)>>}
DomFields == {<<Star>>, <<One(4)>>, <<One(1), One(3)>>}
MonthFields == {<<Star>>, <<One(2)>>}
DowFields == {<<Star>>, <<One(3)>>, <<Span(1, 2)>>}

\* Reversed, zero-stepped and out-of-range terms: refused at the enqueue.
BadFields == {<<Span(2, 1)>>, <<Every(Star, 0)>>, <<Star, One(9)>>}

MCSpecs ==
    [minute : MinuteFields, hour : HourFields, dom : DomFields, month : MonthFields,
     dow : DowFields]
    \cup [minute : BadFields, hour : {<<Star>>}, dom : {<<Star>>}, month : {<<Star>>},
          dow : {<<Star>>}]

MCInstants == {0, 1, 11, 22, 23, 25, 46, 95, 130}

MCInit ==
    /\ machine \in {"cron", "file", "sessions", "snapshots", "prediction", "events"}
    /\ Init /\ (machine # "cron" => status = "invalid" /\ spec.minute = <<Span(2, 1)>> /\ after = 0)
    /\ SnapshotsInit /\ \A i \in Indices : world[i].value = 0    \* bound
    /\ FileInit /\ SessionsInit /\ PredictionInit /\ EventInit

CronMoves ==
    /\ machine = "cron" /\ Next
    /\ UNCHANGED <<machine, fileVars, sessionVars, snapshotVars, predictionVars, eventVars>>
FileMoves ==
    /\ machine = "file" /\ FileNext
    /\ UNCHANGED <<machine, vars, sessionVars, snapshotVars, predictionVars, eventVars>>
SessionsMove ==
    /\ machine = "sessions" /\ SessionsNext
    /\ UNCHANGED <<machine, vars, fileVars, snapshotVars, predictionVars, eventVars>>
SnapshotsMove ==
    /\ machine = "snapshots" /\ SnapshotsNext
    /\ connections' > 1 => kills' = 0    \* bound: a kill or a second connection
    /\ UNCHANGED <<machine, vars, fileVars, sessionVars, predictionVars, eventVars>>
PredictionMoves ==
    /\ machine = "prediction" /\ PredictionNext
    /\ UNCHANGED <<machine, vars, fileVars, sessionVars, snapshotVars, eventVars>>
EventsMove ==
    /\ machine = "events" /\ EventNext
    /\ UNCHANGED <<machine, vars, fileVars, sessionVars, snapshotVars, predictionVars>>

MCNext ==
    CronMoves \/ FileMoves \/ SessionsMove \/ SnapshotsMove \/ PredictionMoves \/ EventsMove

MCSpec == MCInit /\ [][MCNext]_mcVars

=============================================================================
