----------------------------- MODULE Datasource -----------------------------
(***************************************************************************)
(* internal/datasource: what the configured source makes of a backend's    *)
(* answer, and the sampler's join of the result by container.              *)
(*                                                                         *)
(* An answer is None (no connection, a status other than 200, a body       *)
(* that does not decode, or an error reported in it; metrics-server is     *)
(* asked once per namespace, and one failed request fails the call) or     *)
(* the series the backend sent: for each container those that name it, in  *)
(* order, and under None those whose labels name no container in scope (no *)
(* pod or container, the pause container, another namespace).  A series is *)
(* the sequence of its points.  A point without a number (null in Datadog, *)
(* an unparsable string in Prometheus) has the working set None.  `life`   *)
(* is a tag: the instance of the container the point was measured in.      *)
(***************************************************************************)
EXTENDS SampleStore, SequencesExt

SourceTypes == {"metrics-server", "prometheus", "datadog"}

\* promSampleValue: a vector has one point per series; one that does not parse
\* is an error.
promSampleValue(points) ==
    IF Last(points).workingSet = None THEN None ELSE Last(points)

\* lastPoint: the last pair of the list; null has decoded to 0.
lastPoint(points) ==
    IF points = <<>> THEN None
    ELSE IF Last(points).workingSet = None
    THEN [Last(points) EXCEPT !.workingSet = 0]
    ELSE Last(points)

\* The usage a source reads from a series of points; None when it skips the
\* series.  A PodMetrics entry of metrics-server holds one quantity, always a
\* number.
UsageOf(source, points) ==
    IF source = "metrics-server" THEN Last(points)
    ELSE IF source = "prometheus" THEN promSampleValue(points)
    ELSE lastPoint(points)

\* ListUsage: what is read from the series of each container in scope.
ListUsage(source, answer) ==
    IF answer = None THEN None
    ELSE [k \in DOMAIN answer \ {None} |->
             [i \in DOMAIN answer[k] |-> UsageOf(source, answer[k][i])]]

\* sampleOnce's map: of two entries for a container the later one wins.
ByKey(list) ==
    [k \in Keys |->
        LET read == {i \in DOMAIN list[k] : list[k][i] # None}
        IN  IF read = {} THEN None ELSE list[k][Max(read)]]
=============================================================================
