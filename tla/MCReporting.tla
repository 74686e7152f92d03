----------------------------- MODULE MCReporting -----------------------------
(***************************************************************************)
(* Small instances of Reporting for TLC.                                   *)
(***************************************************************************)
EXTENDS Reporting

CONSTANTS w1, w2, r1, r2

Env(token, url, hook, dd, chan) ==
    [botToken |-> token, slackURL |-> url, webhookURL |-> hook,
     datadog |-> dd, botChannel |-> chan]
Entry(name, type, host) == [name |-> name, type |-> type, slackHost |-> host]
All == EventTypes

OneTemplate == <<1>>

\* A bot and a webhook with a route; an incoming Slack webhook and Datadog with
\* the default events; a lone route; nothing at all; and two files that do not
\* load.
MCSetups ==
    {[env |-> Env(TRUE, TRUE, TRUE, FALSE, FALSE), events |-> All,
      capturer |-> TRUE, routesFile |-> <<Entry(r1, "auto", TRUE)>>],
     [env |-> Env(FALSE, TRUE, FALSE, TRUE, FALSE), capturer |-> FALSE,
      events |-> {"RestartTriggered", "CircuitBreakerTripped"},
      routesFile |-> <<>>],
     [env |-> Env(FALSE, FALSE, FALSE, FALSE, TRUE), events |-> All,
      capturer |-> TRUE, routesFile |-> <<Entry(r1, "webhook", TRUE)>>],
     [env |-> Env(FALSE, FALSE, FALSE, FALSE, FALSE), events |-> All,
      capturer |-> TRUE, routesFile |-> <<>>],
     [env |-> Env(TRUE, FALSE, FALSE, FALSE, TRUE), events |-> All,
      capturer |-> TRUE,
      routesFile |-> <<Entry(r1, "", FALSE), Entry(r1, "slack", FALSE)>>],
     [env |-> Env(TRUE, FALSE, FALSE, FALSE, TRUE), events |-> All,
      capturer |-> TRUE, routesFile |-> <<Entry(r2, "pager", FALSE)>>]}

\* r2 is registered nowhere.
MCSettings ==
    {[routes |-> <<r1, r2>>, channel |-> TRUE, dryRun |-> FALSE,
      profileCapture |-> None],
     [routes |-> <<r2>>, channel |-> TRUE, dryRun |-> FALSE,
      profileCapture |-> FALSE],
     [routes |-> <<r2, r1, r1>>, channel |-> FALSE, dryRun |-> TRUE,
      profileCapture |-> TRUE],
     [routes |-> <<>>, channel |-> FALSE, dryRun |-> TRUE,
      profileCapture |-> None],
     [routes |-> <<>>, channel |-> FALSE, dryRun |-> FALSE,
      profileCapture |-> TRUE]}
=============================================================================
