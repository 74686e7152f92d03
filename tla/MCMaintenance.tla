---------------------------- MODULE MCMaintenance ----------------------------
(***************************************************************************)
(* Small calendars: three "minutes" a day, two zones that resolve and one  *)
(* that does not (beside a good window of the same policy).                *)
(***************************************************************************)
EXTENDS Maintenance

Ranges == {{<<1, 5>>}, {<<5, 1>>}, {<<6, 6>>}, {<<0, 0>>, <<3, 3>>}}

One == [ranges : Ranges, start : {0, 1}, end : {1, 2}, zone : {0, 2}]

\* A window whose end is not after its start is refused by parseWindow.
Some == {s \in One : s.start < s.end}

MCControllerSpecs == {{}} \cup {{s} : s \in {s \in One : s.ranges = {<<5, 1>>}}}
MCPolicySpecs ==
    {{}} \cup {{s} : s \in Some}
         \cup {{s, t} : s \in {s \in Some : s.zone = 0},
                          t \in {t \in Some : t.zone = 2 /\ t.end = 2}}
         \cup {{s, [s EXCEPT !.zone = None, !.end = 2]} : s \in Some}

FirstWeek == 7 .. 27
==============================================================================
