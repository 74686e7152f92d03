---------------------------- MODULE MCSelection ----------------------------
(***************************************************************************)
(* Small pods and policies for TLC: two regular containers in both orders, *)
(* one init container, limits that tie, three pods.                        *)
(***************************************************************************)
EXTENDS Selection

MCDefault == [mode |-> "sustained", percent |-> 80, absolute |-> None,
              window |-> 2, minGrowth |-> 1]

Ctr(n, l, a) == [name |-> n, limit |-> l, always |-> a]

MCTemplates ==
    {[containers |-> IF turn THEN <<Ctr(2, b, FALSE), Ctr(1, a, FALSE)>>
                     ELSE <<Ctr(1, a, FALSE), Ctr(2, b, FALSE)>>,
      inits |-> <<Ctr(3, 2, always)>>, default |-> d] :
        turn \in BOOLEAN, a \in {0, 2}, b \in {0, 2}, always \in BOOLEAN,
        d \in {None, 3}}

MCLists == {<<>>, <<Star>>, <<1>>, <<3, 2>>}

MCDetSpecs == {Unset, [Unset EXCEPT !.absolute = 3], [Unset EXCEPT !.percent = 50]}

Healthy == [ready |-> TRUE, grown |-> TRUE, owner |-> "own", current |-> TRUE]

\* The second pod of the first fleet belongs to another workload whose pods
\* the selector matches.
MCFleets == {<<Healthy, [Healthy EXCEPT !.owner = "other"]>>,
             <<[Healthy EXCEPT !.current = FALSE], Healthy>>,
             <<[Healthy EXCEPT !.owner = "none"], [Healthy EXCEPT !.ready = FALSE]>>}
=============================================================================
