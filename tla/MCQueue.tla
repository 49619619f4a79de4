------------------------------- MODULE MCQueue -------------------------------
(* Two stages, of which only the first can be probed, and one tree of each fate for each. *)
EXTENDS Queue

MCStages == <<"fetch", "load">>
MCFates == {Good, [kind |-> "mute", stage |-> NONE],
            [kind |-> "broken", stage |-> "load"], [kind |-> "poison", stage |-> "fetch"]}
=============================================================================
