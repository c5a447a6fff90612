-------------------------------- MODULE MCRest --------------------------------
(***************************************************************************)
(* Rest for TLC, with lease times of six bits: 9 seconds are the longest   *)
(* lease whose rebind time does not wrap, 63 stand for an infinite one.    *)
(***************************************************************************)
EXTENDS Rest

Go(host, mac, ip, type) ==
    [go |-> TRUE, host |-> host, mac |-> mac, ip |-> ip, accept |-> {type}]
Other(mac, ip, accept) ==
    [go |-> FALSE, host |-> "good", mac |-> mac, ip |-> ip, accept |-> accept]

MCQueries ==
    { Go("good", "good", "v4", "json"), Go("good", "good", "v4", "yaml"),
      Go("good", "good", "v6", "xml"), Go("good", "good", "v4", "html"),
      Go("good", "none", "none", "xml"), Go("bad", "good", "v4", "json"),
      Go("good", "bad", "v4", "json"), Go("empty", "good", "v4", "json"),
      Go("good", "good", "bad", "json"), Go("good", "good", "odd", "yaml"),
      Other("good", "bad", {"json"}), Other("good", "v4", {}), Other("good", "v6", {"any"}),
      Other("good", "v4", {"html", "any"}), Other("good", "v4", {"html", "xml", "any"}) }

MCOptions ==
    [lease : {0, 3, 9, 10, 63}, t1 : {NoOption}, t2 : {NoOption}] \cup
    { [lease |-> 8, t1 |-> 2, t2 |-> 7], [lease |-> NoOption, t1 |-> NoOption, t2 |-> NoOption] }
=============================================================================
