----------------------------- MODULE MCSchedule -----------------------------
(* One corpus, and what an owner may come back with: other prices, a patched prompt, a minimum no *)
(* benchmark reaches, or a table that prices too little to start on.                              *)
EXTENDS Schedule

MCTask(n, b, text) == [id |-> n, benchmark |-> b, text |-> text]
MCTasks(text) == {MCTask(1, "x", "v1"), MCTask(2, "x", "v1"), MCTask(3, "y", "v1"), MCTask(4, "y", text)}
MCRow(n, cost) == [id |-> n, price |-> cost, variant |-> "plain", temperature |-> TRUE, textOnly |-> TRUE]
MCBase ==
  [payload |-> <<MCRow(1, 1), MCRow(2, 2), [MCRow(3, 0) EXCEPT !.variant = "free"]>>, pool |-> {1, 2},
   table |-> [x |-> FALSE, y |-> FALSE], king |-> "cascade", tasks |-> MCTasks("v1"),
   perBenchmark |-> 1, minimum |-> 1, windowBlocks |-> 2, immunity |-> 6]
MCConfigs ==
  {MCBase,
   [MCBase EXCEPT !.payload = <<MCRow(1, 2), MCRow(2, 1)>>],
   [MCBase EXCEPT !.tasks = MCTasks("v2")],
   [MCBase EXCEPT !.perBenchmark = 3, !.minimum = 3],
   [MCBase EXCEPT !.table = [x |-> TRUE, y |-> FALSE]]}
MCNonce == <<1, 2>>
MCSubnet == [immunity |-> 6, rateLimit |-> 1]
=============================================================================
