--------------------------- MODULE MCProcessGroups ---------------------------
EXTENDS ProcessGroups

Config(nodes, procs, threads, tp, pp, valid) ==
    [nodes |-> nodes, procs |-> procs, threads |-> threads,
     tp |-> tp, pp |-> pp, valid |-> valid]

(* Two processes on one or two nodes with one or two threads each, groups  *)
(* along one or two axes; one process alone; a layout that is refused.     *)
MCConfigs ==
    {Config(1, 2, 2, 1, 2, TRUE), Config(1, 2, 2, 2, 1, FALSE),
     Config(2, 1, 2, 1, 1, TRUE), Config(2, 1, 1, 1, 2, TRUE),
     Config(1, 1, 2, 2, 1, TRUE), Config(1, 2, 1, 2, 1, TRUE)}
=============================================================================
