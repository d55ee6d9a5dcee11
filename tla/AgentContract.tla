---------------------------- MODULE AgentContract ----------------------------
(***************************************************************************)
(* What the MIG agent of a node promises to the GPU partitioner, to the    *)
(* scheduler and to the Pods, without its controllers, its cache, its lock *)
(* or its queue: who may change which part of the Node and of the GPUs,    *)
(* and in which turn.  MigAgent implements it.                             *)
(***************************************************************************)
EXTENDS Naturals

VARIABLES
    devices,      \* the MIG instances of the node's GPUs
    spec, plan,   \* the partitioning that is asked for, and its id (0: none)
    issued,       \* the plans asked for so far
    taint,        \* the node is tainted for repartitioning
    status, ack,  \* the devices the agent shows, and the id of the plan it answers
    turn          \* "boot", "wait", "ready" or "apply"

contractVars == <<devices, spec, plan, issued, taint, status, ack, turn>>

Init ==
    /\ devices = {} /\ turn = "boot"
    /\ plan = 0 /\ issued = 0 /\ ack = 0 /\ taint = FALSE

\* The partitioner asks for another partitioning, at any time.
Ask ==
    /\ issued' = issued + 1 /\ plan' = issued + 1
    /\ taint => taint'
    /\ UNCHANGED <<devices, status, ack, turn>>

\* The agent reports, never in the middle of a change; it only answers plans that
\* were issued.
Report ==
    /\ turn \in {"wait", "ready"} /\ turn' = "ready"
    /\ ack' \in 0..issued
    /\ UNCHANGED <<devices, spec, plan, issued, taint>>

\* A change of the devices begins only after a report that followed the last one.
Begin ==
    /\ turn = "ready" /\ turn' = "apply"
    /\ UNCHANGED <<devices, spec, plan, issued, taint, status, ack>>

\* The devices change one deletion or one creation call at a time, and the Node
\* does not.
Change ==
    /\ turn = "apply"
    /\ \/ devices \subseteq devices'
       \/ \E i \in devices : devices' \in {devices \ {i},
                                           (devices \ {i}) \cup {[i EXCEPT !.ci = FALSE]}}
    /\ UNCHANGED <<spec, plan, issued, taint, status, ack, turn>>

\* At the end of a change the agent may drop what was asked for, or untaint the
\* node, not both; a new report is due.
Finish ==
    /\ turn = "apply" /\ turn' = "wait"
    /\ \/ plan' \in {0, plan} /\ UNCHANGED taint
       \/ taint' \in {FALSE, taint} /\ UNCHANGED <<spec, plan>>
    /\ UNCHANGED <<devices, issued, status, ack>>

\* The process starts again, and first removes devices, or gives up and starts over.
Restart ==
    /\ turn' = "boot"
    /\ UNCHANGED <<devices, spec, plan, issued, taint, status, ack>>

Clean ==
    /\ turn = "boot" /\ turn' \in {"boot", "wait"}
    /\ \A j \in devices' \ devices : \E i \in devices : j = [i EXCEPT !.ci = FALSE]
    /\ UNCHANGED <<spec, plan, issued, taint, status, ack>>

Next == Ask \/ Report \/ Begin \/ Change \/ Finish \/ Restart \/ Clean

Contract == Init /\ [][Next]_contractVars
=============================================================================
