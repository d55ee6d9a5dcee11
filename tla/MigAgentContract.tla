--------------------------- MODULE MigAgentContract ---------------------------
(***************************************************************************)
(* MigAgent implements AgentContract: the mapping.  The turn is not a      *)
(* variable of the program; it is what the places of the two controllers   *)
(* and the reports since the last apply amount to.                         *)
(***************************************************************************)
EXTENDS MigAgent

Turn == CASE aPc \in Starting -> "boot"
          [] aPc \in Applying -> "apply"
          [] OTHER -> IF reported THEN "ready" ELSE "wait"

C == INSTANCE AgentContract WITH
        devices <- hw, spec <- node.spec, plan <- node.plan, issued <- plans,
        taint <- node.taint, status <- node.status, ack <- node.ack, turn <- Turn

\* The agent keeps its contract: whatever the interleaving of its two controllers,
\* of crashes and of faults, devices change only within an apply or the cleanup at the
\* start, each apply follows a report that followed the previous one, no report is
\* written during an apply, only plans that were written are acknowledged, and the
\* spec is dropped and the taint removed only when an apply ends.
KeepsContract == C!Contract

\* Why the mapping works: nothing has been reported while the process starts, and the
\* plan ids that the agent has read, remembers or reports were issued.
ContractInv ==
    /\ aPc \in Starting => ~reported
    /\ \A id \in {node.plan, node.ack, cache.plan, lastParsed} : id <= plans
=============================================================================
