----------------------------- MODULE MCDefense -----------------------------
(* One host, a critical and a high kind of alert, and the two playbooks of *)
(* rules/playbooks.                                                        *)
EXTENDS Defense

CONSTANTS host1, path1, path2, ransomware, credential

MCHostInfos == {[id |-> host1, hostname |-> Empty]}

Kill(pid) == [action |-> "kill_process", arg |-> pid]

MCKinds ==
    {[severity |-> "critical", score |-> 90, path |-> path1,
      rule |-> ransomware, data |-> <<Kill(7)>>],
     [severity |-> "high", score |-> 50, path |-> path2,
      rule |-> credential, data |-> <<Kill(8)>>]}

Step(action, arg, onFailure) ==
    [action |-> action, arg |-> arg, onFailure |-> onFailure]

MCPlaybooks ==
    {[id |-> "PB-001", type |-> ransomware, score |-> 80, severity |-> "critical",
      tags |-> {},
      steps |-> <<Step("kill_process", "primary_pid", "continue"),
                  Step("isolate_host", Empty, "alert_admin"),
                  Step("quarantine_file", "primary_path", "continue")>>],
     [id |-> "PB-002", type |-> credential, score |-> 75, severity |-> "high",
      tags |-> {},
      steps |-> <<Step("kill_process", "primary_pid", "abort"),
                  Step("block_ip", "primary_ip", "continue")>>]}

NoPlaybooks == {}

=============================================================================
