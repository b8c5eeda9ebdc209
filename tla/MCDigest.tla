------------------------------ MODULE MCDigest ------------------------------
(* The agent as a DaemonSet runs it, with two of the collectors, and a dry *)
(* run by an ordinary user, which ends at once.                            *)
EXTENDS Digest

MCConfigs ==
    {[Root |-> TRUE, DryRun |-> FALSE, Collect |-> {"network", "disk"}, SlackWebhook |-> TRUE],
     [Root |-> FALSE, DryRun |-> TRUE, Collect |-> {}, SlackWebhook |-> FALSE]}
=============================================================================
