-------------------------- MODULE MCApplyProtocol --------------------------
(***************************************************************************)
(* Values for the model checker: one maintenance window, minute 1 of day 1;*)
(* a time before it, one inside it, and an unreadable clock.               *)
(***************************************************************************)
EXTENDS ApplyProtocol

Window == [days |-> {1}, start |-> 1, end |-> 2]
Config(valid, enabled, automatic, policy) ==
    [valid |-> valid, enabled |-> enabled, automatic |-> automatic,
     reboot_policy |-> policy, windows |-> {Window}]

Outside == Known(1, 0)
Inside == Known(1, 1)

TwoTimes == {Outside, Inside}
OpenWindow == {Inside}
InsideOrUnknown == {Inside, Unknown}

Manual == Config(TRUE, TRUE, FALSE, "ask")
NeverReboot == Config(TRUE, TRUE, FALSE, "never")
AutomaticAsk == Config(TRUE, TRUE, TRUE, "ask")
Disabled == Config(TRUE, FALSE, FALSE, "never")
Broken == Config(FALSE, FALSE, FALSE, "ask")

ManualOnly == {Manual}
AutomaticOrBroken == {AutomaticAsk, Broken}
NeverRebootOrDisabled == {NeverReboot, Disabled}

\* Every failure but a late start, which gives a result no request's id.
PromptFaults == AllFaults \ {"age"}
============================================================================
