---------------------------- MODULE UpdatePolicy ----------------------------
(***************************************************************************)
(* What the maintenance policy permits: the pure functions of              *)
(* crates/abora-config/src/schedule.rs.                                    *)
(*                                                                         *)
(* A local time is a weekday and a minute of the day, or unknown (`date'   *)
(* failed).  Clock strings are the minutes parse_clock makes of them.      *)
(***************************************************************************)
EXTENDS Naturals

Known(day, minute) == [known |-> TRUE, weekday |-> day, minutes |-> minute]
Unknown == [known |-> FALSE, weekday |-> 1, minutes |-> 0]

\* What parse_clock makes of HH:MM.
Clock == {60 * hour + minute : hour \in 0 .. 23, minute \in 0 .. 59}

MaintenanceWindow == [days: SUBSET (1 .. 7), start: Clock, end: Clock]

\* What a configuration that loads keeps to.
validate_windows(windows) ==
    /\ windows \subseteq MaintenanceWindow
    /\ \A w \in windows : w.days # {} /\ w.start < w.end

in_window(windows, now) ==
    \E w \in windows :
        /\ now.weekday \in w.days
        /\ w.start <= now.minutes
        /\ now.minutes < w.end

permissions(config, now) ==
    LET in_win == now.known /\ config.enabled /\ in_window(config.windows, now)
    IN  [apply_permitted    |-> in_win,
         installs_permitted |-> config.automatic /\ in_win,
         reboot_permitted   |-> \/ config.reboot_policy = "always"
                                \/ config.reboot_policy = "ask" /\ in_win]
============================================================================
