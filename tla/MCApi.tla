------------------------------- MODULE MCApi -------------------------------
(* Three services and a socket; the last service has an escaped name.      *)
EXTENDS Api

MCUnit(words, load, active, file, in_files, text) ==
    [words |-> words, load |-> load, active |-> active, file |-> file,
     in_files |-> in_files, description |-> text]

Gone    == MCUnit(0, "not-found", "inactive", "disabled", FALSE, "")
Up      == MCUnit(6, "loaded", "active", "enabled", TRUE, "mail")
Coming  == MCUnit(5, "loaded", "activating", "disabled", TRUE, "ssh")
Missing == MCUnit(4, "not-found", "failed", "static", FALSE, "")
Instance == MCUnit(5, "loaded", "failed", "enabled-runtime", FALSE, "ssh")
Truncated == MCUnit(3, "loaded", "reloading", "masked", TRUE, "ssh")

MCHosts == {h \in [Names -> {Gone, Up, Coming, Missing, Truncated}] :
                \A n \in Names \ Services : h[n] = Gone}
MCChanges == {Gone, Up, Instance}

MCFilters ==
    {NoParams, [state |-> "running"], [enabled |-> "true"], [state |-> "failed"],
     [q |-> [names |-> {2}, descriptions |-> {"ssh"}]]}
MCQueries ==
    {[state |-> "runing"], [enabled |-> "yes"], [stat |-> "failed"],
     [limit |-> 0], [limit |-> MaxPage], [limit |-> MaxPage + 1], [limit |-> -1],
     [offset |-> -1], [offset |-> 4], [q |-> AnyText]}
MCHeaderIds ==
    {NoId, [length |-> 128, chars |-> "plain"], [length |-> 129, chars |-> "plain"],
     [length |-> 8, chars |-> "other"]}
============================================================================
