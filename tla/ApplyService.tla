---------------------------- MODULE ApplyService ----------------------------
(***************************************************************************)
(* What the apply service promises to a client that asks for one thing at  *)
(* a time, whatever fails, crashes or is started twice underneath.         *)
(*                                                                         *)
(*   accepted  ids of the requests answered 202                            *)
(*   waiting   the request under way, or None                              *)
(*   done      installations, with the id of their request                 *)
(*   answer    the last result                                             *)
(*   log       the results a client may read                               *)
(*                                                                         *)
(* A power failure may undo the latest changes of what is under way and of *)
(* the last result, because their files are renamed without a sync:        *)
(*                                                                         *)
(*   oldWaiting, oldAnswers   what it may put in their place               *)
(***************************************************************************)
EXTENDS Naturals, Sequences

CONSTANTS
    Requests,       \* records with at least an id and the packages
    None,           \* no request
    MaxHistory      \* how many results are kept

VARIABLES accepted, waiting, done, answer, log, oldWaiting, oldAnswers

absVars == <<accepted, waiting, done, answer, log, oldWaiting, oldAnswers>>

AbsInit ==
    /\ accepted = {} /\ waiting = None /\ done = {}
    /\ answer.run = 0 /\ log = << >>
    /\ oldWaiting = {} /\ oldAnswers = {}

\* Only when nothing waits, and never an id for the second time.
Accept ==
    /\ waiting = None
    /\ waiting' \in Requests
    /\ waiting'.id \notin accepted
    /\ accepted' = accepted \cup {waiting'.id}
    /\ oldWaiting' = oldWaiting \cup {waiting}
    /\ UNCHANGED <<done, answer, log, oldAnswers>>

\* What is done is done for the waiting request: all of it, or a part.
CarryOut ==
    /\ waiting # None
    /\ \E pkgs \in SUBSET waiting.pkgs :
           done' = done \cup {[id |-> waiting.id, pkgs |-> pkgs]}
    /\ UNCHANGED <<accepted, waiting, answer, log, oldWaiting, oldAnswers>>

\* A result for the waiting request, true if it claims success.
Reply ==
    /\ waiting # None
    /\ answer'.run = answer.run + 1
    /\ answer'.id = waiting.id
    /\ answer'.ok /\ answer'.pkgs # {} =>
           [id |-> waiting.id, pkgs |-> answer'.pkgs] \in done
    /\ oldAnswers' = oldAnswers \cup {answer}
    /\ UNCHANGED <<accepted, waiting, done, log, oldWaiting>>

\* A request goes only when the last result is its own.
Clear ==
    /\ waiting # None
    /\ answer.id = waiting.id
    /\ waiting' = None
    /\ oldWaiting' = oldWaiting \cup {waiting}
    /\ UNCHANGED <<accepted, done, answer, log, oldAnswers>>

\* The last result is logged unless its request has an entry; the oldest entry
\* makes room.
Log ==
    /\ answer.run > 0
    /\ \A i \in DOMAIN log : log[i].id # answer.id
    /\ log' = LET h == Append(log, answer)
              IN  IF Len(h) > MaxHistory THEN Tail(h) ELSE h
    /\ UNCHANGED <<accepted, waiting, done, answer, oldWaiting, oldAnswers>>

\* The machine restarts, in order or after a power failure.
Restart ==
    /\ waiting' \in oldWaiting \cup {waiting}
    /\ answer' \in oldAnswers \cup {answer}
    /\ oldWaiting' = {} /\ oldAnswers' = {}
    /\ UNCHANGED <<accepted, done, log>>

AbsNext == Accept \/ CarryOut \/ Reply \/ Clear \/ Log \/ Restart

AbsSpec == AbsInit /\ [][AbsNext]_absVars
============================================================================
